----------------------------- MODULE MCPubPipe -----------------------------
(* Instances of PubPipe for TLC.                                           *)
EXTENDS PubPipe, TLC

Sym == Permutations(Procs) \cup Permutations(Ids)

(* A stage without "<in" may be any of its line. *)
AllStages ==
  {s \in [out : Ids \cup {None}, in : Ids \cup {None}, first : BOOLEAN] :
     (s.out # None \/ s.in # None) /\ (s.in = None => s.first)}

(* Lines of one stage that do not read the pipe they make. *)
PlainStages == {s \in AllStages : s.first /\ s.out # s.in}

(* Lines with one redirection, in any stage. *)
SimpleStages == {s \in AllStages : s.out = None \/ (s.in = None /\ s.first)}

(* clear_all closes readers that the master has open, and nothing else.    *)
(* This fails (PipeOverlap): the request to open was erased, or SIGINT     *)
(* comes between the open and the record of a reader, and the number is    *)
(* not set; or it comes between the close and the store of -1 while the    *)
(* pipe is in use again, and the number is closed a second time.           *)
ClearsOwn ==
  MayClear => \A i \in Ids : valid[i] => fake[i] \in readers \cup {0}
=============================================================================
