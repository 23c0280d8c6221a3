--------------------------- MODULE MCServerPipes ---------------------------
(* Instances of ServerPipes for TLC.                                       *)
EXTENDS ServerPipes, TLC

AllStages ==
  {s \in [out : Numbers \cup {None}, in : Numbers \cup {None}, first : BOOLEAN] :
     s.out # None \/ s.in # None}

(* Stages that do not read the pipe they make, nor name one they don't open. *)
PlainStages == {s \in AllStages : s.out # s.in /\ (s.in # None => s.first)}
=============================================================================
