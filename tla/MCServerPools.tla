--------------------------- MODULE MCServerPools ---------------------------
(* Instances of ServerPools for TLC.                                       *)
EXTENDS ServerPools, TLC

Sym == Permutations(Clients) \cup Permutations(Texts)

Command(k, t, x, o, e) == [known |-> k, text |-> t, next |-> x, out |-> o, err |-> e]

(* Lines of one command, and one of two. *)
ShortLines ==
  {<<Command(TRUE, t, FALSE, n, Closed)>> : t \in Texts, n \in {Closed} \cup 1 .. MaxCount}
    \cup {<<Command(FALSE, t, FALSE, Closed, Closed)>> : t \in Texts}
    \cup {<<Command(TRUE, t, TRUE, Closed, Closed), Command(TRUE, t, FALSE, Closed, Closed)>>
            : t \in Texts}

(* Unknown commands that name a numbered pipe. *)
StrayLines ==
  ShortLines \cup {<<Command(FALSE, t, FALSE, n, Closed)>> : t \in Texts, n \in 1 .. MaxCount}
=============================================================================
