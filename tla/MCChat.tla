------------------------------- MODULE MCChat -------------------------------
(* Instances of Chat for TLC.                                              *)
EXTENDS Chat, TLC

Sym == Permutations(Procs)

(* Names short enough to be stored whole. *)
ShortNames == [n \in Names |-> n]

(* Two different names that agree in their first MAX_NICK_LEN-1 characters. *)
LongNames == [n \in Names |-> IF n \in {"long1", "long2"} THEN "long" ELSE n]

(* Bound for properties that say nothing after a failed semop(): such a    *)
(* state is checked and not extended.                                      *)
UntilFailure == ~failed
=============================================================================
