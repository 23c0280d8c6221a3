----------------------------- MODULE MCConnLock -----------------------------
(* Instance of ConnLock for TLC.                                           *)
EXTENDS ConnLock, TLC

Sym == Permutations(Procs)
=============================================================================
