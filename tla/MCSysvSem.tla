----------------------------- MODULE MCSysvSem -----------------------------
(* Instances of SysvSem for TLC.                                           *)
EXTENDS SysvSem, TLC

Sym == Permutations(Procs)
=============================================================================
