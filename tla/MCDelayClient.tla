--------------------------- MODULE MCDelayClient ---------------------------
(* Instances of DelayClient for TLC.                                       *)
EXTENDS DelayClient

ShortNames == [n \in Names |-> n]

(* A line at a time; "cat" reads until its client closes, and scripts      *)
(* leave "exit" to logout.  Commands that answer their client only are     *)
(* alike here: "run" stands for them.                                      *)
SaidPackets ==
  {<<l>> : l \in {Plain("run"), Plain("yell")}
                    \cup {Line("name", n, None) : n \in Names}}
RunPackets == {<<Plain("run")>>}
=============================================================================
