--------------------------- MODULE MCSelectServer ---------------------------
(* Instances of SelectServer for TLC.                                      *)
EXTENDS SelectServer, TLC

Sym == Permutations(Sessions)

ShortNames == [n \in Names |-> n]

Naming == {Line("name", n, None) : n \in Names}
Setting == {Line("setenv", x, v) : x \in Vars, v \in Values}

One(S) == {<<l>> : l \in S}

(* What changes the table, half lines, and a command that waits for its    *)
(* client.                                                                 *)
TablePackets == One(Naming \cup Setting \cup {Plain("exit"), Plain("cat"), Part})

(* Clients that say little, to see what the network does. *)
TalkPackets == One({Plain("yell"), Plain("cat"), Plain("exit")})

BurstPackets == {<<Plain("run"), Plain("run")>>}
=============================================================================
