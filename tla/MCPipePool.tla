----------------------------- MODULE MCPipePool -----------------------------
(* Instances of PipePool for TLC.                                          *)
EXTENDS PipePool

Command(k, t, x, o, e) == [known |-> k, text |-> t, next |-> x, out |-> o, err |-> e]

ATypo == CHOOSE t \in Texts : TRUE  \* an unknown command prints nothing

Known   == {Command(TRUE, t, FALSE, Closed, Closed) : t \in Texts}
OutTo   == {Command(TRUE, t, FALSE, n, Closed) : t \in Texts, n \in 1 .. MaxCount}
ErrTo   == {Command(TRUE, t, FALSE, Closed, n) : t \in Texts, n \in 1 .. MaxCount}
PipedOn == {Command(TRUE, t, TRUE, Closed, Closed) : t \in Texts}
Typos   == {Command(FALSE, ATypo, FALSE, Closed, Closed)}
TypoOut == {Command(FALSE, ATypo, FALSE, n, Closed) : n \in 1 .. MaxCount}
TypoErr == {Command(FALSE, ATypo, FALSE, Closed, n) : n \in 1 .. MaxCount}

Ends1 == Known \cup OutTo \cup ErrTo
OneOrTwo(starts, ends) == {<<e>> : e \in ends} \cup {<<s, e>> : s \in starts, e \in ends}

(* Lines of commands that exist. *)
GoodLines == OneOrTwo(PipedOn, Ends1)

(* Unknown commands too, at the end of a line and without a numbered pipe. *)
MixedLines == OneOrTwo(PipedOn, Ends1 \cup Typos)

(* Unknown commands that name a numbered pipe. *)
TypoOutLines == OneOrTwo(PipedOn, Ends1 \cup TypoOut)
TypoErrLines == OneOrTwo(PipedOn, Ends1 \cup TypoErr)
=============================================================================
