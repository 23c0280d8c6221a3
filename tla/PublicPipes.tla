----------------------------- MODULE PublicPipes -----------------------------
(***************************************************************************)
(* What users may expect of public pipes: "cmd >i" puts an output in pipe  *)
(* i, where it stays until "cmd <i" takes it; until the server ends, no    *)
(* output is dropped, mixed up with another or read twice.                 *)
(***************************************************************************)
CONSTANTS
  Ids,        \* the pipes
  Absent, Empty

VARIABLES
  box,        \* box[i]: the output in pipe i, Empty, or Absent
  made, taken,\* the outputs put into a pipe so far, and taken out of one
  closed      \* the server has ended

boxVars == <<box, made, taken, closed>>

BoxInit ==
  /\ box = [i \in Ids |-> Absent] /\ made = {} /\ taken = {}
  /\ closed = FALSE

(* What may happen to one pipe in one step. *)
Make(i)   == box[i] = Absent /\ box'[i] = Empty
Fill(i)   == box[i] = Empty /\ box'[i] \in made' \ made
Take(i)   == box[i] \in made /\ box'[i] = Empty /\ box[i] \in taken' \ taken
Remove(i) == box[i] = Empty /\ box'[i] = Absent

Moves ==
  /\ \A i \in Ids : box'[i] = box[i] \/ Make(i) \/ Fill(i) \/ Take(i) \/ Remove(i)
  /\ \A i, j \in Ids : i # j /\ Fill(i) /\ Fill(j) => box'[i] # box'[j]
  /\ made' = made \cup {box'[i] : i \in {j \in Ids : Fill(j)}}
  /\ taken' = taken \cup {box[i] : i \in {j \in Ids : Take(j)}}
  /\ UNCHANGED closed

(* The end drops what is left, and nothing is promised from then on. *)
BoxNext == (~closed /\ Moves) \/ closed'

BoxSpec == BoxInit /\ [][BoxNext]_boxVars
=============================================================================
