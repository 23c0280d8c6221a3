--------------------------- MODULE NumberedPipes ---------------------------
(***************************************************************************)
(* What numbered pipes promise a user: the output of a command that ends   *)
(* in "|n" (or the error output of one that ends in "!n") is the input of  *)
(* the n-th line after it, after everything sent to that line before.      *)
(* Lines whose first command is unknown do not count.                      *)
(***************************************************************************)
EXTENDS Integers, Sequences

CONSTANTS
  MaxCount,   \* the largest number used
  Lines       \* lines of commands: does it exist, its text, "| ", "|n", "!n"

VARIABLES
  todo,       \* the commands of the line that are still to run
  fresh,      \* the next one is the first of its line
  due,        \* due[n]: what waits for the n-th line from here
  piped,      \* the output of the previous command of this line, if piped on
  input       \* what the last command run has got as its input

dueVars == <<todo, fresh, due, piped, input>>

Numbers == 1 .. MaxCount

DueInit ==
  /\ todo = <<>> /\ fresh = TRUE
  /\ due = [n \in Numbers |-> <<>>] /\ piped = <<>> /\ input = <<>>

Type == todo = <<>> /\ todo' \in Lines /\ UNCHANGED <<fresh, due, piped, input>>

(* A command runs; its output goes to the next one, to a later line, or to *)
(* the user.                                                               *)
Command ==
  /\ todo # <<>> /\ Head(todo).known
  /\ LET c == Head(todo)
         waiting(m) == IF ~fresh THEN due[m] ELSE IF m = MaxCount THEN <<>> ELSE due[m + 1]
     IN /\ input' = IF fresh THEN due[1] ELSE piped
        /\ piped' = IF c.next THEN <<c.text>> ELSE <<>>
        /\ due' = [m \in Numbers |->
                     IF m \in {c.out, c.err} THEN Append(waiting(m), c.text) ELSE waiting(m)]
  /\ todo' = Tail(todo) /\ fresh' = (todo' = <<>>)

(* An unknown command ends its line. *)
Unknown ==
  /\ todo # <<>> /\ ~Head(todo).known
  /\ todo' = <<>> /\ fresh' = TRUE /\ piped' = <<>>
  /\ UNCHANGED <<due, input>>

DueNext == Type \/ Command \/ Unknown

DueSpec == DueInit /\ [][DueNext]_dueVars
=============================================================================
