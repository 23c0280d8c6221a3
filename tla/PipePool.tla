------------------------------ MODULE PipePool ------------------------------
(***************************************************************************)
(* The numbered pipes of one session: the deque pipe_pool, the UnixPipe    *)
(* objects of run_shell (v2/pipe.hpp, v2/shell.hpp) and the table of file  *)
(* descriptors they name by number.  A UnixPipe is a pair of numbers that  *)
(* is copied freely; nothing ties two copies, or a copy and the table.     *)
(*                                                                         *)
(* The shell is sequential: it waits for every child (its error pipe, then *)
(* waitpid) before it goes on.  A command writes one chunk, first to its   *)
(* output, then to its error output, and a pipe has room for all of it.    *)
(* The first command reads the numbered pipe due for the line; one with a  *)
(* "<i", for which the shell throws that pipe away, is left out.           *)
(***************************************************************************)
EXTENDS Integers, Sequences, FiniteSets

CONSTANTS
  MaxFd,      \* bound: the largest file descriptor
  MaxCount,   \* the largest number of a numbered pipe
  MaxChunks,  \* bound: chunks in a pipe
  Texts,      \* outputs of commands
  Lines       \* the lines users type: sequences of Stage

Fds == 3 .. MaxFd
Closed == -1

(* A command of a line: does it exist, what it prints, "| " after it, "|n" *)
(* and "!n" after it (Closed for none).                                    *)
Stage == [known : BOOLEAN, text : Texts, next : BOOLEAN,
          out : Closed .. MaxCount, err : Closed .. MaxCount]

ASSUME PoolAssumption ==
  /\ MaxFd \in Nat /\ MaxCount \in Nat \ {0} /\ MaxChunks \in Nat
  /\ \A l \in Lines : l \in Seq(Stage) /\ l # <<>>

VARIABLES
  pc,         \* "prompt", "cut" (at the loop's head), "made", "forking"
  line,       \* the commands of cut_string
  fds,        \* fds[n]: the pipe end behind descriptor n, Free when it is not open
  data,       \* data[i]: the chunks in pipe i
  pool,       \* pipe_pool; pipe_pool[n] is pool[n + 1]
  first,      \* the local variables of the loop
  next_pipe, last_pipe, error_pipe,
  stdout_pipe, stdout_count, stderr_pipe, stderr_count,
  input       \* history: what the last command run has read

localVars == <<next_pipe, last_pipe, error_pipe,
               stdout_pipe, stdout_count, stderr_pipe, stderr_count>>
poolVars == <<pc, line, fds, data, pool, first, localVars, input>>

Pipes == 1 .. MaxFd
Free == [pipe |-> 0, end |-> "none"]
Ends == [pipe : Pipes, end : {"r", "w"}] \cup {Free}

UnixPipe == [r : Fds \cup {Closed}, w : Fds \cup {Closed}]
NoPipe == [r |-> Closed, w |-> Closed]
IsAlive(p) == p.r # Closed \/ p.w # Closed
FdsOf(p) == {p.r, p.w} \ {Closed}

PoolInit ==
  /\ pc = "prompt" /\ line = <<>>
  /\ fds = [n \in Fds |-> Free] /\ data = [i \in Pipes |-> <<>>]
  /\ pool = <<NoPipe>>
  /\ first = TRUE
  /\ next_pipe = NoPipe /\ last_pipe = NoPipe /\ error_pipe = NoPipe
  /\ stdout_pipe = NoPipe /\ stdout_count = Closed
  /\ stderr_pipe = NoPipe /\ stderr_count = Closed
  /\ input = <<>>

-----------------------------------------------------------------------------
(* The descriptor table.                                                   *)

Least(S) == CHOOSE n \in S : \A m \in S : n <= m

FreeFds(t) == {n \in DOMAIN t : t[n] = Free}

(* close() of every number in S; of one that is not open it does nothing.  *)
CloseAll(t, S) == [n \in DOMAIN t |-> IF n \in S THEN Free ELSE t[n]]

(* What a number refers to; dup2 of a closed one leaves its target closed. *)
Behind(t, n) == IF n = Closed THEN Free ELSE t[n]

(* pipe(): the two lowest free numbers. *)
Made(t) ==
  LET r == Least(FreeFds(t))
      w == Least(FreeFds(t) \ {r})
      i == Least({p \in Pipes : \A n \in DOMAIN t : t[n].pipe # p})
  IN [fds |-> [t EXCEPT ![r] = [pipe |-> i, end |-> "r"], ![w] = [pipe |-> i, end |-> "w"]],
      pipe |-> [r |-> r, w |-> w]]

(* The chunks of a pipe go with its last descriptor. *)
Kept(d, t) == [i \in Pipes |-> IF \E n \in Fds : t[n].pipe = i THEN d[i] ELSE <<>>]

-----------------------------------------------------------------------------
(* pipe_pool.                                                              *)

InPool(n) == n < Len(pool)

(* Seeded fault: an existing pipe is never shared. *)
BugCreateNumberedPipe(t, n) == IF n = Closed THEN [fds |-> t, pipe |-> NoPipe] ELSE Made(t)

(* create_numbered_pipe; the caller keeps a copy.                          *)
CreateNumberedPipe(t, n) ==
  IF n = Closed \/ (InPool(n) /\ IsAlive(pool[n + 1]))
  THEN [fds |-> t, pipe |-> IF n = Closed THEN NoPipe ELSE pool[n + 1]]
  ELSE Made(t)

(* record_pipe_info *)
RecordPipeInfo(pl, n, p) ==
  IF n = Closed THEN pl
  ELSE IF n >= Len(pl) THEN pl \o [k \in 1 .. n - Len(pl) |-> NoPipe] \o <<p>>
  ELSE [pl EXCEPT ![n + 1] = IF IsAlive(@) THEN @ ELSE p]

Front(pl) == IF pl = <<>> THEN NoPipe ELSE pl[1]

(* pop_front, then close_write of the new front. *)
Shifted(pl) ==
  IF Len(pl) < 2 THEN <<>> ELSE [Tail(pl) EXCEPT ![1].w = Closed]

(* Seeded fault: the shell keeps the writing end open. *)
BugShiftCloses(pl) == {}

ShiftCloses(pl) == IF Len(pl) < 2 THEN {} ELSE {pl[2].w}

(* Seeded fault: the descriptors are closed, the entry is not updated. *)
BugFrontClosed(pl) == pl

(* close() of the front. *)
FrontClosed(pl) == IF pl = <<>> THEN <<>> ELSE [pl EXCEPT ![1] = NoPipe]

-----------------------------------------------------------------------------
(* One round of the loop over the commands of a line.                      *)

RoomFor(n) == Cardinality(FreeFds(fds)) >= 2 * n

ReadLine ==
  /\ pc = "prompt" /\ pc' = "cut"
  /\ line' \in Lines
  /\ UNCHANGED <<fds, data, pool, first, localVars, input>>

(* The line is used up, or broken off: the local variables go, and close   *)
(* nothing.                                                                *)
EndLine ==
  /\ pc = "cut" /\ line = <<>> /\ pc' = "prompt"
  /\ first' = TRUE
  /\ next_pipe' = NoPipe /\ last_pipe' = NoPipe /\ error_pipe' = NoPipe
  /\ stdout_pipe' = NoPipe /\ stdout_count' = Closed
  /\ stderr_pipe' = NoPipe /\ stderr_count' = Closed
  /\ UNCHANGED <<line, fds, data, pool, input>>

(* A new error_pipe; the first command of a line shifts the pool.          *)
Cut ==
  /\ pc = "cut" /\ line # <<>> /\ RoomFor(1)
  /\ pc' = "made"
  /\ error_pipe' = Made(fds).pipe
  /\ LET t == Made(fds).fds
     IN \/ /\ first
           /\ fds' = CloseAll(t, ShiftCloses(pool))
           /\ pool' = Shifted(pool)
        \/ /\ ~first /\ fds' = t /\ UNCHANGED pool
  /\ data' = Kept(data, fds')
  /\ UNCHANGED <<line, first, next_pipe, last_pipe, input>>
  /\ UNCHANGED <<stdout_pipe, stdout_count, stderr_pipe, stderr_count>>

(* "| " makes next_pipe; "|n" and "!n" find or make numbered pipes.  The   *)
(* variables keep their values of earlier commands otherwise.              *)
MakePipes ==
  /\ pc = "made" /\ pc' = "forking" /\ RoomFor(2)
  /\ LET s == Head(line)
         o == CreateNumberedPipe(fds, s.out)
         e == CreateNumberedPipe(o.fds, s.err)
     IN \/ /\ s.next
           /\ next_pipe' = Made(fds).pipe /\ fds' = Made(fds).fds
           /\ UNCHANGED <<stdout_pipe, stdout_count, stderr_pipe, stderr_count>>
        \/ /\ ~s.next
           /\ stdout_pipe' = IF s.out = Closed THEN stdout_pipe ELSE o.pipe
           /\ stdout_count' = IF s.out = Closed THEN stdout_count ELSE s.out
           /\ stderr_pipe' = IF s.err = Closed THEN stderr_pipe ELSE e.pipe
           /\ stderr_count' = IF s.err = Closed THEN stderr_count ELSE s.err
           /\ fds' = e.fds
           /\ UNCHANGED next_pipe
  /\ UNCHANGED <<line, data, pool, first, last_pipe, error_pipe, input>>

-----------------------------------------------------------------------------
(* The child, up to exec: the pipe ends it gets as stdin, stdout, stderr,  *)
(* Free standing for the socket too, and the table it has besides.         *)

ChildFds == CloseAll(fds, {last_pipe.w, error_pipe.r})

Stdout == Behind(ChildFds, IF Head(line).next THEN next_pipe.w ELSE stdout_pipe.w)
Stderr == Behind(ChildFds, stderr_pipe.w)

(* pipe_pool[0] of an empty pool is undefined: no pipe is found there.     *)
Stdin ==
  IF first THEN Behind(CloseAll(ChildFds, {Front(pool).w}), Front(pool).r)
           ELSE Behind(ChildFds, last_pipe.r)

(* close_pipe_larger_than(1), or (0) after the first command.              *)
ExecFds ==
  CloseAll(ChildFds,
           (IF first THEN {Front(pool).w} ELSE {})
             \cup UNION {FdsOf(pool[n]) : n \in (IF first THEN 3 ELSE 2) .. Len(pool)})

Into(end) == IF end.end = "w" THEN {end.pipe} ELSE {}

(* The pipes the child writes its chunk to. *)
Written == Into(Stdout) \cup Into(Stderr)

(* Seeded fault: the shell closes one end of last_pipe only. *)
BugWaitFds == CloseAll(fds, {last_pipe.w, error_pipe.w})

(* The table of the shell while it reads error_pipe.                       *)
WaitFds == CloseAll(fds, FdsOf(last_pipe) \cup {error_pipe.w})

ErrorEnd == Behind(WaitFds, error_pipe.r)

(* Something arrives on error_pipe: the message of exit_error, or output.  *)
Reported ==
  /\ ErrorEnd.end = "r"
  /\ \/ ~Head(line).known /\ ErrorEnd.pipe \in Into(Behind(ExecFds, error_pipe.w))
     \/ Head(line).known /\ ErrorEnd.pipe \in Written

HasWriter(t, p) == \E n \in DOMAIN t : t[n] = [pipe |-> p, end |-> "w"]

(* Somebody who waits for the end of a pipe keeps a writing end of it: the *)
(* command on its input, or the shell on error_pipe.                       *)
NeverEnds ==
  \/ /\ Head(line).known /\ Stdin.end = "r"
     /\ \/ HasWriter(ExecFds, Stdin.pipe) \/ HasWriter(WaitFds, Stdin.pipe)
        \/ Stdin.pipe \in Written
  \/ ErrorEnd.end = "r" /\ ~Reported /\ HasWriter(WaitFds, ErrorEnd.pipe)

Output(p) ==
  (IF Stdout.end = "w" /\ Stdout.pipe = p THEN <<Head(line).text>> ELSE <<>>)
    \o (IF Stderr.end = "w" /\ Stderr.pipe = p THEN <<Head(line).text>> ELSE <<>>)

DataAfter ==
  IF ~Head(line).known THEN data
  ELSE [p \in Pipes |->
          (IF Stdin.end = "r" /\ Stdin.pipe = p THEN <<>> ELSE data[p]) \o Output(p)]

Ran ==
  /\ pc = "forking" /\ ~NeverEnds
  /\ \A p \in Pipes : Len(DataAfter[p]) <= MaxChunks
  /\ input' = IF ~Head(line).known THEN input
              ELSE IF Stdin.end = "r" THEN data[Stdin.pipe] ELSE <<>>
  /\ last_pipe' = IF Head(line).next THEN next_pipe ELSE NoPipe

(* No message: the front of the pool is used up, new pipes are recorded.   *)
Succeed ==
  /\ Ran /\ ~Reported
  /\ LET front == IF first THEN FdsOf(Front(pool)) ELSE {}
         p1 == IF first THEN FrontClosed(pool) ELSE pool
     IN /\ fds' = CloseAll(WaitFds, front \cup {error_pipe.r})
        /\ pool' = RecordPipeInfo(RecordPipeInfo(p1, stdout_count, stdout_pipe),
                                  stderr_count, stderr_pipe)
  /\ data' = Kept(DataAfter, fds')
  /\ first' = FALSE
  /\ line' = Tail(line) /\ pc' = "cut"
  /\ UNCHANGED <<next_pipe, error_pipe, stdout_pipe, stdout_count, stderr_pipe, stderr_count>>

(* A message: "restore pipe", close stdout_pipe, leave the loop.           *)
Fail ==
  /\ Ran /\ Reported
  /\ fds' = CloseAll(WaitFds, {error_pipe.r} \cup FdsOf(stdout_pipe))
  /\ data' = Kept(DataAfter, fds')
  /\ pool' = IF first THEN <<NoPipe>> \o pool ELSE pool
  /\ line' = <<>> /\ pc' = "cut"
  /\ UNCHANGED <<first, next_pipe, error_pipe>>
  /\ UNCHANGED <<stdout_pipe, stdout_count, stderr_pipe, stderr_count>>

PoolNext == ReadLine \/ EndLine \/ Cut \/ MakePipes \/ Succeed \/ Fail

PoolSpec == PoolInit /\ [][PoolNext]_poolVars

-----------------------------------------------------------------------------
(* "check of that pipe is alive": the numbers kept in the pool are those   *)
(* of open descriptors, the two of an entry belong to one pipe, and no two *)
(* entries name the same.                                                  *)
PoolOpen ==
  \A n \in 1 .. Len(pool) :
    LET r == Behind(fds, pool[n].r)
        w == Behind(fds, pool[n].w)
    IN /\ pool[n].r # Closed => r.end = "r"
       /\ pool[n].w # Closed => w.end = "w" /\ w.pipe = r.pipe
       /\ \A m \in 1 .. Len(pool) : FdsOf(pool[n]) \cap FdsOf(pool[m]) # {} => n = m

(* At the prompt the shell has nothing open but what the pool still needs. *)
NoFdLeak ==
  pc = "prompt" =>
    {n \in Fds : fds[n] # Free} = UNION {FdsOf(pool[n]) : n \in 1 .. Len(pool)}

(* No command, and not the shell, waits for the end of a pipe that the     *)
(* waiting processes themselves keep open: the session would stop there.   *)
NoHang == ~(pc = "forking" /\ NeverEnds)

(* What the promise of NumberedPipes is about: the pool holds what later   *)
(* lines read; while the first command of a line is under way the pool has *)
(* been shifted already.                                                   *)
Content(p) == IF Behind(fds, p.r).end = "r" THEN data[fds[p.r].pipe] ELSE <<>>

Shift == IF first /\ pc \in {"made", "forking"} THEN 0 ELSE 1

Delivery == INSTANCE NumberedPipes WITH
  todo <- line,
  fresh <- first \/ line = <<>>,
  due <- [n \in 1 .. MaxCount |->
            IF n + Shift <= Len(pool) THEN Content(pool[n + Shift]) ELSE <<>>],
  piped <- Content(last_pipe)

(* Every line gets what was sent to it, whole and in order, and nothing    *)
(* else, as long as unknown commands come at the end of a line and name no *)
(* number: the pool implements NumberedPipes.                              *)
Delivers == Delivery!DueSpec
=============================================================================
