------------------------------ MODULE ConnLock ------------------------------
(***************************************************************************)
(* The connection lock of the multi-process server (v2/lock.hpp): one      *)
(* System V semaphore taken with SEM_UNDO, wrapped so that SIGUSR1         *)
(* (L_SIGMSG) is blocked while the lock is held, and the signal handler    *)
(* that takes the same lock to drain the message queue.                    *)
(*                                                                         *)
(* A process is one session: the child that server.cpp forks for a client. *)
(* Its main program and its signal handler are two contexts of the same    *)
(* process; the main program is suspended while the handler runs.  What    *)
(* the body of a critical section does to the shared data is left to the   *)
(* modules that extend this one; here a body only sends signals.           *)
(***************************************************************************)
EXTENDS Integers

CONSTANT Procs                \* the processes the master may fork

VARIABLES
  sem,        \* value of member [0] of the semaphore set sem_conn
  adj,        \* adj[p]: the kernel's undo entry of p for that member
  removed,    \* the master has removed the semaphore set (clean_up)
  failed,     \* history: some semop() has failed; the code goes on regardless
  pc,         \* pc[p]: where the main program of p is
  hpc,        \* hpc[p]: where the SIGUSR1 handler of p is
  blocked,    \* blocked[p]: SIGUSR1 is in the signal mask of p
  pending,    \* pending[p]: SIGUSR1 is pending for p
  allow       \* allow[p]: the static allow_msg of p

lockVars == <<sem, adj, removed, failed, pc, hpc, blocked, pending, allow>>

-----------------------------------------------------------------------------
(* pc: "none"   not forked yet         "run"    in its own code            *)
(*     "wait"   calls sem_wait         "sleep"  asleep inside semop        *)
(*     "locked" back from sem_wait, SIGUSR1 not blocked yet                *)
(*     "cs"     inside the body        "done"   body done, sem_signal next *)
(*     "after"  sem_signal done, the mask not restored yet      "dead"     *)
PCs  == {"none", "run", "wait", "sleep", "locked", "cs", "done", "after", "dead"}

(* hpc: "none" no handler is running; the rest as above.  There is no      *)
(* "locked": SIGUSR1 is blocked from the moment the handler starts.        *)
HPCs == {"none", "wait", "cs", "done", "after"}

Alive(p) == pc[p] \notin {"none", "dead"}

(* The main program of p executes its next instruction: no handler is on   *)
(* top of it, and no deliverable signal is pending (the kernel delivers    *)
(* one before it returns to user code).                                    *)
Proceeds(p) == hpc[p] = "none" /\ ~(pending[p] /\ ~blocked[p])

(* The two critical sections of p: main program and handler. *)
MainIn(p)    == pc[p] \in {"locked", "cs", "done"}
HandlerIn(p) == hpc[p] \in {"cs", "done"}

LockInit ==
  /\ sem = 1
  /\ adj = [p \in Procs |-> 0]
  /\ removed = FALSE
  /\ failed = FALSE
  /\ pc = [p \in Procs |-> "none"]
  /\ hpc = [p \in Procs |-> "none"]
  /\ blocked = [p \in Procs |-> FALSE]
  /\ pending = [p \in Procs |-> FALSE]
  /\ allow = [p \in Procs |-> FALSE]

-----------------------------------------------------------------------------
(* semop() on member [0] with SEM_UNDO.                                    *)

Down(p) == /\ ~removed
           /\ sem > 0
           /\ sem' = sem - 1
           /\ adj' = [adj EXCEPT ![p] = @ + 1]
           /\ UNCHANGED failed

(* sem_signal never sleeps, but it fails once the set is gone. *)
Up(p) == IF removed
         THEN failed' = TRUE /\ UNCHANGED <<sem, adj>>
         ELSE /\ sem' = sem + 1
              /\ adj' = [adj EXCEPT ![p] = @ - 1]
              /\ UNCHANGED failed

(* A semop() that fails with EINTR, EIDRM or EINVAL: sem_op prints         *)
(* "sem_op error" through err_sys and returns as if it had succeeded.      *)
Ignored == failed' = TRUE /\ UNCHANGED <<sem, adj>>

(* The kernel applies the undo entry of an exiting process; a value that   *)
(* would become negative becomes 0.                                        *)
Undone(p) == IF sem + adj[p] < 0 THEN 0 ELSE sem + adj[p]

-----------------------------------------------------------------------------
(* The main program.                                                       *)

(* fork() in server.cpp; the child inherits an unblocked SIGUSR1 and       *)
(* allow_msg = false from the master.                                      *)
Fork(p) ==
  /\ pc[p] = "none" /\ ~removed
  /\ pc' = [pc EXCEPT ![p] = "run"]
  /\ UNCHANGED <<sem, adj, removed, failed, hpc, blocked, pending, allow>>

LockCall(p) ==
  /\ pc[p] = "run" /\ Proceeds(p)
  /\ pc' = [pc EXCEPT ![p] = "wait"]
  /\ UNCHANGED <<sem, adj, removed, failed, hpc, blocked, pending, allow>>

SemTake(p) ==
  /\ pc[p] \in {"wait", "sleep"} /\ hpc[p] = "none"
  /\ Down(p)
  /\ pc' = [pc EXCEPT ![p] = "locked"]
  /\ UNCHANGED <<removed, hpc, blocked, pending, allow>>

SemSleep(p) ==
  /\ pc[p] = "wait" /\ hpc[p] = "none"
  /\ ~removed /\ sem = 0
  /\ pc' = [pc EXCEPT ![p] = "sleep"]
  /\ UNCHANGED <<sem, adj, removed, failed, hpc, blocked, pending, allow>>

(* EINTR: the handler runs, and semop() is not restarted after it. *)
SemInterrupted(p) ==
  /\ pc[p] = "sleep" /\ pending[p] /\ ~blocked[p]
  /\ Ignored
  /\ pc' = [pc EXCEPT ![p] = "locked"]
  /\ hpc' = [hpc EXCEPT ![p] = "wait"]
  /\ blocked' = [blocked EXCEPT ![p] = TRUE]
  /\ pending' = [pending EXCEPT ![p] = FALSE]
  /\ UNCHANGED <<removed, allow>>

SemGone(p) ==
  /\ pc[p] \in {"wait", "sleep"} /\ hpc[p] = "none"
  /\ removed
  /\ Ignored
  /\ pc' = [pc EXCEPT ![p] = "locked"]
  /\ UNCHANGED <<removed, hpc, blocked, pending, allow>>

(* Seeded fault: conn_lock forgets to block the signal. *)
BugMaskSignal(p) ==
  /\ pc[p] = "locked" /\ Proceeds(p)
  /\ pc' = [pc EXCEPT ![p] = "cs"]
  /\ UNCHANGED <<sem, adj, removed, failed, hpc, blocked, pending, allow>>

MaskSignal(p) ==
  /\ pc[p] = "locked" /\ Proceeds(p)
  /\ pc' = [pc EXCEPT ![p] = "cs"]
  /\ blocked' = [blocked EXCEPT ![p] = TRUE]
  /\ UNCHANGED <<sem, adj, removed, failed, hpc, pending, allow>>

(* kill(pid,L_SIGMSG) for every process of the set. *)
Signalled(targets) ==
  pending' = [q \in Procs |-> pending[q] \/ (q \in targets /\ Alive(q))]

Body(p, targets) ==
  /\ pc[p] = "cs" /\ Proceeds(p)
  /\ pc' = [pc EXCEPT ![p] = "done"]
  /\ Signalled(targets)
  /\ UNCHANGED <<sem, adj, removed, failed, hpc, blocked, allow>>

(* Seeded fault: conn_unlock only restores the mask. *)
BugSemSignal(p) ==
  /\ pc[p] = "done" /\ Proceeds(p)
  /\ pc' = [pc EXCEPT ![p] = "after"]
  /\ UNCHANGED <<sem, adj, removed, failed, hpc, blocked, pending, allow>>

SemSignal(p) ==
  /\ pc[p] = "done" /\ Proceeds(p)
  /\ Up(p)
  /\ pc' = [pc EXCEPT ![p] = "after"]
  /\ UNCHANGED <<removed, hpc, blocked, pending, allow>>

UnmaskSignal(p) ==
  /\ pc[p] = "after" /\ Proceeds(p)
  /\ pc' = [pc EXCEPT ![p] = "run"]
  /\ blocked' = [blocked EXCEPT ![p] = @ /\ ~allow[p]]
  /\ UNCHANGED <<sem, adj, removed, failed, hpc, pending, allow>>

UnblockSigMsg(p) ==
  /\ pc[p] = "run" /\ ~allow[p] /\ Proceeds(p)
  /\ allow' = [allow EXCEPT ![p] = TRUE]
  /\ blocked' = [blocked EXCEPT ![p] = FALSE]
  /\ UNCHANGED <<sem, adj, removed, failed, pc, hpc, pending>>

-----------------------------------------------------------------------------
(* signal_msg_handler: conn_lock, print and clear the queue, conn_unlock.  *)
(* The kernel blocks SIGUSR1 while it runs and restores the mask of the    *)
(* interrupted code, which was unblocked, when it returns.                 *)

HandlerStart(p) ==
  /\ pc[p] \in {"run", "wait", "locked"} /\ hpc[p] = "none"
  /\ pending[p] /\ ~blocked[p]
  /\ hpc' = [hpc EXCEPT ![p] = "wait"]
  /\ blocked' = [blocked EXCEPT ![p] = TRUE]
  /\ pending' = [pending EXCEPT ![p] = FALSE]
  /\ UNCHANGED <<sem, adj, removed, failed, pc, allow>>

(* Seeded fault: the handler drains the queue without waiting. *)
BugHandlerTake(p) ==
  /\ hpc[p] = "wait"
  /\ hpc' = [hpc EXCEPT ![p] = "cs"]
  /\ UNCHANGED <<sem, adj, removed, failed, pc, blocked, pending, allow>>

HandlerTake(p) ==
  /\ hpc[p] = "wait"
  /\ Down(p)
  /\ hpc' = [hpc EXCEPT ![p] = "cs"]
  /\ UNCHANGED <<removed, pc, blocked, pending, allow>>

HandlerGone(p) ==
  /\ hpc[p] = "wait" /\ removed
  /\ Ignored
  /\ hpc' = [hpc EXCEPT ![p] = "cs"]
  /\ UNCHANGED <<removed, pc, blocked, pending, allow>>

HandlerBody(p) ==
  /\ hpc[p] = "cs"
  /\ hpc' = [hpc EXCEPT ![p] = "done"]
  /\ UNCHANGED <<sem, adj, removed, failed, pc, blocked, pending, allow>>

HandlerSignal(p) ==
  /\ hpc[p] = "done"
  /\ Up(p)
  /\ hpc' = [hpc EXCEPT ![p] = "after"]
  /\ UNCHANGED <<removed, pc, blocked, pending, allow>>

(* Seeded fault: a signal that came while the handler ran is forgotten. *)
BugHandlerReturn(p) ==
  /\ hpc[p] = "after"
  /\ hpc' = [hpc EXCEPT ![p] = "none"]
  /\ blocked' = [blocked EXCEPT ![p] = FALSE]
  /\ pending' = [pending EXCEPT ![p] = FALSE]
  /\ UNCHANGED <<sem, adj, removed, failed, pc, allow>>

HandlerReturn(p) ==
  /\ hpc[p] = "after"
  /\ hpc' = [hpc EXCEPT ![p] = "none"]
  /\ blocked' = [blocked EXCEPT ![p] = FALSE]
  /\ UNCHANGED <<sem, adj, removed, failed, pc, pending, allow>>

-----------------------------------------------------------------------------
(* Seeded fault: the operations lack SEM_UNDO. *)
BugDie(p) ==
  /\ Alive(p)
  /\ pc' = [pc EXCEPT ![p] = "dead"]
  /\ hpc' = [hpc EXCEPT ![p] = "none"]
  /\ pending' = [pending EXCEPT ![p] = FALSE]
  /\ adj' = [adj EXCEPT ![p] = 0]
  /\ UNCHANGED <<sem, removed, failed, blocked, allow>>

(* The process ends, at any point: exit(), or a signal with the default    *)
(* disposition (SIGPIPE when it prints to a closed socket, SIGINT, ...).   *)
Die(p) ==
  /\ Alive(p)
  /\ pc' = [pc EXCEPT ![p] = "dead"]
  /\ hpc' = [hpc EXCEPT ![p] = "none"]
  /\ pending' = [pending EXCEPT ![p] = FALSE]
  /\ adj' = [adj EXCEPT ![p] = 0]
  /\ sem' = IF removed THEN sem ELSE Undone(p)
  /\ UNCHANGED <<removed, failed, blocked, allow>>

(* clean_up() in the master (SIGINT, or a failed fork) removes the         *)
(* semaphore set: the master is the only process its counter knows of.     *)
MasterExit ==
  /\ ~removed
  /\ removed' = TRUE
  /\ UNCHANGED <<sem, adj, failed, pc, hpc, blocked, pending, allow>>

MainStep(p) ==
  \/ LockCall(p) \/ SemTake(p) \/ SemSleep(p) \/ SemInterrupted(p) \/ SemGone(p)
  \/ MaskSignal(p) \/ SemSignal(p) \/ UnmaskSignal(p) \/ UnblockSigMsg(p)
  \/ \E targets \in SUBSET Procs : Body(p, targets)

HandlerStep(p) ==
  \/ HandlerStart(p) \/ HandlerTake(p) \/ HandlerGone(p)
  \/ HandlerBody(p) \/ HandlerSignal(p) \/ HandlerReturn(p)

LockNext == \/ \E p \in Procs : Fork(p) \/ MainStep(p) \/ HandlerStep(p) \/ Die(p)
            \/ MasterExit

LockSpec == LockInit /\ [][LockNext]_lockVars

-----------------------------------------------------------------------------
(* Types of the variables of lock.hpp and of the kernel objects behind it. *)
LockTypeOK ==
  /\ sem \in Nat
  /\ adj \in [Procs -> Int]
  /\ removed \in BOOLEAN
  /\ failed \in BOOLEAN
  /\ pc \in [Procs -> PCs]
  /\ hpc \in [Procs -> HPCs]
  /\ blocked \in [Procs -> BOOLEAN]
  /\ pending \in [Procs -> BOOLEAN]
  /\ allow \in [Procs -> BOOLEAN]

(* No two critical sections, main programs and handlers of all processes   *)
(* taken together, overlap.  conn_lock/conn_unlock are to guarantee this.  *)
MutualExclusion ==
  /\ \A p, q \in Procs : MainIn(p) /\ MainIn(q) => p = q
  /\ \A p, q \in Procs : HandlerIn(p) /\ HandlerIn(q) => p = q
  /\ \A p, q \in Procs : ~(MainIn(p) /\ HandlerIn(q))

(* The lock excludes as long as no semop() has failed: a failure that      *)
(* sem_op ignores is the only way two critical sections can overlap,       *)
(* whatever the signals, the deaths and the order of the steps.            *)
ExclusionUnlessFailed == ~failed => MutualExclusion

(* SEM_UNDO: as long as no semop() has failed, a lock nobody is inside is  *)
(* free, also after processes died while holding it.                       *)
LockNeverLost ==
  ~failed /\ ~removed /\ (\A p \in Procs : ~MainIn(p) /\ ~HandlerIn(p)) => sem = 1

(* Once conn_lock has blocked SIGUSR1, no handler runs on top of the body, *)
(* until conn_unlock has released the lock -- failed semop()s included.    *)
BodyUninterrupted ==
  \A p \in Procs : pc[p] \in {"cs", "done", "after"} => blocked[p] /\ hpc[p] = "none"

(* conn_lock is to block the signal while the lock is held: the handler,   *)
(* which takes the lock itself, never starts in a process that holds it.   *)
HandlerNeverUnderLock ==
  ~failed => \A p \in Procs : hpc[p] = "wait" => adj[p] <= 0
=============================================================================
