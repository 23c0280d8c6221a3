------------------------------ MODULE SysvSem ------------------------------
(***************************************************************************)
(* The life of a System V semaphore set as v2/semaphore.hpp manages it.    *)
(* Members: [0] the semaphore proper, [1] a counter of processes that      *)
(* starts at BIGCOUNT and goes down, [2] a lock around creating and        *)
(* closing.  Every operation is undone when its process exits, and the     *)
(* last process to close removes the set.                                  *)
(*                                                                         *)
(* There is at most one set behind the key; an id names one set for ever.  *)
(***************************************************************************)
EXTENDS Integers, FiniteSets

CONSTANTS
  Procs,      \* processes that may use the key
  BigCount,   \* BIGCOUNT
  MaxSets,    \* bound: the sets ever created
  Openers,    \* those that may call sem_open
  Children    \* those that may be forked by a process that has the set open

ASSUME SemAssumption ==
  /\ BigCount \in Nat \ {0} /\ MaxSets \in Nat \ {0}
  /\ Openers \subseteq Procs /\ Children \subseteq Procs

VARIABLES
  key,        \* the id behind the key, 0 for none
  lastId,     \* the last id given out
  val,        \* val[m]: member m of the set behind the key
  adj,        \* adj[p][m]: what the exit of p adds to val[m]
  pc,         \* pc[p]: the next system call of p
  id,         \* id[p]: the id p got from semget, 0 for none
  strays      \* history: the sets some process got by sem_open or fork()

semVars == <<key, lastId, val, adj, pc, id, strays>>

Members == {0, 1, 2}

(* "out"  the set not open        "get"   semget of sem_create             *)
(* "lock" semop(op_lock)          "sleep" asleep in it                     *)
(* "check" GETVAL [1]             "set0", "set1" SETVAL                    *)
(* "end"  semop(op_endcreate)     "open"  semop(op_open)                   *)
(* "in"   the set open            "cs"    between sem_wait and sem_signal  *)
(* "close" semop(op_close)        "count" GETVAL [1] of sem_close          *)
(* "rm"   sem_rm                  "unlock" semop(op_unlock)                *)
PCs == {"out", "get", "lock", "sleep", "check", "set0", "set1", "end", "open",
        "in", "cs", "close", "count", "rm", "unlock"}

Zeros == [m \in Members |-> 0]

SemInit ==
  /\ key = 0 /\ lastId = 0
  /\ val = Zeros
  /\ adj = [p \in Procs |-> Zeros]
  /\ pc = [p \in Procs |-> "out"]
  /\ id = [p \in Procs |-> 0]
  /\ strays = {}

Exists(p) == id[p] = key /\ key # 0

Goto(p, l) == pc' = [pc EXCEPT ![p] = l]

(* One semop() with SEM_UNDO on every member: ops[m] is added to member m, *)
(* all or nothing; it sleeps while a member would become negative.         *)
Change(p, ops) ==
  /\ Exists(p)
  /\ \A m \in Members : val[m] + ops[m] >= 0
  /\ val' = [m \in Members |-> val[m] + ops[m]]
  /\ adj' = [adj EXCEPT ![p] = [m \in Members |-> @[m] - ops[m]]]
  /\ UNCHANGED <<key, lastId, id, strays>>

Ops(a, b, c) == [m \in Members |-> CASE m = 0 -> a [] m = 1 -> b [] m = 2 -> c]

(* A call on a removed set fails, err_sys prints, the code goes on. *)
Fails(p) ==
  /\ ~Exists(p)
  /\ UNCHANGED <<key, lastId, val, adj, id, strays>>

(* semctl(SETVAL) also clears the undo entries for the member. *)
SetVal(p, m, v) ==
  /\ Exists(p)
  /\ val' = [val EXCEPT ![m] = v]
  /\ adj' = [q \in Procs |-> [adj[q] EXCEPT ![m] = 0]]
  /\ UNCHANGED <<key, lastId, id, strays>>

-----------------------------------------------------------------------------
(* sem_create *)

CallCreate(p) ==
  /\ pc[p] = "out" /\ Goto(p, "get")
  /\ UNCHANGED <<key, lastId, val, adj, id, strays>>

SemGet(p) ==
  /\ pc[p] = "get" /\ Goto(p, "lock")
  /\ \/ /\ key # 0
        /\ id' = [id EXCEPT ![p] = key]
        /\ UNCHANGED <<key, lastId, val, adj>>
     \/ /\ key = 0 /\ lastId < MaxSets
        /\ lastId' = lastId + 1
        /\ key' = lastId + 1
        /\ id' = [id EXCEPT ![p] = lastId + 1]
        /\ val' = Zeros
        /\ UNCHANGED adj
  /\ UNCHANGED strays

(* Seeded fault: op_lock increments [2] without waiting for 0. *)
BugLockTake(p) ==
  /\ pc[p] \in {"lock", "sleep"} /\ Goto(p, "check")
  /\ Change(p, Ops(0, 0, 1))

(* op_lock: wait for [2] to equal 0, then increment [2]. *)
LockTake(p) ==
  /\ pc[p] \in {"lock", "sleep"} /\ Goto(p, "check")
  /\ val[2] = 0 /\ Change(p, Ops(0, 0, 1))

LockSleep(p) ==
  /\ pc[p] = "lock" /\ Exists(p) /\ val[2] # 0 /\ Goto(p, "sleep")
  /\ UNCHANGED <<key, lastId, val, adj, id, strays>>

(* EINVAL: the set was removed before the call; goto again. *)
LockAgain(p) ==
  /\ pc[p] = "lock" /\ ~Exists(p) /\ Goto(p, "get")
  /\ UNCHANGED <<key, lastId, val, adj, id, strays>>

(* EIDRM: the set was removed during the call, which is not EINVAL. *)
LockLost(p) == pc[p] = "sleep" /\ Fails(p) /\ Goto(p, "check")

(* Seeded fault: every creator initialises the set. *)
BugCheckFresh(p) ==
  /\ pc[p] = "check" /\ Exists(p)
  /\ Goto(p, "set0")
  /\ UNCHANGED <<key, lastId, val, adj, id, strays>>

CheckFresh(p) ==
  /\ pc[p] = "check" /\ Exists(p)
  /\ Goto(p, IF val[1] = 0 THEN "set0" ELSE "end")
  /\ UNCHANGED <<key, lastId, val, adj, id, strays>>

Initialise(p) ==
  \/ pc[p] = "set0" /\ SetVal(p, 0, 1) /\ Goto(p, "set1")
  \/ pc[p] = "set1" /\ SetVal(p, 1, BigCount) /\ Goto(p, "end")

EndCreate(p) == pc[p] = "end" /\ Change(p, Ops(0, -1, -1)) /\ Goto(p, "in")

CreateLost(p) ==
  \/ pc[p] = "check" /\ Fails(p) /\ Goto(p, "end")
  \/ pc[p] = "end" /\ Fails(p) /\ Goto(p, "in")

-----------------------------------------------------------------------------
(* sem_open, sem_close, and the operations on [0] in between.              *)

CallOpen(p) ==
  /\ p \in Openers /\ pc[p] = "out" /\ key # 0
  /\ id' = [id EXCEPT ![p] = key]
  /\ strays' = strays \cup {key}
  /\ Goto(p, "open")
  /\ UNCHANGED <<key, lastId, val, adj>>

OpenTake(p) ==
  pc[p] = "open" /\ (Change(p, Ops(0, -1, 0)) \/ Fails(p)) /\ Goto(p, "in")

SemWait(p) == pc[p] = "in" /\ (Change(p, Ops(-1, 0, 0)) \/ Fails(p)) /\ Goto(p, "cs")

SemSignal(p) == pc[p] = "cs" /\ (Change(p, Ops(1, 0, 0)) \/ Fails(p)) /\ Goto(p, "in")

CallClose(p) ==
  /\ pc[p] = "in" /\ Goto(p, "close")
  /\ UNCHANGED <<key, lastId, val, adj, id, strays>>

(* op_close: wait for [2] to equal 0, increment it, then increment [1]. *)
CloseTake(p) ==
  /\ pc[p] = "close" /\ Goto(p, "count")
  /\ (val[2] = 0 /\ Change(p, Ops(0, 1, 1))) \/ Fails(p)

(* Seeded fault: the closer removes the set whoever still uses it. *)
BugCloseCount(p) ==
  /\ pc[p] = "count"
  /\ Goto(p, "rm")
  /\ UNCHANGED <<key, lastId, val, adj, id, strays>>

CloseCount(p) ==
  /\ pc[p] = "count" /\ ~(Exists(p) /\ val[1] > BigCount)
  /\ Goto(p, IF Exists(p) /\ val[1] = BigCount THEN "rm" ELSE "unlock")
  /\ UNCHANGED <<key, lastId, val, adj, id, strays>>

Left(p) == Goto(p, "out") /\ UNCHANGED <<lastId, strays>>

SemRm(p) ==
  /\ pc[p] = "rm" /\ Exists(p)
  /\ key' = 0 /\ val' = Zeros
  /\ adj' = [q \in Procs |-> Zeros]
  /\ id' = [id EXCEPT ![p] = 0]
  /\ Left(p)

Unlock(p) ==
  /\ pc[p] = "unlock"
  /\ Change(p, Ops(0, 0, -1)) \/ Fails(p)
  /\ Goto(p, "out")

-----------------------------------------------------------------------------
(* Seeded fault: [2] is locked without SEM_UNDO. *)
BugDies(p) ==
  /\ val' = [m \in Members |-> IF m # 2 /\ val[m] + adj[p][m] >= 0
                               THEN val[m] + adj[p][m] ELSE val[m]]
  /\ adj' = [adj EXCEPT ![p] = Zeros]
  /\ id' = [id EXCEPT ![p] = 0]
  /\ UNCHANGED key /\ Left(p)

(* The process ends, wherever it is, also after it has left the set; undo  *)
(* entries that would make a member negative make it 0.                    *)
Dies(p) ==
  /\ val' = [m \in Members |-> IF val[m] + adj[p][m] >= 0 THEN val[m] + adj[p][m] ELSE 0]
  /\ adj' = [adj EXCEPT ![p] = Zeros]
  /\ id' = [id EXCEPT ![p] = 0]
  /\ UNCHANGED key /\ Left(p)

(* A counter above BIGCOUNT is fatal (err_dump). *)
CloseDumps(p) == pc[p] = "count" /\ Exists(p) /\ val[1] > BigCount /\ Dies(p)

(* fork(): the child, a new process, has the id, but no undo entry.        *)
ForkFrom(p, q) ==
  /\ q \in Children /\ pc[p] = "in" /\ pc[q] = "out" /\ id[q] = 0
  /\ Goto(q, "in")
  /\ id' = [id EXCEPT ![q] = id[p]]
  /\ strays' = strays \cup {id[p]}
  /\ UNCHANGED <<key, lastId, val, adj>>

Creates(p) ==
  \/ SemGet(p) \/ LockTake(p) \/ LockSleep(p) \/ LockAgain(p) \/ LockLost(p)
  \/ CheckFresh(p) \/ Initialise(p) \/ EndCreate(p) \/ CreateLost(p)

Closes(p) == CloseTake(p) \/ CloseCount(p) \/ CloseDumps(p) \/ SemRm(p) \/ Unlock(p)

SemNext ==
  \E p \in Procs :
    \/ CallCreate(p) \/ Creates(p) \/ CallOpen(p) \/ OpenTake(p)
    \/ SemWait(p) \/ SemSignal(p) \/ CallClose(p) \/ Closes(p) \/ Dies(p)
    \/ \E q \in Procs : ForkFrom(p, q)

SemSpec == SemInit /\ [][SemNext]_semVars

(* Processes keep running; those asleep on [2] are woken in turn.          *)
SemFairness ==
  \A p \in Procs : /\ WF_semVars(Creates(p) \/ Closes(p))
                   /\ SF_semVars(LockTake(p) \/ CloseTake(p))

FairSemSpec == SemSpec /\ SemFairness

-----------------------------------------------------------------------------
Uses(p) == pc[p] \in {"in", "cs", "close"}

(* Between op_lock (or op_close) and the release of [2]. *)
HoldsLock(p) == Exists(p) /\ pc[p] \in {"check", "set0", "set1", "end", "count", "rm", "unlock"}

(* Creating and closing never overlap, however processes race and die:     *)
(* member [2] is free exactly when no process is in between.               *)
CreationSerial ==
  /\ \A p, q \in Procs : HoldsLock(p) /\ HoldsLock(q) => p = q
  /\ val[2] = IF \E p \in Procs : HoldsLock(p) THEN 1 ELSE 0

Owing(n) == Cardinality({p \in Procs : adj[p][1] = n})

(* Once it is initialised, member [1] is BIGCOUNT less one for each process *)
(* whose exit gives one back; those are the processes that have the set     *)
(* open, forked children aside, which take one back when they close.        *)
CountsUsers ==
  val[1] # 0 =>
    /\ val[1] = BigCount - Owing(1) + Owing(-1)
    /\ \A p \in Procs \ Children : adj[p][1] = IF Exists(p) /\ Uses(p) THEN 1 ELSE 0

(* "if this is the last reference to the semaphore, remove this": a set    *)
(* that processes only got by creating it is removed while none uses it.   *)
RemovedUnused ==
  [][key # 0 /\ key' # key /\ key \notin strays
       => \A p \in Procs : id[p] = key => ~Uses(p)]_semVars

(* No set is removed while a process uses it. *)
NeverRemovedInUse ==
  [][key # 0 /\ key' # key => \A p \in Procs : id[p] = key => ~Uses(p)]_semVars

(* The semaphore a set was created for excludes. *)
UseExclusive ==
  \A p, q \in Procs :
    Exists(p) /\ Exists(q) /\ pc[p] = "cs" /\ pc[q] = "cs" => p = q

(* sem_create returns unless its process ends. *)
CreateReturns ==
  \A p \in Procs : pc[p] = "sleep" ~> pc[p] \in {"in", "out"}
=============================================================================
