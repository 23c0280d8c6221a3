--------------------------- MODULE SysvSemProofs ---------------------------
(***************************************************************************)
(* Proofs about SysvSem, for any set of processes.                         *)
(*                                                                         *)
(* CreationSerial is not inductive: nothing in it says that the undo entry *)
(* of a dead holder gives member [2] back, nor that the id of a removed    *)
(* set never comes back.  SerialInv adds both.  What the other two members *)
(* promise needs the lock and the count together: UseInv.                  *)
(***************************************************************************)
EXTENDS SysvSem, FiniteSetTheorems, TLAPS

Types ==
  /\ key \in Nat /\ lastId \in Nat /\ key <= lastId
  /\ val \in [Members -> Int]
  /\ adj \in [Procs -> [Members -> Int]]
  /\ pc \in [Procs -> PCs]
  /\ id \in [Procs -> Nat]

(* Ids are given out once. *)
IdsOld == \A p \in Procs : id[p] <= lastId

(* The undo entry of p for [2] is what p has added to it. *)
UndoFrees == \A p \in Procs : adj[p][2] = IF HoldsLock(p) THEN -1 ELSE 0

SerialInv == Types /\ IdsOld /\ UndoFrees /\ CreationSerial

-----------------------------------------------------------------------------
LEMMA SerialInvInit == SemInit => SerialInv
BY DEF SemInit, SerialInv, Types, IdsOld, UndoFrees, CreationSerial, HoldsLock, Exists,
       Zeros, Members, PCs

(* A step that leaves [2] and its undo entries alone and moves p between   *)
(* two places of which none, or both, are inside the lock.                 *)
LEMMA OutsideStep ==
  ASSUME SerialInv, NEW p \in Procs,
         UNCHANGED <<key, lastId>>,
         val' \in [Members -> Int], val'[2] = val[2],
         adj' \in [Procs -> [Members -> Int]], \A q \in Procs : adj'[q][2] = adj[q][2],
         pc' \in [Procs -> PCs], id' \in [Procs -> Nat],
         \A q \in Procs : id'[q] <= lastId,
         \A q \in Procs : HoldsLock(q)' <=> HoldsLock(q)
  PROVE  SerialInv'
BY SMT DEF SerialInv, Types, IdsOld, UndoFrees, CreationSerial

(* p takes the lock, with one semop(). *)
LEMMA TakeStep ==
  ASSUME SerialInv, NEW p \in Procs, NEW a \in Int, NEW b \in Int, NEW l \in PCs,
         val[2] = 0, Change(p, Ops(a, b, 1)), Goto(p, l), l \in {"check", "count"}
  PROVE  SerialInv'
<1> USE DEF SerialInv, Types
<1>1. Exists(p) /\ UNCHANGED <<key, lastId, id>>
  BY DEF Change
<1>2. val' \in [Members -> Int] /\ val'[2] = 1
  BY DEF Change, Ops, Members
<1>3. /\ adj' \in [Procs -> [Members -> Int]]
      /\ adj'[p][2] = adj[p][2] - 1
      /\ \A q \in Procs \ {p} : adj'[q] = adj[q]
  BY DEF Change, Ops, Members
<1>4. /\ pc' \in [Procs -> PCs] /\ pc'[p] = l
      /\ \A q \in Procs \ {p} : pc'[q] = pc[q]
  BY DEF Goto
<1>5. \A q \in Procs : ~HoldsLock(q)
  BY DEF CreationSerial
<1>6. HoldsLock(p)' /\ \A q \in Procs \ {p} : ~HoldsLock(q)'
  BY <1>1, <1>4, <1>5 DEF HoldsLock, Exists
<1>7. UndoFrees'
  BY <1>3, <1>5, <1>6 DEF UndoFrees
<1>8. CreationSerial'
  BY <1>2, <1>6 DEF CreationSerial
<1> QED
  BY <1>1, <1>2, <1>3, <1>4, <1>7, <1>8 DEF IdsOld

(* p, inside, gives the lock back. *)
LEMMA ReleaseStep ==
  ASSUME SerialInv, NEW p \in Procs, NEW a \in Int, NEW b \in Int, NEW l \in PCs,
         pc[p] \in {"end", "unlock"},
         Change(p, Ops(a, b, -1)), Goto(p, l), l \in {"in", "out"}
  PROVE  SerialInv'
<1> USE DEF SerialInv, Types
<1>1. Exists(p) /\ UNCHANGED <<key, lastId, id>>
  BY DEF Change
<1>2. val' \in [Members -> Int] /\ val'[2] = val[2] - 1
  BY DEF Change, Ops, Members
<1>3. /\ adj' \in [Procs -> [Members -> Int]]
      /\ adj'[p][2] = adj[p][2] + 1
      /\ \A q \in Procs \ {p} : adj'[q] = adj[q]
  BY DEF Change, Ops, Members
<1>4. /\ pc' \in [Procs -> PCs] /\ pc'[p] = l
      /\ \A q \in Procs \ {p} : pc'[q] = pc[q]
  BY DEF Goto
<1>5. HoldsLock(p) /\ \A q \in Procs \ {p} : ~HoldsLock(q)
  BY <1>1 DEF CreationSerial, HoldsLock
<1>6. \A q \in Procs : ~HoldsLock(q)'
  BY <1>1, <1>4, <1>5 DEF HoldsLock, Exists
<1>7. UndoFrees'
  BY <1>3, <1>5, <1>6 DEF UndoFrees
<1>8. CreationSerial'
  BY <1>2, <1>5, <1>6 DEF CreationSerial
<1> QED
  BY <1>1, <1>2, <1>3, <1>4, <1>7, <1>8 DEF IdsOld

(* The set is gone, or new: nobody is inside. *)
LEMMA NewSetStep ==
  ASSUME SerialInv, Types', IdsOld',
         \A q \in Procs : adj'[q][2] = 0, val'[2] = 0,
         \A q \in Procs : ~HoldsLock(q)'
  PROVE  SerialInv'
BY SMT DEF SerialInv, UndoFrees, CreationSerial

LEMMA DieStep ==
  ASSUME SerialInv, NEW p \in Procs, Dies(p)
  PROVE  SerialInv'
<1> USE DEF SerialInv, Types
<1>1. UNCHANGED <<key, lastId>>
  BY DEF Dies, Left
<1>2. /\ pc' \in [Procs -> PCs] /\ pc'[p] = "out"
      /\ \A q \in Procs \ {p} : pc'[q] = pc[q]
  BY DEF Dies, Left, Goto, PCs
<1>3. id' \in [Procs -> Nat] /\ \A q \in Procs \ {p} : id'[q] = id[q]
  BY DEF Dies
<1>4. /\ adj' \in [Procs -> [Members -> Int]] /\ adj'[p][2] = 0
      /\ \A q \in Procs \ {p} : adj'[q] = adj[q]
  BY DEF Dies, Zeros, Members
<1>5. /\ val' \in [Members -> Int]
      /\ val'[2] = IF val[2] + adj[p][2] >= 0 THEN val[2] + adj[p][2] ELSE 0
  BY DEF Dies, Members
<1>6. ~HoldsLock(p)' /\ \A q \in Procs \ {p} : HoldsLock(q)' <=> HoldsLock(q)
  BY <1>1, <1>2, <1>3 DEF HoldsLock, Exists
<1>7. UndoFrees'
  BY <1>4, <1>6 DEF UndoFrees
<1>8. CASE HoldsLock(p)
  <2>1. val[2] = 1 /\ adj[p][2] = -1 /\ \A q \in Procs \ {p} : ~HoldsLock(q)
    BY <1>8 DEF CreationSerial, UndoFrees
  <2>2. CreationSerial'
    <3>1. val'[2] = 0 /\ \A q \in Procs : ~HoldsLock(q)'
      BY <2>1, <1>5, <1>6
    <3> QED
      BY <3>1 DEF CreationSerial
  <2> QED
    BY <2>2, <1>1, <1>2, <1>3, <1>4, <1>5, <1>7 DEF IdsOld, Dies
<1>9. CASE ~HoldsLock(p)
  <2>1. val'[2] = val[2]
    BY <1>9, <1>5 DEF CreationSerial, UndoFrees
  <2>2. CreationSerial'
    BY <2>1, <1>6, <1>9 DEF CreationSerial
  <2> QED
    BY <2>2, <1>1, <1>2, <1>3, <1>4, <1>5, <1>7 DEF IdsOld, Dies
<1> QED
  BY <1>8, <1>9

(* Where nobody can be inside, all undo entries for [2] are 0. *)
LEMMA NoSet == ASSUME SerialInv, key = 0 PROVE \A q \in Procs : adj[q][2] = 0
BY DEF SerialInv, UndoFrees, HoldsLock, Exists

LEMMA SemGetStep ==
  ASSUME SerialInv, NEW p \in Procs, SemGet(p)
  PROVE  SerialInv'
<1> USE DEF SerialInv, Types
<1>1. /\ pc' \in [Procs -> PCs] /\ pc'[p] = "lock" /\ pc[p] = "get"
      /\ \A q \in Procs \ {p} : pc'[q] = pc[q]
  BY DEF SemGet, Goto, PCs
<1>2. CASE key # 0 /\ id' = [id EXCEPT ![p] = key] /\ UNCHANGED <<key, lastId, val, adj>>
  <2>1. id' \in [Procs -> Nat] /\ \A q \in Procs : id'[q] <= lastId
    BY <1>2 DEF IdsOld
  <2>2. \A q \in Procs : HoldsLock(q)' <=> HoldsLock(q)
    BY <1>1, <1>2 DEF HoldsLock, Exists
  <2> QED
    BY <1>1, <1>2, <2>1, <2>2, OutsideStep
<1>3. CASE /\ key = 0 /\ lastId' = lastId + 1 /\ key' = lastId + 1
           /\ id' = [id EXCEPT ![p] = lastId + 1] /\ val' = Zeros /\ UNCHANGED adj
  <2>1. id' \in [Procs -> Nat] /\ IdsOld'
    BY <1>3 DEF IdsOld
  <2>2. Types'
    BY <1>1, <1>3, <2>1 DEF Zeros, Members
  <2>3. \A q \in Procs : ~HoldsLock(q)'
    BY <1>1, <1>3 DEF HoldsLock, Exists, IdsOld
  <2>4. val'[2] = 0 /\ \A q \in Procs : adj'[q][2] = 0
    BY <1>3, NoSet DEF Zeros, Members
  <2> QED
    BY <2>1, <2>2, <2>3, <2>4, NewSetStep
<1> QED
  BY <1>2, <1>3 DEF SemGet

LEMMA SemRmStep ==
  ASSUME SerialInv, NEW p \in Procs, SemRm(p)
  PROVE  SerialInv'
<1> USE DEF SerialInv, Types
<1>1. pc' \in [Procs -> PCs] /\ id' \in [Procs -> Nat] /\ key' = 0 /\ lastId' = lastId
  BY DEF SemRm, Left, Goto, PCs
<1>2. val' \in [Members -> Int] /\ val'[2] = 0
  BY DEF SemRm, Zeros, Members
<1>3. adj' \in [Procs -> [Members -> Int]] /\ \A q \in Procs : adj'[q][2] = 0
  BY DEF SemRm, Zeros, Members
<1>4. IdsOld'
  BY <1>1 DEF IdsOld, SemRm
<1>5. \A q \in Procs : ~HoldsLock(q)'
  BY <1>1 DEF HoldsLock, Exists
<1> QED
  BY <1>1, <1>2, <1>3, <1>4, <1>5, NewSetStep

(* A call that fails leaves the set alone; its caller is not inside. *)
LEMMA FailStep ==
  ASSUME SerialInv, NEW p \in Procs, Fails(p), NEW l \in PCs, Goto(p, l)
  PROVE  SerialInv'
<1> USE DEF SerialInv, Types
<1>1. UNCHANGED <<key, lastId, val, adj, id>> /\ ~Exists(p) /\ pc' \in [Procs -> PCs]
  BY DEF Fails, Goto
<1>2. \A q \in Procs : HoldsLock(q)' <=> HoldsLock(q)
  BY <1>1 DEF HoldsLock, Exists, Goto
<1> QED
  BY <1>1, <1>2, OutsideStep DEF IdsOld

(* An operation on [0] or [1] only, by a process that stays outside. *)
LEMMA UseStep ==
  ASSUME SerialInv, NEW p \in Procs, NEW a \in Int, NEW b \in Int, NEW l \in {"in", "cs"},
         pc[p] \in {"in", "cs", "open"}, Change(p, Ops(a, b, 0)), Goto(p, l)
  PROVE  SerialInv'
<1> USE DEF SerialInv, Types
<1>1. UNCHANGED <<key, lastId, id>> /\ pc' \in [Procs -> PCs]
  BY DEF Change, Goto, PCs
<1>2. val' \in [Members -> Int] /\ val'[2] = val[2]
  BY DEF Change, Ops, Members
<1>3. adj' \in [Procs -> [Members -> Int]] /\ \A q \in Procs : adj'[q][2] = adj[q][2]
  BY DEF Change, Ops, Members
<1>4. \A q \in Procs : HoldsLock(q)' <=> HoldsLock(q)
  BY <1>1 DEF HoldsLock, Exists, Goto
<1> QED
  BY <1>1, <1>2, <1>3, <1>4, OutsideStep DEF IdsOld

LEMMA InitialiseStep ==
  ASSUME SerialInv, NEW p \in Procs, Initialise(p)
  PROVE  SerialInv'
<1> USE DEF SerialInv, Types
<1>1. UNCHANGED <<key, lastId, id>> /\ pc' \in [Procs -> PCs]
  BY DEF Initialise, SetVal, Goto, PCs
<1>2. val' \in [Members -> Int] /\ val'[2] = val[2]
  BY SemAssumption DEF Initialise, SetVal, Members
<1>3. adj' \in [Procs -> [Members -> Int]] /\ \A q \in Procs : adj'[q][2] = adj[q][2]
  BY DEF Initialise, SetVal, Members
<1>4. \A q \in Procs : HoldsLock(q)' <=> HoldsLock(q)
  BY <1>1 DEF HoldsLock, Exists, Initialise, Goto
<1> QED
  BY <1>1, <1>2, <1>3, <1>4, OutsideStep DEF IdsOld

(* Steps that only move pc[p], or also get p the id behind the key. *)
LEMMA MoveStep ==
  ASSUME SerialInv, NEW p \in Procs,
         CallCreate(p) \/ LockSleep(p) \/ LockAgain(p) \/ CheckFresh(p) \/ CallOpen(p)
           \/ CallClose(p) \/ CloseCount(p)
  PROVE  SerialInv'
<1> USE DEF SerialInv, Types
<1> DEFINE Moves == CallCreate(p) \/ LockSleep(p) \/ LockAgain(p) \/ CheckFresh(p)
                      \/ CallClose(p) \/ CloseCount(p)
<1>1. UNCHANGED <<key, lastId, val, adj>> /\ pc' \in [Procs -> PCs]
  BY DEF CallCreate, LockSleep, LockAgain, CheckFresh, CallOpen, CallClose, CloseCount,
         Goto, PCs
<1>2. CASE Moves
  <2>1. UNCHANGED id
    BY <1>2 DEF CallCreate, LockSleep, LockAgain, CheckFresh, CallClose, CloseCount
  <2>2. \A q \in Procs : HoldsLock(q)' <=> HoldsLock(q)
    BY <1>1, <1>2, <2>1 DEF HoldsLock, Exists, Goto, CallCreate, LockSleep, LockAgain,
                            CheckFresh, CallClose, CloseCount
  <2> QED
    BY <1>1, <2>1, <2>2, OutsideStep DEF IdsOld
<1>3. CASE CallOpen(p)
  <2>1. id' \in [Procs -> Nat] /\ \A q \in Procs : id'[q] <= lastId
    BY <1>3 DEF CallOpen, IdsOld
  <2>2. \A q \in Procs : HoldsLock(q)' <=> HoldsLock(q)
    BY <1>1, <1>3 DEF HoldsLock, Exists, Goto, CallOpen
  <2> QED
    BY <1>1, <2>1, <2>2, OutsideStep
<1> QED
  BY <1>2, <1>3

LEMMA ForkStep ==
  ASSUME SerialInv, NEW p \in Procs, NEW r \in Procs, ForkFrom(p, r)
  PROVE  SerialInv'
<1> USE DEF SerialInv, Types
<1>1. UNCHANGED <<key, lastId, val, adj>> /\ pc' \in [Procs -> PCs]
  BY DEF ForkFrom, Goto, PCs
<1>2. id' \in [Procs -> Nat] /\ \A q \in Procs : id'[q] <= lastId
  BY DEF ForkFrom, IdsOld
<1>3. \A q \in Procs : HoldsLock(q)' <=> HoldsLock(q)
  BY <1>1 DEF HoldsLock, Exists, Goto, ForkFrom
<1> QED
  BY <1>1, <1>2, <1>3, OutsideStep

LEMMA SerialInvStep == SerialInv /\ [SemNext]_semVars => SerialInv'
<1> SUFFICES ASSUME SerialInv, [SemNext]_semVars PROVE SerialInv'
  OBVIOUS
<1> USE DEF PCs
<1>1. CASE UNCHANGED semVars
  BY <1>1 DEF semVars, SerialInv, Types, IdsOld, UndoFrees, CreationSerial, HoldsLock, Exists
<1>2. ASSUME NEW p \in Procs,
             CallCreate(p) \/ LockSleep(p) \/ LockAgain(p) \/ CheckFresh(p) \/ CallOpen(p)
               \/ CallClose(p) \/ CloseCount(p)
      PROVE  SerialInv'
  BY <1>2, MoveStep
<1>3. ASSUME NEW p \in Procs, SemGet(p) PROVE SerialInv'
  BY <1>3, SemGetStep
<1>4. ASSUME NEW p \in Procs, LockTake(p) PROVE SerialInv'
  BY <1>4, TakeStep DEF LockTake
<1>5. ASSUME NEW p \in Procs, LockLost(p) \/ CreateLost(p) PROVE SerialInv'
  BY <1>5, FailStep DEF LockLost, CreateLost
<1>6. ASSUME NEW p \in Procs, Initialise(p) PROVE SerialInv'
  BY <1>6, InitialiseStep
<1>7. ASSUME NEW p \in Procs, EndCreate(p) PROVE SerialInv'
  BY <1>7, ReleaseStep DEF EndCreate
<1>8. ASSUME NEW p \in Procs, OpenTake(p) \/ SemWait(p) \/ SemSignal(p) PROVE SerialInv'
  BY <1>8, UseStep, FailStep DEF OpenTake, SemWait, SemSignal
<1>9. ASSUME NEW p \in Procs, CloseTake(p) PROVE SerialInv'
  BY <1>9, TakeStep, FailStep DEF CloseTake
<1>10. ASSUME NEW p \in Procs, SemRm(p) PROVE SerialInv'
  BY <1>10, SemRmStep
<1>11. ASSUME NEW p \in Procs, Unlock(p) PROVE SerialInv'
  BY <1>11, ReleaseStep, FailStep DEF Unlock
<1>12. ASSUME NEW p \in Procs, Dies(p) \/ CloseDumps(p) PROVE SerialInv'
  BY <1>12, DieStep DEF CloseDumps
<1>13. ASSUME NEW p \in Procs, NEW r \in Procs, ForkFrom(p, r) PROVE SerialInv'
  BY <1>13, ForkStep
<1> QED
  BY <1>1, <1>2, <1>3, <1>4, <1>5, <1>6, <1>7, <1>8, <1>9, <1>10, <1>11, <1>12, <1>13
  DEF SemNext, Creates, Closes

(* Creating and closing a set are serial, whatever processes race, fork    *)
(* and die (sem_create, sem_close in src/v2/semaphore.hpp).                *)
THEOREM CreationIsSerial == SemSpec => []CreationSerial
<1>1. SemInit => SerialInv
  BY SerialInvInit
<1>2. SerialInv /\ [SemNext]_semVars => SerialInv'
  BY SerialInvStep
<1>3. SerialInv => CreationSerial
  BY DEF SerialInv
<1> QED
  BY <1>1, <1>2, <1>3, PTL DEF SemSpec
-----------------------------------------------------------------------------
(* The semaphore proper and the counter of users.  UseExclusive says       *)
(* nothing of what a death, a second initialisation or a set created anew  *)
(* do to member [0]; UseInv ties both members and their undo entries to    *)
(* the processes that have the set open.                                   *)

(* BIGCOUNT is out of reach of the counter. *)
FewProcesses == IsFiniteSet(Procs) /\ Cardinality(Procs) < BigCount

Using(p) == Exists(p) /\ Uses(p)
InCs(p) == Exists(p) /\ pc[p] = "cs"

(* The exit of a user gives one back to [1]; a forked child takes one when *)
(* it closes, and gives it back if it then dies.                           *)
DebtRange == \A p \in Procs : adj[p][1] \in IF Using(p) THEN {0, 1} ELSE {-1, 0}

DebtExact ==
  \A p \in Procs : p \notin Children \/ key \notin strays
    => adj[p][1] = IF Using(p) THEN 1 ELSE 0

DebtOfSet == \A p \in Procs : adj[p][1] # 0 => Exists(p)

Counted == val[1] # 0 => val[1] = BigCount - Owing(1) + Owing(-1)

(* Until [1] is set nobody uses the set: initialising it disturbs no one. *)
FreshUnused == val[1] = 0 => \A p \in Procs : adj[p][1] = 0 /\ ~Using(p)

CreateShape ==
  \A p \in Procs : Exists(p) =>
    /\ pc[p] \in {"set0", "set1"} => val[1] = 0
    /\ pc[p] = "end" => val[1] # 0
    /\ pc[p] = "set1" => val[0] = 1

(* The exit of a process between sem_wait and sem_signal gives [0] back. *)
TakenBack == \A p \in Procs : adj[p][0] = IF InCs(p) THEN 1 ELSE 0

Excludes ==
  /\ val[1] # 0 => val[0] = IF \E p \in Procs : InCs(p) THEN 0 ELSE 1
  /\ \A p, q \in Procs : InCs(p) /\ InCs(q) => p = q

StraysKnown == \A p \in Procs : Exists(p) /\ pc[p] = "open" => key \in strays

(* A closer that has found itself the last user stays the last, unless     *)
(* somebody got the set by other means than creating it.                   *)
LastUse ==
  \A p \in Procs : Exists(p) /\ pc[p] = "rm" /\ key \notin strays
    => \A q \in Procs : ~Using(q)

Users == DebtRange /\ DebtExact /\ DebtOfSet /\ Counted /\ FreshUnused
Turns == CreateShape /\ TakenBack /\ Excludes /\ StraysKnown /\ LastUse
UseInv == SerialInv /\ Users /\ Turns

(* How the number of processes that owe n changes when one entry does. *)
LEMMA OwingMoves ==
  ASSUME IsFiniteSet(Procs), NEW p \in Procs, NEW n \in Int,
         \A q \in Procs \ {p} : adj'[q][1] = adj[q][1]
  PROVE  /\ Owing(n) \in Nat /\ Owing(n)' \in Nat /\ Owing(n)' <= Cardinality(Procs)
         /\ Owing(n)' = Owing(n) + (IF adj'[p][1] = n THEN 1 ELSE 0)
                                 - (IF adj[p][1] = n THEN 1 ELSE 0)
<1> DEFINE B == {q \in Procs \ {p} : adj[q][1] = n}
           S == {q \in Procs : adj[q][1] = n}
           T == {q \in Procs : adj'[q][1] = n}
<1>1. B \in SUBSET Procs /\ S \in SUBSET Procs /\ T \in SUBSET Procs /\ p \notin B
  OBVIOUS
<1>2. /\ S = IF adj[p][1] = n THEN B \cup {p} ELSE B
      /\ T = IF adj'[p][1] = n THEN B \cup {p} ELSE B
  OBVIOUS
<1>3. Owing(n) = Cardinality(S) /\ Owing(n)' = Cardinality(T)
  BY DEF Owing
<1> HIDE DEF B, S, T
<1>4. IsFiniteSet(B) /\ IsFiniteSet(S) /\ IsFiniteSet(T) /\ Cardinality(T) <= Cardinality(Procs)
  BY <1>1, FS_Subset
<1>5. /\ Cardinality(B) \in Nat /\ Cardinality(S) \in Nat /\ Cardinality(T) \in Nat
      /\ Cardinality(B \cup {p}) = Cardinality(B) + 1
  BY <1>1, <1>4, FS_CardinalityType, FS_AddElement
<1> QED
  BY <1>2, <1>3, <1>4, <1>5

(* [1] counts users in and out, and never comes down to 0. *)
LEMMA CountMoves ==
  ASSUME FewProcesses, Counted, val[1] # 0, NEW p \in Procs,
         adj[p][1] \in {-1, 0, 1}, adj'[p][1] \in {-1, 0, 1},
         \A q \in Procs \ {p} : adj'[q][1] = adj[q][1]
  PROVE  /\ val[1] + (adj[p][1] - adj'[p][1]) > 0
         /\ val'[1] = val[1] + (adj[p][1] - adj'[p][1]) => Counted' /\ val'[1] # 0
<1>1. /\ Owing(1) \in Nat /\ Owing(1)' \in Nat /\ Owing(1)' <= Cardinality(Procs)
      /\ Owing(1)' = Owing(1) + (IF adj'[p][1] = 1 THEN 1 ELSE 0)
                              - (IF adj[p][1] = 1 THEN 1 ELSE 0)
  BY OwingMoves DEF FewProcesses
<1>2. /\ Owing(-1) \in Nat /\ Owing(-1)' \in Nat
      /\ Owing(-1)' = Owing(-1) + (IF adj'[p][1] = -1 THEN 1 ELSE 0)
                                - (IF adj[p][1] = -1 THEN 1 ELSE 0)
  <2>1. -1 \in Int /\ IsFiniteSet(Procs)
    BY DEF FewProcesses
  <2> DEFINE n == -1
  <2>2. n \in Int
    BY <2>1
  <2> HIDE DEF n
  <2>3. /\ Owing(n) \in Nat /\ Owing(n)' \in Nat
        /\ Owing(n)' = Owing(n) + (IF adj'[p][1] = n THEN 1 ELSE 0)
                                - (IF adj[p][1] = n THEN 1 ELSE 0)
    BY <2>1, <2>2, OwingMoves
  <2> QED
    BY <2>3 DEF n
<1>3. val[1] + (adj[p][1] - adj'[p][1]) = BigCount - Owing(1)' + Owing(-1)'
  BY <1>1, <1>2, SemAssumption DEF Counted
<1>4. Cardinality(Procs) \in Nat /\ Cardinality(Procs) < BigCount
  BY FS_CardinalityType DEF FewProcesses
<1> QED
  BY <1>1, <1>2, <1>3, <1>4, SemAssumption DEF Counted

(* A step that moves nobody in or out of the set's use. *)
LEMMA QuietUse ==
  ASSUME UseInv, UNCHANGED key, strays \subseteq strays',
         val'[0] = val[0], val'[1] = val[1],
         \A q \in Procs : adj'[q][0] = adj[q][0] /\ adj'[q][1] = adj[q][1],
         \A q \in Procs : Using(q)' <=> Using(q),
         \A q \in Procs : InCs(q)' <=> InCs(q),
         \A q \in Procs : Exists(q) => Exists(q)',
         (CreateShape /\ StraysKnown /\ LastUse)'
  PROVE  Users' /\ Turns'
<1> USE DEF UseInv, Users, Turns
<1>1. Owing(1)' = Owing(1) /\ Owing(-1)' = Owing(-1)
  BY DEF Owing
<1>2. DebtRange' /\ DebtExact' /\ DebtOfSet'
  BY DEF DebtRange, DebtExact, DebtOfSet
<1>3. Counted' /\ FreshUnused'
  BY <1>1 DEF Counted, FreshUnused
<1>4. TakenBack' /\ Excludes'
  BY DEF TakenBack, Excludes
<1> QED
  BY <1>2, <1>3, <1>4

(* p, alone, goes from one call to the next; the set, and who has it open, *)
(* stay as they are.                                                       *)
LEMMA QuietMove ==
  ASSUME UseInv, NEW p \in Procs, NEW l \in PCs, Goto(p, l),
         UNCHANGED <<key, id, strays>>,
         val'[0] = val[0], val'[1] = val[1],
         \A q \in Procs : adj'[q][0] = adj[q][0] /\ adj'[q][1] = adj[q][1],
         Exists(p) =>
           /\ pc[p] \in {"in", "cs", "close"} <=> l \in {"in", "cs", "close"}
           /\ pc[p] = "cs" <=> l = "cs"
           /\ l \in {"set0", "set1"} => val[1] = 0
           /\ l = "end" => val[1] # 0
           /\ l = "set1" => val[0] = 1
           /\ l = "open" => key \in strays
           /\ l = "rm" /\ key \notin strays => \A q \in Procs : ~Using(q)
  PROVE  Users' /\ Turns'
<1>1. pc'[p] = l /\ \A q \in Procs \ {p} : pc'[q] = pc[q]
  BY DEF UseInv, SerialInv, Types, Goto
<1>2. \A q \in Procs : Exists(q)' <=> Exists(q)
  BY DEF Exists
<1>3. \A q \in Procs : (Using(q)' <=> Using(q)) /\ (InCs(q)' <=> InCs(q))
  BY <1>1, <1>2 DEF Using, Uses, InCs
<1>4. CreateShape' /\ StraysKnown'
  BY <1>1, <1>2 DEF UseInv, Turns, CreateShape, StraysKnown
<1>5. LastUse'
  BY <1>1, <1>2, <1>3 DEF UseInv, Turns, LastUse
<1> QED
  BY <1>2, <1>3, <1>4, <1>5, QuietUse

(* What one semop() does to the members and to the undo entries. *)
LEMMA ChangeMembers ==
  ASSUME SerialInv, NEW p \in Procs, NEW ops, Change(p, ops)
  PROVE  /\ Exists(p) /\ UNCHANGED <<key, id, strays>>
         /\ val'[0] = val[0] + ops[0] /\ val'[1] = val[1] + ops[1]
         /\ val[0] + ops[0] >= 0 /\ val[1] + ops[1] >= 0
         /\ adj'[p][0] = adj[p][0] - ops[0] /\ adj'[p][1] = adj[p][1] - ops[1]
         /\ \A q \in Procs \ {p} : adj'[q] = adj[q]
         /\ val[0] \in Int /\ val[1] \in Int
         /\ \A q \in Procs : adj[q][0] \in Int /\ adj[q][1] \in Int
BY DEF SerialInv, Types, Change, Members

LEMMA OpsMembers ==
  ASSUME NEW a, NEW b, NEW c PROVE Ops(a, b, c)[0] = a /\ Ops(a, b, c)[1] = b
BY DEF Ops, Members

(* Between two places that both use the set, or both do not. *)
LEMMA QuietActions ==
  ASSUME UseInv, NEW p \in Procs,
         \/ CallCreate(p) \/ LockTake(p) \/ LockSleep(p) \/ LockAgain(p) \/ LockLost(p)
         \/ CheckFresh(p) \/ CreateLost(p) \/ CallClose(p) \/ Unlock(p)
         \/ (OpenTake(p) \/ SemWait(p) \/ SemSignal(p) \/ CloseTake(p)) /\ Fails(p)
  PROVE  Users' /\ Turns'
<1> USE DEF PCs
<1>0. SerialInv
  BY DEF UseInv
<1>1. CASE \/ CallCreate(p) \/ LockSleep(p) \/ LockAgain(p) \/ LockLost(p)
           \/ CreateLost(p) \/ CallClose(p)
  BY <1>1, QuietMove DEF CallCreate, LockSleep, LockAgain, LockLost, CreateLost,
     CallClose, Fails
<1>2. CASE LockTake(p)
  <2>1. Change(p, Ops(0, 0, 1)) /\ Goto(p, "check") /\ pc[p] \in {"lock", "sleep"}
    BY <1>2 DEF LockTake
  <2>2. /\ UNCHANGED <<key, id, strays>> /\ val'[0] = val[0] /\ val'[1] = val[1]
        /\ \A q \in Procs : adj'[q][0] = adj[q][0] /\ adj'[q][1] = adj[q][1]
    BY <1>0, <2>1, ChangeMembers, OpsMembers
  <2> QED
    BY <2>1, <2>2, QuietMove
<1>3. CASE Unlock(p)
  <2>1. CASE Fails(p)
    BY <1>3, <2>1, QuietMove DEF Unlock, Fails
  <2>2. CASE Change(p, Ops(0, 0, -1))
    <3>1. /\ UNCHANGED <<key, id, strays>> /\ val'[0] = val[0] /\ val'[1] = val[1]
          /\ \A q \in Procs : adj'[q][0] = adj[q][0] /\ adj'[q][1] = adj[q][1]
      BY <1>0, <2>2, ChangeMembers, OpsMembers
    <3> QED
      BY <1>3, <3>1, QuietMove DEF Unlock
  <2> QED
    BY <1>3, <2>1, <2>2 DEF Unlock
<1>4. CASE CheckFresh(p)
  BY <1>4, QuietMove DEF CheckFresh
<1>5. CASE (OpenTake(p) \/ SemWait(p) \/ SemSignal(p) \/ CloseTake(p)) /\ Fails(p)
  BY <1>5, QuietMove DEF OpenTake, SemWait, SemSignal, CloseTake, Fails
<1> QED
  BY <1>1, <1>2, <1>3, <1>4, <1>5

(* sem_close finds itself the last user: only then does it remove the set. *)
LEMMA CloseCountStep ==
  ASSUME UseInv, FewProcesses, NEW p \in Procs, CloseCount(p)
  PROVE  Users' /\ Turns'
<1>1. /\ UNCHANGED <<key, id, strays, val, adj>> /\ pc[p] = "count"
      /\ Goto(p, IF Exists(p) /\ val[1] = BigCount THEN "rm" ELSE "unlock")
  BY DEF CloseCount
<1>2. CASE Exists(p) /\ val[1] = BigCount
  <2>1. ASSUME key \notin strays PROVE \A q \in Procs : ~Using(q)
    <3>1. \A q \in Procs : adj[q][1] = IF Using(q) THEN 1 ELSE 0
      BY <2>1 DEF UseInv, Users, DebtExact
    <3>2. {q \in Procs : adj[q][1] = -1} = {}
      BY <3>1
    <3>3. Owing(-1) = 0
      BY <3>2, FS_EmptySet DEF Owing
    <3>5. IsFiniteSet({q \in Procs : adj[q][1] = 1})
      BY FS_Subset DEF FewProcesses
    <3>4. Owing(1) = 0
      <4>1. Owing(1) \in Nat
        BY <3>5, FS_CardinalityType DEF Owing
      <4>2. BigCount = BigCount - Owing(1) + Owing(-1)
        BY <1>2, SemAssumption DEF UseInv, Users, Counted
      <4> QED
        BY <3>3, <4>1, <4>2, SemAssumption
    <3>6. {q \in Procs : adj[q][1] = 1} = {}
      BY <3>4, <3>5, FS_EmptySet DEF Owing
    <3> QED
      BY <3>1, <3>6
  <2> QED
    BY <1>1, <1>2, <2>1, QuietMove DEF PCs
<1>3. CASE ~(Exists(p) /\ val[1] = BigCount)
  BY <1>1, <1>3, QuietMove DEF PCs
<1> QED
  BY <1>2, <1>3

(* A process starts, or stops, to be counted as a user. *)
LEMMA CountStep ==
  ASSUME UseInv, FewProcesses, NEW p \in Procs,
         \/ EndCreate(p)
         \/ OpenTake(p) /\ ~Fails(p)
         \/ CloseTake(p) /\ ~Fails(p)
  PROVE  Users' /\ Turns'
<1> USE DEF UseInv, Users, Turns
<1>0. /\ SerialInv /\ Users /\ Turns
      /\ \A q \in Procs : adj[q][0] \in Int /\ adj[q][1] \in Int
      /\ val[0] \in Int /\ val[1] \in Int
  BY DEF SerialInv, Types, Members
<1>1. PICK l \in PCs :
         /\ Exists(p) /\ UNCHANGED <<key, id, strays>> /\ Goto(p, l)
         /\ val'[0] = val[0] /\ \A q \in Procs : adj'[q][0] = adj[q][0]
         /\ \A q \in Procs \ {p} : adj'[q][1] = adj[q][1]
         /\ \/ /\ pc[p] \in {"end", "open"} /\ l = "in" /\ val[1] # 0
               /\ val'[1] = val[1] - 1 /\ adj'[p][1] = adj[p][1] + 1
            \/ /\ pc[p] = "close" /\ l = "count"
               /\ val'[1] = val[1] + 1 /\ adj'[p][1] = adj[p][1] - 1
  <2> USE DEF PCs
  <2>1. CASE EndCreate(p)
    BY <1>0, <2>1, ChangeMembers, OpsMembers DEF EndCreate, CreateShape
  <2>2. CASE OpenTake(p) /\ ~Fails(p)
    BY <1>0, <2>2, ChangeMembers, OpsMembers DEF OpenTake
  <2>3. CASE CloseTake(p) /\ ~Fails(p)
    BY <1>0, <2>3, ChangeMembers, OpsMembers DEF CloseTake
  <2> QED
    BY <2>1, <2>2, <2>3
<1>2. /\ pc'[p] = l /\ \A q \in Procs \ {p} : pc'[q] = pc[q]
      /\ \A q \in Procs : Exists(q)' <=> Exists(q)
  BY <1>0, <1>1 DEF Goto, SerialInv, Types, Exists
<1>3. /\ \A q \in Procs \ {p} : Using(q)' <=> Using(q)
      /\ Using(p)' <=> ~Using(p)
      /\ Using(p) <=> pc[p] = "close"
      /\ \A q \in Procs : InCs(q)' <=> InCs(q)
  BY <1>1, <1>2 DEF Using, Uses, InCs
<1>4. val[1] # 0
  BY <1>1, <1>3 DEF FreshUnused
<1>5. DebtRange' /\ adj[p][1] \in {-1, 0, 1} /\ adj'[p][1] \in {-1, 0, 1}
  BY <1>0, <1>1, <1>3 DEF DebtRange
<1>6. Counted' /\ val'[1] # 0
  BY <1>0, <1>1, <1>4, <1>5, CountMoves
<1>7. DebtExact' /\ DebtOfSet' /\ FreshUnused'
  BY <1>1, <1>2, <1>3, <1>6 DEF DebtExact, DebtOfSet, FreshUnused
<1>8. CreateShape' /\ StraysKnown'
  BY <1>1, <1>2, <1>4, <1>6 DEF CreateShape, StraysKnown
<1>9. TakenBack' /\ Excludes'
  BY <1>1, <1>3, <1>4 DEF TakenBack, Excludes
<1>10. LastUse'
  <2>1. CASE pc[p] = "close"
    BY <1>1, <1>2, <1>3, <2>1 DEF LastUse
  <2>2. CASE pc[p] = "open"
    BY <1>1, <2>2 DEF LastUse, StraysKnown
  <2>3. CASE pc[p] = "end"
    <3>1. \A q \in Procs : Exists(q) => pc[q] # "rm"
      BY <1>1, <2>3 DEF SerialInv, CreationSerial, HoldsLock
    <3> QED
      BY <1>1, <1>2, <3>1 DEF LastUse
  <2> QED
    BY <1>1, <2>1, <2>2, <2>3
<1> QED
  BY <1>5, <1>6, <1>7, <1>8, <1>9, <1>10

(* sem_wait and sem_signal, on the set. *)
LEMMA TurnStep ==
  ASSUME UseInv, NEW p \in Procs, SemWait(p) \/ SemSignal(p), ~Fails(p)
  PROVE  Users' /\ Turns'
<1>0. /\ SerialInv /\ Users /\ Turns
      /\ \A q \in Procs : adj[q][0] \in Int /\ adj[q][1] \in Int
      /\ val[0] \in Int /\ val[1] \in Int
  BY DEF UseInv, SerialInv, Types, Members
<1>1. PICK l \in {"in", "cs"} :
         /\ Exists(p) /\ UNCHANGED <<key, id, strays>> /\ Goto(p, l)
         /\ val'[1] = val[1] /\ \A q \in Procs : adj'[q][1] = adj[q][1]
         /\ \A q \in Procs \ {p} : adj'[q][0] = adj[q][0]
         /\ \/ /\ pc[p] = "in" /\ l = "cs" /\ val[0] >= 1
               /\ val'[0] = val[0] - 1 /\ adj'[p][0] = adj[p][0] + 1
            \/ /\ pc[p] = "cs" /\ l = "in"
               /\ val'[0] = val[0] + 1 /\ adj'[p][0] = adj[p][0] - 1
  <2>1. CASE SemWait(p)
    BY <1>0, <2>1, ChangeMembers, OpsMembers DEF SemWait
  <2>2. CASE SemSignal(p)
    BY <1>0, <2>2, ChangeMembers, OpsMembers DEF SemSignal
  <2> QED
    BY <2>1, <2>2
<1>2. /\ pc'[p] = l /\ \A q \in Procs \ {p} : pc'[q] = pc[q]
      /\ \A q \in Procs : Exists(q)' <=> Exists(q)
  BY <1>0, <1>1 DEF Goto, SerialInv, Types, Exists
<1>3. /\ \A q \in Procs : Using(q)' <=> Using(q)
      /\ Using(p)
      /\ \A q \in Procs \ {p} : InCs(q)' <=> InCs(q)
      /\ InCs(p) <=> l = "in"
      /\ InCs(p)' <=> l = "cs"
  BY <1>1, <1>2 DEF Using, Uses, InCs
<1>4. val[1] # 0
  BY <1>0, <1>3 DEF Users, FreshUnused
<1>5. DebtRange' /\ DebtExact' /\ DebtOfSet' /\ FreshUnused'
  BY <1>0, <1>1, <1>2, <1>3, <1>4 DEF Users, DebtRange, DebtExact, DebtOfSet, FreshUnused
<1>6. Counted'
  BY <1>0, <1>1 DEF Users, Counted, Owing
<1>7. CreateShape' /\ StraysKnown'
  BY <1>0, <1>1, <1>2, <1>4 DEF Turns, CreateShape, StraysKnown
<1>8. TakenBack'
  BY <1>0, <1>1, <1>3 DEF Turns, TakenBack
<1>9. Excludes'
  <2>1. \A q \in Procs \ {p} : ~InCs(q)
    BY <1>0, <1>1, <1>3, <1>4 DEF Turns, Excludes
  <2>2. val[0] = IF l = "in" THEN 0 ELSE 1
    BY <1>0, <1>3, <1>4, <2>1 DEF Turns, Excludes
  <2> QED
    BY <1>1, <1>3, <2>1, <2>2 DEF Excludes
<1>10. LastUse'
  BY <1>0, <1>1, <1>2, <1>3 DEF Turns, LastUse
<1> QED
  BY <1>5, <1>6, <1>7, <1>8, <1>9, <1>10 DEF Users, Turns

(* Initialising a set nobody uses yet, though it clears every undo entry. *)
LEMMA InitialiseUse ==
  ASSUME UseInv, NEW p \in Procs, Initialise(p)
  PROVE  Users' /\ Turns'
<1> USE DEF Users, Turns
<1>0. SerialInv /\ Users /\ Turns
  BY DEF UseInv
<1>1. /\ Exists(p) /\ UNCHANGED <<key, id, strays>>
      /\ \/ /\ pc[p] = "set0" /\ Goto(p, "set1") /\ val'[0] = 1 /\ val'[1] = val[1]
            /\ \A q \in Procs : adj'[q][0] = 0 /\ adj'[q][1] = adj[q][1]
         \/ /\ pc[p] = "set1" /\ Goto(p, "end") /\ val'[0] = val[0] /\ val'[1] = BigCount
            /\ \A q \in Procs : adj'[q][0] = adj[q][0] /\ adj'[q][1] = 0
  BY <1>0 DEF Initialise, SetVal, SerialInv, Types, Members
<1>2. val[1] = 0 /\ \A q \in Procs : ~Using(q) /\ ~InCs(q)
  BY <1>0, <1>1 DEF CreateShape, FreshUnused, Using, Uses, InCs
<1>3. \A q \in Procs : adj[q][0] = 0 /\ adj[q][1] = 0
  BY <1>0, <1>2 DEF TakenBack, FreshUnused
<1>4. CASE pc[p] = "set0"
  <2>2. \A q \in Procs : adj'[q][0] = adj[q][0] /\ adj'[q][1] = adj[q][1]
    BY <1>1, <1>3
  <2>3. pc'[p] = "set1" /\ \A q \in Procs \ {p} : pc'[q] = pc[q]
    BY <1>0, <1>1, <1>4 DEF Goto, SerialInv, Types
  <2>4. \A q \in Procs : (Exists(q)' <=> Exists(q)) /\ ~Using(q)' /\ ~InCs(q)'
    BY <1>1, <1>2, <1>4, <2>3 DEF Exists, Using, Uses, InCs
  <2>5. Owing(1)' = Owing(1) /\ Owing(-1)' = Owing(-1)
    BY <2>2 DEF Owing
  <2>6. Users'
    BY <1>0, <1>1, <1>2, <1>3, <1>4, <2>2, <2>4 DEF DebtRange, DebtExact, DebtOfSet,
       Counted, FreshUnused
  <2>7. CreateShape'
    BY <1>0, <1>1, <1>2, <1>4, <2>3, <2>4 DEF CreateShape
  <2>8. StraysKnown' /\ LastUse'
    BY <1>0, <1>1, <1>4, <2>3, <2>4 DEF StraysKnown, LastUse
  <2>9. TakenBack' /\ Excludes'
    BY <1>1, <1>2, <1>4, <2>4 DEF TakenBack, Excludes
  <2> QED
    BY <2>6, <2>7, <2>8, <2>9
<1>5. CASE pc[p] = "set1"
  <2>1. \A q \in Procs : adj'[q][0] = 0 /\ adj'[q][1] = 0
    BY <1>1, <1>3, <1>5
  <2>2. pc'[p] = "end" /\ \A q \in Procs \ {p} : pc'[q] = pc[q]
    BY <1>0, <1>1, <1>5 DEF Goto, SerialInv, Types
  <2>3. \A q \in Procs : (Exists(q)' <=> Exists(q)) /\ ~Using(q)' /\ ~InCs(q)'
    BY <1>1, <1>2, <1>5, <2>2 DEF Exists, Using, Uses, InCs
  <2>4. Owing(1)' = 0 /\ Owing(-1)' = 0
    <3>1. {q \in Procs : adj'[q][1] = 1} = {} /\ {q \in Procs : adj'[q][1] = -1} = {}
      BY <2>1
    <3> QED
      BY <3>1, FS_EmptySet DEF Owing
  <2>5. val'[1] = BigCount /\ val'[1] # 0 /\ val'[0] = 1
    BY <1>0, <1>1, <1>5, SemAssumption DEF CreateShape
  <2>6. Users'
    BY <2>1, <2>3, <2>4, <2>5, SemAssumption
       DEF DebtRange, DebtExact, DebtOfSet, Counted, FreshUnused
  <2>7. CreateShape'
    <3>1. \A q \in Procs \ {p} : Exists(q) => pc[q] \notin {"set0", "set1"}
      BY <1>0, <1>1, <1>5 DEF SerialInv, CreationSerial, HoldsLock
    <3> QED
      BY <2>2, <2>3, <2>5, <3>1 DEF CreateShape
  <2>8. StraysKnown' /\ LastUse'
    BY <1>0, <1>1, <2>2, <2>3 DEF StraysKnown, LastUse
  <2>9. TakenBack' /\ Excludes'
    BY <2>1, <2>3, <2>5 DEF TakenBack, Excludes
  <2> QED
    BY <2>6, <2>7, <2>8, <2>9
<1> QED
  BY <1>1, <1>4, <1>5

(* While there is no set, or a new one, nobody has it open. *)
LEMMA NobodyUses ==
  ASSUME \A q \in Procs : adj'[q][0] = 0 /\ adj'[q][1] = 0,
         val'[1] = 0,
         \A q \in Procs : ~Using(q)' /\ ~InCs(q)',
         \A q \in Procs : Exists(q)' => pc'[q] \notin {"set0", "set1", "end", "open", "rm"}
  PROVE  Users' /\ Turns'
<1>1. Users'
  BY DEF Users, DebtRange, DebtExact, DebtOfSet, Counted, FreshUnused
<1>2. Turns'
  BY DEF Turns, CreateShape, TakenBack, Excludes, StraysKnown, LastUse
<1> QED
  BY <1>1, <1>2

LEMMA SemGetUse ==
  ASSUME UseInv, NEW p \in Procs, SemGet(p)
  PROVE  Users' /\ Turns'
<1>0. SerialInv /\ Users /\ Turns
  BY DEF UseInv
<1>1. /\ pc[p] = "get" /\ pc'[p] = "lock" /\ UNCHANGED strays
      /\ \A q \in Procs \ {p} : pc'[q] = pc[q]
  BY <1>0 DEF SemGet, Goto, SerialInv, Types
<1>2. CASE key # 0 /\ id' = [id EXCEPT ![p] = key] /\ UNCHANGED <<key, lastId, val, adj>>
  <2>1. Exists(p)' /\ \A q \in Procs \ {p} : Exists(q)' <=> Exists(q)
    BY <1>0, <1>2 DEF Exists, SerialInv, Types
  <2>2. \A q \in Procs : (Using(q)' <=> Using(q)) /\ (InCs(q)' <=> InCs(q))
    BY <1>1, <2>1 DEF Using, Uses, InCs
  <2>3. (CreateShape /\ StraysKnown)'
    BY <1>0, <1>1, <1>2, <2>1 DEF Turns, CreateShape, StraysKnown
  <2>4. LastUse'
    BY <1>0, <1>1, <1>2, <2>1, <2>2 DEF Turns, LastUse
  <2> QED
    BY <1>1, <1>2, <2>1, <2>2, <2>3, <2>4, QuietUse
<1>3. CASE /\ key = 0 /\ lastId' = lastId + 1 /\ key' = lastId + 1
           /\ id' = [id EXCEPT ![p] = lastId + 1] /\ val' = Zeros /\ UNCHANGED adj
  <2>1. \A q \in Procs : ~Exists(q)
    BY <1>3 DEF Exists
  <2>2. \A q \in Procs : adj'[q][0] = 0 /\ adj'[q][1] = 0
    BY <1>0, <1>3, <2>1 DEF Users, Turns, DebtOfSet, TakenBack, InCs
  <2>3. \A q \in Procs : Exists(q)' => q = p
    BY <1>0, <1>3 DEF Exists, SerialInv, Types, IdsOld
  <2>4. val'[1] = 0
    BY <1>3 DEF Zeros, Members
  <2>5. \A q \in Procs : ~Using(q)' /\ ~InCs(q)'
    BY <1>1, <2>3 DEF Using, Uses, InCs
  <2> QED
    BY <1>1, <2>2, <2>3, <2>4, <2>5, NobodyUses
<1> QED
  BY <1>2, <1>3 DEF SemGet

LEMMA SemRmUse ==
  ASSUME UseInv, NEW p \in Procs, SemRm(p)
  PROVE  Users' /\ Turns'
<1>1. key' = 0 /\ val'[1] = 0 /\ \A q \in Procs : adj'[q][0] = 0 /\ adj'[q][1] = 0
  BY DEF SemRm, Zeros, Members
<1>2. \A q \in Procs : ~Exists(q)'
  BY <1>1 DEF Exists
<1>3. \A q \in Procs : ~Using(q)' /\ ~InCs(q)'
  BY <1>2 DEF Using, InCs
<1> QED
  BY <1>1, <1>2, <1>3, NobodyUses

LEMMA CallOpenUse ==
  ASSUME UseInv, NEW p \in Procs, CallOpen(p)
  PROVE  Users' /\ Turns'
<1>0. SerialInv /\ Users /\ Turns
  BY DEF UseInv
<1>1. /\ pc[p] = "out" /\ pc'[p] = "open" /\ key # 0 /\ id' = [id EXCEPT ![p] = key]
      /\ \A q \in Procs \ {p} : pc'[q] = pc[q]
      /\ strays' = strays \cup {key} /\ UNCHANGED <<key, val, adj>>
  BY <1>0 DEF CallOpen, Goto, SerialInv, Types
<1>2. Exists(p)' /\ \A q \in Procs \ {p} : Exists(q)' <=> Exists(q)
  BY <1>0, <1>1 DEF Exists, SerialInv, Types
<1>3. \A q \in Procs : (Using(q)' <=> Using(q)) /\ (InCs(q)' <=> InCs(q))
  BY <1>1, <1>2 DEF Using, Uses, InCs
<1>4. (CreateShape /\ StraysKnown /\ LastUse)'
  BY <1>0, <1>1, <1>2 DEF Turns, CreateShape, StraysKnown, LastUse
<1> QED
  BY <1>1, <1>2, <1>3, <1>4, QuietUse

(* A forked child uses what its parent uses, and owes nothing for it. *)
LEMMA ForkUse ==
  ASSUME UseInv, NEW p \in Procs, NEW r \in Procs, ForkFrom(p, r)
  PROVE  Users' /\ Turns'
<1>0. SerialInv /\ Users /\ Turns
  BY DEF UseInv
<1>1. /\ pc[p] = "in" /\ pc[r] = "out" /\ pc'[r] = "in" /\ id[r] = 0 /\ id'[r] = id[p]
      /\ \A q \in Procs \ {r} : pc'[q] = pc[q] /\ id'[q] = id[q]
      /\ r \in Children /\ strays' = strays \cup {id[p]} /\ UNCHANGED <<key, val, adj>>
  BY <1>0 DEF ForkFrom, Goto, SerialInv, Types
<1>2. /\ ~Exists(r) /\ (Exists(r)' <=> Exists(p))
      /\ \A q \in Procs \ {r} : Exists(q)' <=> Exists(q)
  BY <1>1 DEF Exists
<1>3. /\ \A q \in Procs \ {r} : Using(q)' <=> Using(q)
      /\ \A q \in Procs : InCs(q)' <=> InCs(q)
      /\ (Using(r)' <=> Exists(p)) /\ ~Using(r)
  BY <1>1, <1>2 DEF Using, Uses, InCs
<1>4. (CreateShape /\ StraysKnown)'
  BY <1>0, <1>1, <1>2 DEF Turns, CreateShape, StraysKnown
<1>5. LastUse'
  BY <1>0, <1>1, <1>2, <1>3 DEF Turns, LastUse, Exists
<1>6. CASE Exists(p)
  <2>1. adj[r][1] = 0 /\ key \in strays'
    BY <1>0, <1>1, <1>2, <1>6 DEF Users, DebtOfSet, Exists
  <2>2. val[1] # 0
    BY <1>0, <1>1, <1>6 DEF Users, FreshUnused, Using, Uses
  <2>3. DebtRange' /\ DebtExact' /\ DebtOfSet' /\ FreshUnused'
    BY <1>0, <1>1, <1>2, <1>3, <2>1, <2>2
       DEF Users, DebtRange, DebtExact, DebtOfSet, FreshUnused
  <2>4. Counted'
    BY <1>0, <1>1 DEF Users, Counted, Owing
  <2>5. TakenBack' /\ Excludes'
    BY <1>0, <1>1, <1>3 DEF Turns, TakenBack, Excludes
  <2> QED
    BY <1>4, <1>5, <2>3, <2>4, <2>5 DEF Users, Turns
<1>7. CASE ~Exists(p)
  BY <1>1, <1>2, <1>3, <1>4, <1>5, <1>7, QuietUse
<1> QED
  BY <1>6, <1>7

(* A death gives back what the process has taken, of both members. *)
LEMMA DieUse ==
  ASSUME UseInv, FewProcesses, NEW p \in Procs, Dies(p)
  PROVE  Users' /\ Turns'
<1>0. /\ SerialInv /\ Users /\ Turns
      /\ \A q \in Procs : adj[q][0] \in Int /\ adj[q][1] \in Int
      /\ val[0] \in Int /\ val[1] \in Int
  BY DEF UseInv, SerialInv, Types, Members
<1>1. /\ pc'[p] = "out" /\ id'[p] = 0 /\ UNCHANGED <<key, strays>>
      /\ \A q \in Procs \ {p} : pc'[q] = pc[q] /\ id'[q] = id[q] /\ adj'[q] = adj[q]
      /\ adj'[p][0] = 0 /\ adj'[p][1] = 0
      /\ val'[0] = IF val[0] + adj[p][0] >= 0 THEN val[0] + adj[p][0] ELSE 0
      /\ val'[1] = IF val[1] + adj[p][1] >= 0 THEN val[1] + adj[p][1] ELSE 0
  BY <1>0 DEF Dies, Left, Goto, SerialInv, Types, Zeros, Members
<1>2. ~Exists(p)' /\ \A q \in Procs \ {p} : Exists(q)' <=> Exists(q)
  BY <1>1 DEF Exists
<1>3. /\ \A q \in Procs \ {p} : (Using(q)' <=> Using(q)) /\ (InCs(q)' <=> InCs(q))
      /\ ~Using(p)' /\ ~InCs(p)'
  BY <1>1, <1>2 DEF Using, Uses, InCs
<1>4. DebtRange' /\ DebtExact' /\ DebtOfSet'
  BY <1>0, <1>1, <1>2, <1>3 DEF Users, DebtRange, DebtExact, DebtOfSet
<1>5. StraysKnown' /\ LastUse'
  BY <1>0, <1>1, <1>2, <1>3 DEF Turns, StraysKnown, LastUse
<1>6. TakenBack'
  BY <1>0, <1>1, <1>3 DEF Turns, TakenBack
<1>7. Counted' /\ (val'[1] = 0 <=> val[1] = 0)
  <2>1. CASE val[1] = 0
    BY <1>0, <1>1, <2>1 DEF Users, FreshUnused, Counted
  <2>2. CASE val[1] # 0
    <3>1. Counted /\ adj[p][1] \in {-1, 0, 1} /\ adj'[p][1] \in {-1, 0, 1}
      BY <1>0, <1>1 DEF Users, DebtRange
    <3>2. /\ val[1] + (adj[p][1] - adj'[p][1]) > 0
          /\ val'[1] = val[1] + (adj[p][1] - adj'[p][1]) => Counted' /\ val'[1] # 0
      BY <1>1, <2>2, <3>1, CountMoves
    <3> QED
      BY <1>0, <1>1, <2>2, <3>2
  <2> QED
    BY <2>1, <2>2
<1>8. FreshUnused'
  BY <1>0, <1>1, <1>3, <1>7 DEF Users, FreshUnused
<1>9. CreateShape'
  <2>1. val[0] = 1 /\ ~InCs(p) => val'[0] = 1
    BY <1>0, <1>1 DEF Turns, TakenBack
  <2>2. val[1] = 0 => ~InCs(p)
    BY <1>0 DEF Users, FreshUnused, Using, Uses, InCs
  <2> QED
    BY <1>0, <1>1, <1>2, <1>7, <2>1, <2>2 DEF Turns, CreateShape
<1>10. Excludes'
  <2>1. CASE InCs(p)
    <3>1. val[1] # 0 /\ \A q \in Procs \ {p} : ~InCs(q)
      BY <1>0, <2>1 DEF Users, Turns, FreshUnused, Excludes, Using, Uses, InCs
    <3>2. val[0] = 0 /\ adj[p][0] = 1
      BY <1>0, <2>1, <3>1 DEF Turns, Excludes, TakenBack
    <3>3. val'[0] = 1 /\ \A q \in Procs : ~InCs(q)'
      BY <1>1, <1>3, <3>1, <3>2
    <3> QED
      BY <3>3 DEF Excludes
  <2>2. CASE ~InCs(p)
    <3>1. adj[p][0] = 0 /\ \A q \in Procs : InCs(q)' <=> InCs(q)
      BY <1>0, <1>3, <2>2 DEF Turns, TakenBack
    <3>2. val[1] # 0 => val[0] \in {0, 1}
      BY <1>0 DEF Turns, Excludes
    <3>3. val[1] # 0 => val'[0] = val[0]
      BY <1>1, <3>1, <3>2
    <3> QED
      BY <1>0, <1>7, <3>1, <3>3 DEF Turns, Excludes
  <2> QED
    BY <2>1, <2>2
<1> QED
  BY <1>4, <1>5, <1>6, <1>7, <1>8, <1>9, <1>10 DEF Users, Turns

LEMMA UseInvStep == ASSUME FewProcesses, UseInv, [SemNext]_semVars PROVE UseInv'
<1>0. SerialInv'
  BY SerialInvStep DEF UseInv
<1>1. CASE UNCHANGED semVars
  <2>1. /\ \A q \in Procs : Exists(q)' <=> Exists(q)
        /\ \A q \in Procs : (Using(q)' <=> Using(q)) /\ (InCs(q)' <=> InCs(q))
    BY <1>1 DEF semVars, Exists, Using, Uses, InCs
  <2>2. (CreateShape /\ StraysKnown /\ LastUse)'
    BY <1>1, <2>1 DEF semVars, UseInv, Turns, CreateShape, StraysKnown, LastUse
  <2> QED
    BY <1>0, <1>1, <2>1, <2>2, QuietUse DEF semVars, UseInv
<1>2. ASSUME NEW p \in Procs,
             \/ CallCreate(p) \/ LockTake(p) \/ LockSleep(p) \/ LockAgain(p) \/ LockLost(p)
             \/ CheckFresh(p) \/ CreateLost(p) \/ CallClose(p) \/ Unlock(p)
      PROVE  Users' /\ Turns'
  BY <1>2, QuietActions
<1>3. ASSUME NEW p \in Procs, OpenTake(p) \/ SemWait(p) \/ SemSignal(p) \/ CloseTake(p)
      PROVE  Users' /\ Turns'
  BY <1>3, QuietActions, CountStep, TurnStep
<1>4. ASSUME NEW p \in Procs, EndCreate(p) PROVE Users' /\ Turns'
  BY <1>4, CountStep
<1>5. ASSUME NEW p \in Procs, Initialise(p) \/ SemGet(p) \/ SemRm(p) \/ CallOpen(p)
      PROVE  Users' /\ Turns'
  BY <1>5, InitialiseUse, SemGetUse, SemRmUse, CallOpenUse
<1>6. ASSUME NEW p \in Procs, CloseCount(p) PROVE Users' /\ Turns'
  BY <1>6, CloseCountStep
<1>7. ASSUME NEW p \in Procs, Dies(p) \/ CloseDumps(p) PROVE Users' /\ Turns'
  BY <1>7, DieUse DEF CloseDumps
<1>8. ASSUME NEW p \in Procs, NEW r \in Procs, ForkFrom(p, r) PROVE Users' /\ Turns'
  BY <1>8, ForkUse
<1>9. Users' /\ Turns'
  BY <1>1, <1>2, <1>3, <1>4, <1>5, <1>6, <1>7, <1>8 DEF SemNext, Creates, Closes, UseInv
<1> QED
  BY <1>0, <1>9 DEF UseInv

LEMMA UseInvariants == FewProcesses => (SemSpec => []UseInv)
<1> SUFFICES ASSUME FewProcesses PROVE SemSpec => []UseInv
  OBVIOUS
<1>1. SemInit => UseInv
  <2> SUFFICES ASSUME SemInit PROVE UseInv
    OBVIOUS
  <2>1. \A q \in Procs : ~Exists(q) /\ ~Using(q) /\ ~InCs(q)
    BY DEF SemInit, Exists, Using, InCs
  <2>2. val[1] = 0 /\ \A q \in Procs : adj[q][0] = 0 /\ adj[q][1] = 0
    BY DEF SemInit, Zeros, Members
  <2>3. Users
    BY <2>1, <2>2 DEF Users, DebtRange, DebtExact, DebtOfSet, Counted, FreshUnused
  <2>4. Turns
    BY <2>1, <2>2 DEF Turns, CreateShape, TakenBack, Excludes, StraysKnown, LastUse
  <2> QED
    BY <2>3, <2>4, SerialInvInit DEF UseInv
<1>2. UseInv /\ [SemNext]_semVars => UseInv'
  BY UseInvStep
<1> QED
  BY <1>1, <1>2, PTL DEF SemSpec

(* The semaphore excludes: no death, no process that initialises the set   *)
(* again, no set removed and created anew lets two processes in together.  *)
THEOREM SemaphoreExcludes == FewProcesses => (SemSpec => []UseExclusive)
<1> SUFFICES ASSUME FewProcesses PROVE SemSpec => []UseExclusive
  OBVIOUS
<1>1. UseInv => UseExclusive
  BY DEF UseInv, Turns, Excludes, InCs, UseExclusive
<1> QED
  BY <1>1, UseInvariants, PTL

(* The counter counts the users, forked children aside, through deaths,    *)
(* failed calls and removals.                                              *)
THEOREM UsersAreCounted == FewProcesses => (SemSpec => []CountsUsers)
<1> SUFFICES ASSUME FewProcesses PROVE SemSpec => []CountsUsers
  OBVIOUS
<1>1. UseInv => CountsUsers
  BY DEF UseInv, Users, Counted, DebtExact, Using, CountsUsers
<1> QED
  BY <1>1, UseInvariants, PTL

(* A set that processes only got by creating it is removed by its last     *)
(* user, and by nobody else.                                               *)
THEOREM OnlyUnusedRemoved == FewProcesses => (SemSpec => RemovedUnused)
<1> SUFFICES ASSUME FewProcesses PROVE SemSpec => RemovedUnused
  OBVIOUS
<1> DEFINE Rule == key # 0 /\ key' # key /\ key \notin strays
                     => \A p \in Procs : id[p] = key => ~Uses(p)
<1>1. UseInv /\ [SemNext]_semVars => [Rule]_semVars
  <2> SUFFICES ASSUME UseInv, [SemNext]_semVars, key # 0, key' # key, key \notin strays,
                      NEW q \in Procs, id[q] = key
               PROVE  ~Uses(q)
    OBVIOUS
  <2>1. PICK p \in Procs : SemRm(p)
    BY DEF SemNext, Creates, Closes, CallCreate, SemGet, LockTake, LockSleep, LockAgain,
       LockLost, CheckFresh, Initialise, EndCreate, CreateLost, CallOpen, OpenTake, SemWait,
       SemSignal, CallClose, CloseTake, CloseCount, CloseDumps, Unlock, Dies, Left, ForkFrom,
       Change, Fails, SetVal, semVars
  <2>2. Exists(p) /\ pc[p] = "rm"
    BY <2>1 DEF SemRm
  <2> QED
    BY <2>2 DEF UseInv, Turns, LastUse, Using, Exists
<1> QED
  BY <1>1, UseInvariants, PTL DEF SemSpec, RemovedUnused
=============================================================================
