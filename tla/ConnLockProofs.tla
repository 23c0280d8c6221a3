--------------------------- MODULE ConnLockProofs ---------------------------
(***************************************************************************)
(* Proofs about ConnLock, for any set of processes.                        *)
(*                                                                         *)
(* Two inductive invariants.  TypeAndMask holds in every state: it bounds  *)
(* the semaphore and says where a handler can be.  LockInv holds as long   *)
(* as no semop() has failed: it ties the semaphore and the undo entries to *)
(* the processes inside a critical section, which mutual exclusion alone   *)
(* does not, and is what makes exclusion and the undo after a death        *)
(* inductive.                                                              *)
(***************************************************************************)
EXTENDS ConnLock, TLAPS

In(p) == MainIn(p) \/ HandlerIn(p)

(* A handler only ever interrupts code outside the body. *)
HandlerPlace == \A p \in Procs : hpc[p] # "none" => pc[p] \in {"run", "wait", "locked"}

TypeAndMask == LockTypeOK /\ BodyUninterrupted /\ HandlerPlace

(* The undo entry of p counts the critical sections p is inside of. *)
UndoCounts == \A p \in Procs : adj[p] = IF In(p) THEN 1 ELSE 0

SemCounts ==
  /\ sem \in {0, 1}
  /\ \A p \in Procs : In(p) => sem = 0
  /\ ~removed /\ sem = 0 => \E p \in Procs : In(p)

Exclusive ==
  /\ \A p, q \in Procs : In(p) /\ In(q) => p = q
  /\ \A p \in Procs : ~(MainIn(p) /\ HandlerIn(p))

LockInv == ~failed => UndoCounts /\ SemCounts /\ Exclusive
-----------------------------------------------------------------------------
(* What each step does to the variables, in one list of cases: every proof *)
(* below that a step keeps an invariant goes through it.                   *)
LEMMA LockCases ==
  ASSUME [LockNext]_lockVars
  PROVE  \/ \E p \in Procs :
               \/ Fork(p)
               \/ LockCall(p)
               \/ SemTake(p)
               \/ SemSleep(p)
               \/ SemInterrupted(p)
               \/ SemGone(p)
               \/ MaskSignal(p)
               \/ SemSignal(p)
               \/ UnmaskSignal(p)
               \/ UnblockSigMsg(p)
               \/ HandlerStart(p)
               \/ HandlerTake(p)
               \/ HandlerGone(p)
               \/ HandlerBody(p)
               \/ HandlerSignal(p)
               \/ HandlerReturn(p)
               \/ Die(p)
               \/ \E targets \in SUBSET Procs : Body(p, targets)
         \/ MasterExit
         \/ UNCHANGED lockVars
BY DEF LockNext, MainStep, HandlerStep

LEMMA TypeAndMaskInit == LockInit => TypeAndMask
<1> SUFFICES ASSUME LockInit PROVE TypeAndMask
  OBVIOUS
<1>1. sem \in Nat /\ adj \in [Procs -> Int]
  BY DEF LockInit
<1>2. removed \in BOOLEAN /\ failed \in BOOLEAN
  BY DEF LockInit
<1>3. pc \in [Procs -> PCs] /\ hpc \in [Procs -> HPCs]
  BY DEF LockInit, PCs, HPCs
<1>4. /\ blocked \in [Procs -> BOOLEAN]
      /\ pending \in [Procs -> BOOLEAN]
      /\ allow \in [Procs -> BOOLEAN]
  BY Zenon DEF LockInit
<1>5. BodyUninterrupted /\ HandlerPlace
  BY DEF LockInit, BodyUninterrupted, HandlerPlace
<1>. QED
  BY <1>1, <1>2, <1>3, <1>4, <1>5 DEF TypeAndMask, LockTypeOK

(* sem_signal keeps the types of what it changes. *)
LEMMA UpTypes ==
  ASSUME NEW p \in Procs, Up(p), sem \in Nat, adj \in [Procs -> Int], failed \in BOOLEAN
  PROVE  sem' \in Nat /\ adj' \in [Procs -> Int] /\ failed' \in BOOLEAN
<1>1. CASE removed
  BY <1>1 DEF Up
<1>2. CASE ~removed
  <2>1. sem' \in Nat /\ adj' \in [Procs -> Int]
    BY <1>2 DEF Up
  <2>2. failed' \in BOOLEAN
    BY <1>2, Zenon DEF Up
  <2>. QED
    BY <2>1, <2>2
<1>. QED
  BY <1>1, <1>2

(* Types, where handlers run, and the uninterrupted body, step by step.    *)
LEMMA TypeAndMaskStep ==
  ASSUME TypeAndMask, [LockNext]_lockVars
  PROVE  TypeAndMask'
<1> USE DEF TypeAndMask, LockTypeOK, BodyUninterrupted, HandlerPlace, PCs, HPCs
<1>1. ASSUME NEW p \in Procs, Fork(p) PROVE TypeAndMask'
  BY <1>1 DEF Fork
<1>2. ASSUME NEW p \in Procs, LockCall(p) PROVE TypeAndMask'
  BY <1>2 DEF LockCall, Proceeds
<1>3. ASSUME NEW p \in Procs, SemTake(p) PROVE TypeAndMask'
  BY <1>3 DEF SemTake, Down
<1>4. ASSUME NEW p \in Procs, SemSleep(p) PROVE TypeAndMask'
  BY <1>4 DEF SemSleep
<1>5. ASSUME NEW p \in Procs, SemInterrupted(p) PROVE TypeAndMask'
  BY <1>5 DEF SemInterrupted, Ignored
<1>6. ASSUME NEW p \in Procs, SemGone(p) PROVE TypeAndMask'
  BY <1>6 DEF SemGone, Ignored
<1>7. ASSUME NEW p \in Procs, MaskSignal(p) PROVE TypeAndMask'
  BY <1>7 DEF MaskSignal, Proceeds
<1>8. ASSUME NEW p \in Procs, SemSignal(p) PROVE TypeAndMask'
  BY <1>8, UpTypes DEF SemSignal, Proceeds
<1>9. ASSUME NEW p \in Procs, UnmaskSignal(p) PROVE TypeAndMask'
  BY <1>9 DEF UnmaskSignal, Proceeds
<1>10. ASSUME NEW p \in Procs, UnblockSigMsg(p) PROVE TypeAndMask'
  BY <1>10 DEF UnblockSigMsg, Proceeds
<1>11. ASSUME NEW p \in Procs, HandlerStart(p) PROVE TypeAndMask'
  BY <1>11 DEF HandlerStart
<1>12. ASSUME NEW p \in Procs, HandlerTake(p) PROVE TypeAndMask'
  BY <1>12 DEF HandlerTake, Down
<1>13. ASSUME NEW p \in Procs, HandlerGone(p) PROVE TypeAndMask'
  BY <1>13 DEF HandlerGone, Ignored
<1>14. ASSUME NEW p \in Procs, HandlerBody(p) PROVE TypeAndMask'
  BY <1>14 DEF HandlerBody
<1>15. ASSUME NEW p \in Procs, HandlerSignal(p) PROVE TypeAndMask'
  BY <1>15, UpTypes DEF HandlerSignal
<1>16. ASSUME NEW p \in Procs, HandlerReturn(p) PROVE TypeAndMask'
  BY <1>16 DEF HandlerReturn
<1>17. ASSUME NEW p \in Procs, Die(p) PROVE TypeAndMask'
  BY <1>17 DEF Die, Undone, Alive
<1>18. ASSUME NEW p \in Procs, NEW targets \in SUBSET Procs, Body(p, targets)
      PROVE TypeAndMask'
  BY <1>18 DEF Body, Signalled, Proceeds, Alive
<1>19. CASE MasterExit
  BY <1>19 DEF MasterExit
<1>20. CASE UNCHANGED lockVars
  BY <1>20 DEF lockVars
<1>. QED
  BY LockCases, <1>1, <1>2, <1>3, <1>4, <1>5, <1>6, <1>7, <1>8, <1>9, <1>10, <1>11, <1>12, <1>13, <1>14, <1>15, <1>16, <1>17, <1>18, <1>19, <1>20

(* Every variable of the lock keeps its type: in particular the semaphore  *)
(* never becomes negative, whatever fails, dies or is removed.             *)
THEOREM LockTypes == LockSpec => []LockTypeOK
<1>1. LockInit => TypeAndMask
  BY TypeAndMaskInit
<1>2. TypeAndMask /\ [LockNext]_lockVars => TypeAndMask'
  BY TypeAndMaskStep
<1>3. TypeAndMask => LockTypeOK
  BY DEF TypeAndMask
<1>. QED
  BY <1>1, <1>2, <1>3, PTL DEF LockSpec

(* Between the sigprocmask() of conn_lock and the one of conn_unlock no    *)
(* handler starts in the process, even after failed semop()s.              *)
THEOREM BodyIsUninterrupted == LockSpec => []BodyUninterrupted
<1>1. LockInit => TypeAndMask
  BY TypeAndMaskInit
<1>2. TypeAndMask /\ [LockNext]_lockVars => TypeAndMask'
  BY TypeAndMaskStep
<1>3. TypeAndMask => BodyUninterrupted
  BY DEF TypeAndMask
<1>. QED
  BY <1>1, <1>2, <1>3, PTL DEF LockSpec
-----------------------------------------------------------------------------
(* Steps that move nobody in or out of a critical section. *)
LEMMA NeutralStep ==
  ASSUME LockInv, UNCHANGED <<sem, adj, removed, failed>>,
         \A q \in Procs : MainIn(q)' = MainIn(q) /\ HandlerIn(q)' = HandlerIn(q)
  PROVE  LockInv'
BY Zenon DEF LockInv, UndoCounts, SemCounts, Exclusive, In

(* p decrements the semaphore and enters, as main program or as handler.   *)
LEMMA TakeStep ==
  ASSUME NEW p \in Procs, TypeAndMask, LockInv, Down(p), UNCHANGED removed,
         In(p)', ~(MainIn(p)' /\ HandlerIn(p)'),
         \A q \in Procs \ {p} :
           MainIn(q)' = MainIn(q) /\ HandlerIn(q)' = HandlerIn(q)
  PROVE  LockInv'
<1> SUFFICES ASSUME ~failed' PROVE (UndoCounts /\ SemCounts /\ Exclusive)'
  BY DEF LockInv
<1>1. ~failed /\ adj \in [Procs -> Int]
  BY DEF Down, TypeAndMask, LockTypeOK
<1>2. sem = 1 /\ sem' = 0 /\ \A q \in Procs : ~In(q)
  BY <1>1 DEF Down, LockInv, SemCounts
<1>3. \A q \in Procs : In(q)' => q = p
  BY <1>2 DEF In
<1>4. adj[p] = 0 /\ adj' = [adj EXCEPT ![p] = @ + 1]
  BY <1>1, <1>2 DEF Down, LockInv, UndoCounts
<1>5. UndoCounts'
  <2> SUFFICES ASSUME NEW q \in Procs PROVE adj'[q] = IF In(q)' THEN 1 ELSE 0
    BY DEF UndoCounts
  <2>1. CASE q = p
    BY <1>1, <1>4, <2>1
  <2>2. CASE q # p
    BY <1>1, <1>2, <1>3, <1>4, <2>2 DEF LockInv, UndoCounts
  <2>. QED
    BY <2>1, <2>2
<1>6. SemCounts'
  BY <1>2 DEF SemCounts
<1>7. Exclusive'
  BY <1>2, <1>3 DEF Exclusive, In
<1>. QED
  BY <1>5, <1>6, <1>7

(* p increments the semaphore and leaves. *)
LEMMA ReleaseStep ==
  ASSUME NEW p \in Procs, TypeAndMask, LockInv, Up(p), UNCHANGED removed,
         In(p), ~In(p)',
         \A q \in Procs \ {p} :
           MainIn(q)' = MainIn(q) /\ HandlerIn(q)' = HandlerIn(q)
  PROVE  LockInv'
<1> SUFFICES ASSUME ~failed' PROVE (UndoCounts /\ SemCounts /\ Exclusive)'
  BY DEF LockInv
<1>1. ~failed /\ ~removed /\ sem' = sem + 1 /\ adj' = [adj EXCEPT ![p] = @ - 1]
  BY DEF Up
<1>2. adj \in [Procs -> Int]
  BY DEF TypeAndMask, LockTypeOK
<1>3. sem = 0 /\ adj[p] = 1 /\ \A q \in Procs : In(q) => q = p
  BY <1>1 DEF LockInv, UndoCounts, SemCounts, Exclusive
<1>4. \A q \in Procs : ~In(q)'
  BY <1>3 DEF In
<1>5. UndoCounts'
  <2> SUFFICES ASSUME NEW q \in Procs PROVE adj'[q] = 0
    BY <1>4 DEF UndoCounts
  <2>1. CASE q = p
    BY <1>1, <1>2, <1>3, <2>1
  <2>2. CASE q # p
    BY <1>1, <1>2, <1>3, <2>2 DEF LockInv, UndoCounts
  <2>. QED
    BY <2>1, <2>2
<1>6. SemCounts'
  BY <1>1, <1>3, <1>4 DEF SemCounts
<1>7. Exclusive'
  BY <1>4 DEF Exclusive, In
<1>. QED
  BY <1>5, <1>6, <1>7

(* p ends; the kernel gives back what its undo entry says. *)
LEMMA DieStep ==
  ASSUME NEW p \in Procs, TypeAndMask, LockInv, Die(p)
  PROVE  LockInv'
<1> SUFFICES ASSUME ~failed' PROVE (UndoCounts /\ SemCounts /\ Exclusive)'
  BY DEF LockInv
<1>1. ~failed /\ UNCHANGED removed
  BY DEF Die
<1>2. /\ adj \in [Procs -> Int] /\ adj' = [adj EXCEPT ![p] = 0]
      /\ sem' = IF removed THEN sem ELSE Undone(p)
  BY DEF TypeAndMask, LockTypeOK, Die
<1>3. UndoCounts /\ SemCounts /\ Exclusive
  BY <1>1 DEF LockInv
<1>4. ~In(p)' /\ \A q \in Procs \ {p} :
        MainIn(q)' = MainIn(q) /\ HandlerIn(q)' = HandlerIn(q)
  BY DEF Die, In, MainIn, HandlerIn, TypeAndMask, LockTypeOK
<1>5. UndoCounts'
  BY <1>2, <1>3, <1>4 DEF UndoCounts, In
<1>6. Exclusive'
  BY <1>3, <1>4 DEF Exclusive, In
<1>7. SemCounts'
  <2>1. CASE removed
    BY <1>1, <1>2, <1>3, <1>4, <2>1 DEF SemCounts, In
  <2>2. CASE ~removed /\ In(p)
    <3>1. \A q \in Procs : ~In(q)'
      BY <1>3, <1>4, <2>2 DEF Exclusive, In
    <3>2. sem' = 1
      BY <1>2, <1>3, <2>2 DEF UndoCounts, SemCounts, Undone
    <3>. QED
      BY <3>1, <3>2 DEF SemCounts
  <2>3. CASE ~removed /\ ~In(p)
    <3>1. \A q \in Procs : In(q)' = In(q)
      BY <1>4, <2>3 DEF In
    <3>2. sem' = sem
      BY <1>2, <1>3, <2>3 DEF UndoCounts, SemCounts, Undone
    <3>. QED
      BY <1>1, <1>3, <3>1, <3>2 DEF SemCounts
  <2>. QED
    BY <2>1, <2>2, <2>3
<1>. QED
  BY <1>5, <1>6, <1>7

(* Every step keeps LockInv. *)
LEMMA LockInvStep ==
  ASSUME TypeAndMask, LockInv, [LockNext]_lockVars
  PROVE  LockInv'
<1> USE DEF MainIn, HandlerIn
<1>0. pc \in [Procs -> PCs] /\ hpc \in [Procs -> HPCs]
  BY DEF TypeAndMask, LockTypeOK
<1>1. ASSUME NEW p \in Procs, Fork(p) PROVE LockInv'
  BY <1>0, <1>1, NeutralStep DEF Fork
<1>2. ASSUME NEW p \in Procs, LockCall(p) PROVE LockInv'
  BY <1>0, <1>2, NeutralStep DEF LockCall
<1>3. ASSUME NEW p \in Procs, SemTake(p) PROVE LockInv'
  BY <1>0, <1>3, TakeStep DEF SemTake, In, HandlerPlace, TypeAndMask
<1>4. ASSUME NEW p \in Procs, SemSleep(p) PROVE LockInv'
  BY <1>0, <1>4, NeutralStep DEF SemSleep
<1>5. ASSUME NEW p \in Procs, SemInterrupted(p) PROVE LockInv'
  BY <1>5 DEF SemInterrupted, Ignored, LockInv
<1>6. ASSUME NEW p \in Procs, SemGone(p) PROVE LockInv'
  BY <1>6 DEF SemGone, Ignored, LockInv
<1>7. ASSUME NEW p \in Procs, MaskSignal(p) PROVE LockInv'
  BY <1>0, <1>7, NeutralStep DEF MaskSignal
<1>8. ASSUME NEW p \in Procs, SemSignal(p) PROVE LockInv'
  BY <1>0, <1>8, ReleaseStep DEF SemSignal, In, Proceeds, HandlerPlace, TypeAndMask
<1>9. ASSUME NEW p \in Procs, UnmaskSignal(p) PROVE LockInv'
  BY <1>0, <1>9, NeutralStep DEF UnmaskSignal
<1>10. ASSUME NEW p \in Procs, UnblockSigMsg(p) PROVE LockInv'
  BY <1>0, <1>10, NeutralStep DEF UnblockSigMsg
<1>11. ASSUME NEW p \in Procs, HandlerStart(p) PROVE LockInv'
  BY <1>0, <1>11, NeutralStep DEF HandlerStart
<1>12. ASSUME NEW p \in Procs, HandlerTake(p) PROVE LockInv'
  <2>1. CASE failed
    BY <1>12, <2>1 DEF HandlerTake, Down, LockInv
  <2>2. CASE ~failed
    <3>1. ~MainIn(p)
      BY <1>12, <2>2 DEF HandlerTake, Down, LockInv, SemCounts, In
    <3>. QED
      BY <1>0, <1>12, <3>1, TakeStep DEF HandlerTake, In
  <2>. QED
    BY <2>1, <2>2
<1>13. ASSUME NEW p \in Procs, HandlerGone(p) PROVE LockInv'
  BY <1>13 DEF HandlerGone, Ignored, LockInv
<1>14. ASSUME NEW p \in Procs, HandlerBody(p) PROVE LockInv'
  BY <1>0, <1>14, NeutralStep DEF HandlerBody
<1>15. ASSUME NEW p \in Procs, HandlerSignal(p) PROVE LockInv'
  <2>1. CASE failed
    BY <1>15, <2>1 DEF HandlerSignal, Up, LockInv
  <2>2. CASE ~failed
    <3>1. ~MainIn(p)
      BY <1>15, <2>2 DEF HandlerSignal, LockInv, Exclusive
    <3>. QED
      BY <1>0, <1>15, <3>1, ReleaseStep DEF HandlerSignal, In
  <2>. QED
    BY <2>1, <2>2
<1>16. ASSUME NEW p \in Procs, HandlerReturn(p) PROVE LockInv'
  BY <1>0, <1>16, NeutralStep DEF HandlerReturn
<1>17. ASSUME NEW p \in Procs, NEW targets \in SUBSET Procs, Body(p, targets)
      PROVE LockInv'
  BY <1>0, <1>17, NeutralStep DEF Body
<1>18. ASSUME NEW p \in Procs, Die(p) PROVE LockInv'
  BY <1>18, DieStep
<1>19. CASE MasterExit
  BY <1>19 DEF MasterExit, LockInv, UndoCounts, SemCounts, Exclusive, In
<1>20. CASE UNCHANGED lockVars
  BY <1>20, NeutralStep DEF lockVars
<1>. QED
  BY LockCases, <1>1, <1>2, <1>3, <1>4, <1>5, <1>6, <1>7, <1>8, <1>9, <1>10, <1>11, <1>12, <1>13, <1>14, <1>15, <1>16, <1>17, <1>18, <1>19, <1>20

(* The two invariants hold throughout. *)
LEMMA LockInvariants == LockSpec => [](TypeAndMask /\ LockInv)
<1>1. LockInit => TypeAndMask
  BY TypeAndMaskInit
<1>2. LockInit => LockInv
  BY DEF LockInit, LockInv, UndoCounts, SemCounts, Exclusive, In, MainIn, HandlerIn
<1>3. TypeAndMask /\ LockInv /\ [LockNext]_lockVars => (TypeAndMask /\ LockInv)'
  BY TypeAndMaskStep, LockInvStep
<1>. QED
  BY <1>1, <1>2, <1>3, PTL DEF LockSpec

(* conn_lock and conn_unlock exclude main programs and handlers of all     *)
(* processes from each other until a semop() fails and is ignored.         *)
THEOREM LockExcludes == LockSpec => []ExclusionUnlessFailed
<1>1. LockInv => ExclusionUnlessFailed
  BY DEF LockInv, ExclusionUnlessFailed, MutualExclusion, Exclusive, In
<1>. QED
  BY <1>1, LockInvariants, PTL

(* SEM_UNDO: however many processes died inside the lock, it is free again *)
(* once nobody alive is inside, unless a semop() failed.                   *)
THEOREM LockSurvivesDeaths == LockSpec => []LockNeverLost
<1>1. LockInv => LockNeverLost
  BY DEF LockInv, LockNeverLost, SemCounts, In
<1>. QED
  BY <1>1, LockInvariants, PTL
=============================================================================
