----------------------------- MODULE ChatProofs -----------------------------
(***************************************************************************)
(* Proofs about Chat, for any sets of processes, names and commands and    *)
(* any table size.                                                         *)
(***************************************************************************)
EXTENDS Chat, ConnLockProofs

(* The acting half of every operation is a body of the lock. *)
LEMMA ActIsBody ==
  ASSUME NEW p \in Procs, Act(p)
  PROVE  \E targets \in SUBSET Procs : Body(p, targets)
<1>1. ASSUME NEW S, NEW own PROVE Pids(S, own) \in SUBSET Procs
  BY DEF Pids
<1>2. CASE ActRegister(p)
  BY <1>1, <1>2 DEF ActRegister
<1>3. CASE ActName(p)
  BY <1>1, <1>3 DEF ActName
<1>4. CASE ActTell(p)
  BY <1>1, <1>4 DEF ActTell
<1>5. ASSUME NEW text, NEW from, ActSpread(p, text, from)
      PROVE  \E targets \in SUBSET Procs : Body(p, targets)
  BY <1>1, <1>5 DEF ActSpread
<1>6. CASE ActWho(p)
  BY <1>6 DEF ActWho
<1>7. CASE ActDisconnect(p)
  BY <1>1, <1>7 DEF ActDisconnect
<1>. QED
  BY <1>2, <1>3, <1>4, <1>5, <1>6, <1>7 DEF Act

(* A step of the server is a step of the lock, or leaves the lock alone. *)
LEMMA ChatStepIsLockStep ==
  ASSUME [ChatNext]_vars
  PROVE  [LockNext]_lockVars
<1> USE DEF LockNext, MainStep, HandlerStep
<1>1. ASSUME NEW p \in Procs, Connect(p) \/ CallRegister(p) \/ EnterShell(p) \/ CallCommand(p)
      PROVE  LockNext
  BY <1>1 DEF Connect, CallRegister, EnterShell, CallCommand
<1>2. ASSUME NEW p \in Procs, LockStep(p) PROVE LockNext
  BY <1>2 DEF LockStep
<1>3. ASSUME NEW p \in Procs, Lookup(p) \/ HandlerPrint(p) PROVE UNCHANGED lockVars
  BY <1>3 DEF Lookup, HandlerPrint, lockVars
<1>4. ASSUME NEW p \in Procs, HandlerClear(p) PROVE LockNext
  BY <1>4 DEF HandlerClear
<1>5. ASSUME NEW p \in Procs, Act(p) PROVE LockNext
  <2>1. \E targets \in SUBSET Procs : Body(p, targets)
    BY <1>5, ActIsBody
  <2>. QED
    BY <2>1
<1>6. ASSUME NEW p \in Procs, LeaveShell(p) \/ Crash(p) PROVE LockNext
  BY <1>6 DEF LeaveShell, Crash, Ended
<1>7. CASE MasterEnds /\ MasterExit /\ UNCHANGED chatVars
  BY <1>7
<1>8. CASE UNCHANGED vars
  BY <1>8 DEF vars, lockVars
<1>. QED
  BY <1>1, <1>2, <1>3, <1>4, <1>5, <1>6, <1>7, <1>8 DEF ChatNext, Work

(* The server uses conn_lock and conn_unlock as ConnLock says: what is     *)
(* proved of the lock holds of the server.                                 *)
THEOREM ChatUsesLock == ChatSpec => LockSpec
<1>1. ChatInit => LockInit
  BY DEF ChatInit
<1>2. [ChatNext]_vars => [LockNext]_lockVars
  BY ChatStepIsLockStep
<1>. QED
  BY <1>1, <1>2, PTL DEF ChatSpec, LockSpec

(* The operations on the client table exclude each other until a semop()   *)
(* fails and is ignored.                                                   *)
THEOREM ChatExcludes == ChatSpec => []ExclusionUnlessFailed
BY ChatUsesLock, LockExcludes, PTL
-----------------------------------------------------------------------------
(* The client table.  SlotShape ties the program counters to the operation *)
(* and the slot of a process and holds in every state; SlotCore ties the   *)
(* slots to the table and needs the lock to exclude.                       *)

SlotTypes ==
  /\ owner \in [Slots -> Procs \cup {None}]
  /\ slot \in [Procs -> 0 .. MaxClient]
  /\ op \in [Procs -> Commands \cup {Idle, Register, Exit}]
  /\ found \in [Procs -> NotYet .. MaxClient + 1]
  /\ max_id \in 0 .. MaxClient

SlotShape ==
  \A p \in Procs :
    /\ found[p] # NotYet => pc[p] = "cs"
    /\ pc[p] = "none" => slot[p] = 0
    /\ op[p].cmd = "register" => slot[p] = 0
    /\ op[p].cmd \notin {"idle", "register"} => slot[p] # 0

(* A slot a registering process has found is still free, and scanned. *)
FoundFree ==
  \A p \in Procs : op[p].cmd = "register" /\ found[p] \in Slots
    => owner[found[p]] = None /\ found[p] <= max_id

OwnSlot == \A p \in Procs : InSession(p) => owner[slot[p]] = p

Scanned == \A s \in Valid : s <= max_id

SlotCore == ~failed => FoundFree /\ OwnSlot /\ Scanned

SlotInv == TypeAndMask /\ LockInv /\ SlotTypes /\ SlotShape /\ SlotCore

(* The lock only ever goes from "no failure" to "failure". *)
LEMMA FailedStays ==
  ASSUME TypeAndMask, [LockNext]_lockVars
  PROVE  failed => failed'
<1> SUFFICES ASSUME failed PROVE failed'
  OBVIOUS
<1>1. CASE UNCHANGED failed
  BY <1>1
<1>2. CASE failed' = TRUE
  BY <1>2
<1>3. UNCHANGED failed \/ failed' = TRUE
  BY LockCases DEF Fork, LockCall, SemTake, SemSleep, SemInterrupted, SemGone, MaskSignal,
     SemSignal, UnmaskSignal, UnblockSigMsg, HandlerStart, HandlerTake, HandlerGone,
     HandlerBody, HandlerSignal, HandlerReturn, Die, Body, MasterExit, lockVars,
     Down, Up, Ignored
<1>. QED
  BY <1>1, <1>2, <1>3

(* Steps of the lock alone: how they move the program counters. *)
LEMMA LockMoves ==
  ASSUME TypeAndMask,
         \/ \E p \in Procs : LockStep(p) \/ EnterShell(p)
         \/ MasterExit /\ UNCHANGED chatVars
         \/ UNCHANGED vars
  PROVE  /\ UNCHANGED chatVars
         /\ \A q \in Procs :
              \/ pc'[q] = pc[q]
              \/ pc[q] \in {"wait", "sleep"} /\ pc'[q] \in {"sleep", "locked"}
              \/ pc[q] = "locked" /\ pc'[q] = "cs"
              \/ pc[q] = "done" /\ pc'[q] = "after"
              \/ pc[q] = "after" /\ pc'[q] = "run"
<1>1. pc \in [Procs -> PCs]
  BY DEF TypeAndMask, LockTypeOK
<1>2. ASSUME NEW p \in Procs, LockStep(p)
      PROVE  /\ UNCHANGED chatVars
             /\ \A q \in Procs \ {p} : pc'[q] = pc[q]
             /\ \/ pc'[p] = pc[p]
                \/ pc[p] \in {"wait", "sleep"} /\ pc'[p] \in {"sleep", "locked"}
                \/ pc[p] = "locked" /\ pc'[p] = "cs"
                \/ pc[p] = "done" /\ pc'[p] = "after"
                \/ pc[p] = "after" /\ pc'[p] = "run"
  BY <1>1, <1>2 DEF LockStep, SemTake, SemSleep, SemInterrupted, SemGone, MaskSignal,
     SemSignal, UnmaskSignal, HandlerStart, HandlerTake, HandlerGone, HandlerSignal,
     HandlerReturn
<1>. QED
  BY <1>2 DEF EnterShell, UnblockSigMsg, MasterExit, vars, lockVars
(* What the commands are called. *)
LEMMA OperationNames ==
  /\ Idle.cmd = "idle" /\ Register.cmd = "register" /\ Exit.cmd = "exit"
  /\ \A c \in Commands : c.cmd \in Cmds /\ (c.cmd = "exit" => c = Exit)
<1>1. Idle.cmd = "idle" /\ Register.cmd = "register" /\ Exit.cmd = "exit"
  BY DEF Idle, Register, Exit, Operation
<1>2. ASSUME NEW c \in Commands PROVE c.cmd \in Cmds /\ (c.cmd = "exit" => c = Exit)
  <2>1. CASE c \in {Operation(d, NoName, 0) : d \in Cmds \ {"name", "tell"}}
    BY <2>1 DEF Operation, Exit
  <2>2. CASE c \in {Operation("name", n, 0) : n \in IF "name" \in Cmds THEN Names ELSE {}}
    BY <2>2 DEF Operation
  <2>3. CASE c \in {Operation("tell", NoName, s) :
                       s \in IF "tell" \in Cmds THEN 0 .. MaxClient + 1 ELSE {}}
    BY <2>3 DEF Operation
  <2>. QED
    BY <1>2, <2>1, <2>2, <2>3 DEF Commands
<1>. QED
  BY <1>1, <1>2

(* Steps of one command that keep the table, the slots and the operations: *)
(* what the acting halves but register and exit, and the handler, do.      *)
LEMMA ActKinds ==
  ASSUME NEW p \in Procs, Act(p)
  PROVE  /\ found[p] # NotYet /\ found' = [found EXCEPT ![p] = NotYet]
         /\ op' = [op EXCEPT ![p] = IF @.cmd = "exit" THEN @ ELSE Idle]
         /\ pc[p] = "cs" /\ pc' = [pc EXCEPT ![p] = "done"]
         /\ UNCHANGED <<max_id, failed>>
         /\ \/ op[p].cmd = "register" /\ ActRegister(p)
            \/ op[p].cmd = "exit" /\ ActDisconnect(p)
            \/ op[p].cmd \notin {"register", "exit"} /\ UNCHANGED <<owner, slot>>
<1>1. \E targets \in SUBSET Procs : Body(p, targets)
  BY ActIsBody
<1>2. pc[p] = "cs" /\ pc' = [pc EXCEPT ![p] = "done"] /\ UNCHANGED failed
  BY <1>1 DEF Body
<1>3. /\ found[p] # NotYet /\ found' = [found EXCEPT ![p] = NotYet]
      /\ op' = [op EXCEPT ![p] = IF @.cmd = "exit" THEN @ ELSE Idle]
      /\ UNCHANGED max_id
  BY DEF Act
<1>4. \/ op[p].cmd = "register" /\ ActRegister(p)
      \/ op[p].cmd = "exit" /\ ActDisconnect(p)
      \/ op[p].cmd \notin {"register", "exit"} /\ UNCHANGED <<owner, slot>>
  BY DEF Act, ActName, ActTell, ActSpread, ActWho
<1>. QED
  BY <1>2, <1>3, <1>4

(* The reading half, as far as the table is concerned. *)
LEMMA LookupKinds ==
  ASSUME NEW p \in Procs, Lookup(p), SlotTypes
  PROVE  /\ pc[p] = "cs" /\ UNCHANGED <<lockVars, owner, slot, op>>
         /\ \E f \in 0 .. MaxClient + 1 :
              /\ found' = [found EXCEPT ![p] = f]
              /\ \/ UNCHANGED max_id /\ (op[p].cmd = "register" => f \notin Slots)
                 \/ f \in FreeSlots /\ RaiseMaxId(f)
<1> USE DEF Slots, SlotTypes
<1>1. pc[p] = "cs" /\ UNCHANGED <<lockVars, owner, slot, op>>
  BY DEF Lookup
<1>2. CASE op[p].cmd = "register" /\ FindEmptySlot(p)
  <2>1. CASE FreeSlots = {}
    BY <1>1, <1>2, <2>1, ChatAssumption DEF FindEmptySlot
  <2>2. CASE FreeSlots # {}
    <3>1. PICK s \in FreeSlots : found' = [found EXCEPT ![p] = s] /\ RaiseMaxId(s)
      BY <1>2, <2>2 DEF FindEmptySlot
    <3>2. s \in 0 .. MaxClient + 1
      BY ChatAssumption DEF FreeSlots
    <3>. QED
      BY <1>1, <3>1, <3>2
  <2>. QED
    BY <2>1, <2>2
<1>3. ASSUME NEW f \in {0, 1}, found' = [found EXCEPT ![p] = f], UNCHANGED max_id,
             op[p].cmd # "register"
      PROVE  \E g \in 0 .. MaxClient + 1 :
               /\ found' = [found EXCEPT ![p] = g]
               /\ \/ UNCHANGED max_id /\ (op[p].cmd = "register" => g \notin Slots)
                  \/ g \in FreeSlots /\ RaiseMaxId(g)
  <2>1. f \in 0 .. MaxClient + 1
    BY ChatAssumption
  <2>. QED
    BY <1>3, <2>1
<1>4. CASE op[p].cmd = "name" /\ CheckNameExist(p)
  <2>1. CASE NameTaken(op[p].name)
    BY <1>1, <1>3, <1>4, <2>1, Zenon DEF CheckNameExist
  <2>2. CASE ~NameTaken(op[p].name)
    BY <1>1, <1>3, <1>4, <2>2, Zenon DEF CheckNameExist
  <2>. QED
    BY <2>1, <2>2
<1>5. CASE op[p].cmd = "tell" /\ CheckTarget(p)
  <2>1. CASE op[p].to \in Valid
    BY <1>1, <1>3, <1>5, <2>1, Zenon DEF CheckTarget
  <2>2. CASE op[p].to \notin Valid
    BY <1>1, <1>3, <1>5, <2>2, Zenon DEF CheckTarget
  <2>. QED
    BY <2>1, <2>2
<1>6. CASE /\ op[p].cmd \notin {"register", "name", "tell"}
           /\ found' = [found EXCEPT ![p] = 0]
           /\ UNCHANGED <<max_id, overrun>>
  BY <1>1, <1>3, <1>6
<1>. QED
  BY <1>2, <1>4, <1>5, <1>6 DEF Lookup
LockOnly ==
  \/ \E p \in Procs : LockStep(p) \/ EnterShell(p)
  \/ MasterExit /\ UNCHANGED chatVars
  \/ UNCHANGED vars

(* The handler changes neither the table nor a program counter. *)
HandlerOnly ==
  UNCHANGED <<pc, failed, owner, slot, op, found, max_id>>

(* The cases of a step, as the proofs about the client table tell them     *)
(* apart.                                                                  *)
LEMMA ChatCases ==
  ASSUME [ChatNext]_vars
  PROVE  \/ LockOnly
         \/ HandlerOnly
         \/ \E p \in Procs : \/ Connect(p) \/ CallRegister(p) \/ CallCommand(p)
                             \/ Lookup(p) \/ Act(p) \/ Ended(p)
<1>1. ASSUME NEW p \in Procs, HandlerPrint(p) \/ HandlerClear(p) PROVE HandlerOnly
  BY <1>1 DEF HandlerPrint, HandlerClear, HandlerBody, HandlerOnly, lockVars
<1>. QED
  BY <1>1 DEF ChatNext, Work, LeaveShell, Crash, LockOnly

LEMMA SlotTypesStep ==
  ASSUME SlotTypes, SlotShape, TypeAndMask, [ChatNext]_vars
  PROVE  SlotTypes'
<1> USE DEF SlotTypes
<1>1. CASE LockOnly
  BY <1>1, LockMoves DEF LockOnly, chatVars, Slots, Commands, Idle, Register, Exit, Operation
<1>2. CASE HandlerOnly
  BY <1>2 DEF HandlerOnly
<1>3. ASSUME NEW p \in Procs, Connect(p) PROVE SlotTypes'
  BY <1>3 DEF Connect, chatVars
<1>4. ASSUME NEW p \in Procs, CallRegister(p) \/ CallCommand(p) PROVE SlotTypes'
  BY <1>4 DEF CallRegister, CallCommand
<1>5. ASSUME NEW p \in Procs, Lookup(p) PROVE SlotTypes'
  <2>1. UNCHANGED <<owner, slot, op>>
    BY <1>5, LookupKinds
  <2>2. PICK f \in 0 .. MaxClient + 1 :
          /\ found' = [found EXCEPT ![p] = f]
          /\ UNCHANGED max_id \/ (f \in FreeSlots /\ RaiseMaxId(f))
    BY <1>5, LookupKinds
  <2>3. found' \in [Procs -> NotYet .. MaxClient + 1]
    BY <2>2, ChatAssumption DEF NotYet
  <2>4. max_id' \in 0 .. MaxClient
    BY <2>2, ChatAssumption DEF FreeSlots, Slots, RaiseMaxId
  <2>. QED
    BY <2>1, <2>3, <2>4
<1>6. ASSUME NEW p \in Procs, Act(p) PROVE SlotTypes'
  <2>1. /\ found' = [found EXCEPT ![p] = NotYet] /\ UNCHANGED max_id
        /\ op' = [op EXCEPT ![p] = IF @.cmd = "exit" THEN @ ELSE Idle]
    BY <1>6, ActKinds
  <2>2. found' \in [Procs -> NotYet .. MaxClient + 1]
    BY <2>1, ChatAssumption DEF NotYet
  <2>3. op' \in [Procs -> Commands \cup {Idle, Register, Exit}]
    BY <2>1
  <2>4. owner' \in [Slots -> Procs \cup {None}] /\ slot' \in [Procs -> 0 .. MaxClient]
    <3>1. CASE UNCHANGED <<owner, slot>>
      BY <3>1
    <3>2. CASE ActRegister(p)
      BY <3>2, ChatAssumption DEF ActRegister, Slots
    <3>3. CASE ActDisconnect(p)
      BY <3>3 DEF ActDisconnect
    <3>. QED
      BY <1>6, ActKinds, <3>1, <3>2, <3>3
  <2>. QED
    BY <2>1, <2>2, <2>3, <2>4
<1>7. ASSUME NEW p \in Procs, Ended(p) PROVE SlotTypes'
  BY <1>7, ChatAssumption DEF Ended, NotYet
<1>. QED
  BY ChatCases, <1>1, <1>2, <1>3, <1>4, <1>5, <1>6, <1>7

LEMMA SlotShapeStep ==
  ASSUME SlotTypes, SlotShape, TypeAndMask, [ChatNext]_vars
  PROVE  SlotShape'
<1> USE OperationNames DEF SlotTypes, SlotShape
<1>0. pc \in [Procs -> PCs]
  BY DEF TypeAndMask, LockTypeOK
<1>1. CASE LockOnly
  BY <1>1, LockMoves DEF LockOnly, chatVars
<1>2. CASE HandlerOnly
  BY <1>2 DEF HandlerOnly
<1>3. ASSUME NEW p \in Procs, Connect(p) PROVE SlotShape'
  BY <1>0, <1>3 DEF Connect, Fork, chatVars
<1>4. ASSUME NEW p \in Procs, CallRegister(p) PROVE SlotShape'
  BY <1>0, <1>4 DEF CallRegister, LockCall
<1>5. ASSUME NEW p \in Procs, CallCommand(p) PROVE SlotShape'
  <2>1. PICK c \in Commands : op' = [op EXCEPT ![p] = c]
    BY <1>5 DEF CallCommand
  <2>2. c.cmd # "register"
    BY ChatAssumption
  <2>. QED
    BY <1>0, <1>5, <2>1, <2>2 DEF CallCommand, LockCall
<1>6. ASSUME NEW p \in Procs, Lookup(p) PROVE SlotShape'
  BY <1>6, LookupKinds DEF lockVars
<1>7. ASSUME NEW p \in Procs, Act(p) PROVE SlotShape'
  <2>1. /\ found' = [found EXCEPT ![p] = NotYet]
        /\ op' = [op EXCEPT ![p] = IF @.cmd = "exit" THEN @ ELSE Idle]
        /\ pc[p] = "cs" /\ pc' = [pc EXCEPT ![p] = "done"]
    BY <1>7, ActKinds
  <2>4. ActRegister(p) \/ UNCHANGED slot
    BY <1>7, ActKinds DEF ActDisconnect
  <2>2. \A q \in Procs \ {p} : slot'[q] = slot[q]
    BY <2>4 DEF ActRegister, SlotTypes
  <2>3. slot'[p] = slot[p] \/ op[p].cmd = "register"
    BY <1>7, ActKinds DEF ActDisconnect
  <2>. QED
    BY <1>0, <2>1, <2>2, <2>3
<1>8. ASSUME NEW p \in Procs, Ended(p) PROVE SlotShape'
  BY <1>0, <1>8 DEF Ended, Die
<1>. QED
  BY ChatCases, <1>1, <1>2, <1>3, <1>4, <1>5, <1>6, <1>7, <1>8
(* Nobody else is inside the body while p is. *)
LEMMA AloneInBody ==
  ASSUME LockInv, ~failed, NEW p \in Procs, pc[p] = "cs",
         NEW q \in Procs, pc[q] \in {"locked", "cs", "done"}
  PROVE  q = p
BY DEF LockInv, Exclusive, In, MainIn

LEMMA SlotCoreStep ==
  ASSUME SlotInv, [ChatNext]_vars, ~failed'
  PROVE  FoundFree' /\ OwnSlot' /\ Scanned'
<1> USE DEF SlotTypes
<1>0. /\ pc \in [Procs -> PCs]
      /\ SlotTypes /\ SlotTypes' /\ SlotShape /\ SlotShape' /\ LockInv /\ ~failed
      /\ FoundFree /\ OwnSlot /\ Scanned
  BY FailedStays, ChatStepIsLockStep, SlotTypesStep, SlotShapeStep
     DEF SlotInv, SlotCore, TypeAndMask, LockTypeOK
<1>1. CASE LockOnly
  <2>1. UNCHANGED chatVars /\ \A q \in Procs : InSession(q)' => InSession(q)
    BY <1>1, LockMoves DEF LockOnly, SlotInv, InSession, Alive, chatVars
  <2>. QED
    BY <1>0, <2>1 DEF chatVars, FoundFree, OwnSlot, Scanned, Valid
<1>2. CASE HandlerOnly
  BY <1>0, <1>2 DEF HandlerOnly, FoundFree, OwnSlot, Scanned, Valid, InSession, Alive
<1>3. ASSUME NEW p \in Procs, Connect(p) PROVE FoundFree' /\ OwnSlot' /\ Scanned'
  BY <1>0, <1>3
     DEF Connect, Fork, chatVars, FoundFree, OwnSlot, Scanned, Valid, InSession, Alive, SlotShape
<1>4. ASSUME NEW p \in Procs, CallRegister(p) \/ CallCommand(p)
      PROVE  FoundFree' /\ OwnSlot' /\ Scanned'
  <2>1. UNCHANGED <<owner, slot, found, max_id>> /\ found[p] = NotYet
    BY <1>0, <1>4 DEF CallRegister, CallCommand, LockCall, SlotShape
  <2>2. /\ pc[p] = "run" /\ op[p] = Idle
        /\ \A q \in Procs \ {p} : op'[q] = op[q] /\ pc'[q] = pc[q]
    BY <1>0, <1>4 DEF CallRegister, CallCommand, LockCall
  <2>3. Idle # Exit
    BY OperationNames
  <2>4. \A q \in Procs : InSession(q)' => InSession(q)
    BY <1>0, <2>1, <2>2, <2>3 DEF InSession, Alive
  <2>5. NotYet \notin Slots
    BY ChatAssumption DEF NotYet, Slots
  <2>6. FoundFree'
    BY <1>0, <2>1, <2>2, <2>5 DEF FoundFree
  <2>. QED
    BY <1>0, <2>1, <2>4, <2>6 DEF OwnSlot, Scanned, Valid
<1>5. ASSUME NEW p \in Procs, Lookup(p) PROVE FoundFree' /\ OwnSlot' /\ Scanned'
  <2>1. pc[p] = "cs" /\ UNCHANGED <<lockVars, owner, slot, op>>
    BY <1>0, <1>5, LookupKinds
  <2>2. PICK f \in 0 .. MaxClient + 1 :
          /\ found' = [found EXCEPT ![p] = f]
          /\ \/ UNCHANGED max_id /\ (op[p].cmd = "register" => f \notin Slots)
             \/ f \in FreeSlots /\ RaiseMaxId(f)
    BY <1>0, <1>5, LookupKinds
  <2>3. max_id' >= max_id /\ (f \in FreeSlots /\ RaiseMaxId(f) => f <= max_id')
    BY <1>0, <2>2, ChatAssumption DEF RaiseMaxId, FreeSlots, Slots
  <2>4. FoundFree'
    <3> SUFFICES ASSUME NEW q \in Procs, op[q].cmd = "register", found'[q] \in Slots
                 PROVE  owner[found'[q]] = None /\ found'[q] <= max_id'
      BY <2>1 DEF FoundFree
    <3>1. CASE q = p
      BY <1>0, <2>2, <2>3, <3>1 DEF FreeSlots
    <3>2. CASE q # p
      BY <1>0, <2>2, <2>3, <3>2, ChatAssumption DEF FoundFree, Slots
    <3>. QED
      BY <3>1, <3>2
  <2>5. OwnSlot'
    BY <1>0, <2>1 DEF OwnSlot, InSession, Alive, lockVars
  <2>6. Scanned'
    BY <1>0, <2>1, <2>3, ChatAssumption DEF Scanned, Valid, Slots
  <2>. QED
    BY <2>4, <2>5, <2>6
<1>6. ASSUME NEW p \in Procs, Act(p) PROVE FoundFree' /\ OwnSlot' /\ Scanned'
  <2>1. /\ found[p] # NotYet /\ found' = [found EXCEPT ![p] = NotYet]
        /\ op' = [op EXCEPT ![p] = IF @.cmd = "exit" THEN @ ELSE Idle]
        /\ pc[p] = "cs" /\ pc' = [pc EXCEPT ![p] = "done"]
        /\ UNCHANGED max_id
    BY <1>6, ActKinds
  <2>2. \A q \in Procs \ {p} : found[q] = NotYet /\ found'[q] = NotYet
    BY <1>0, <2>1, AloneInBody DEF SlotShape
  <2>3. FoundFree'
    BY <1>0, <2>1, <2>2, ChatAssumption DEF FoundFree, Slots, NotYet
  <2>4. \A q \in Procs \ {p} : pc'[q] = pc[q] /\ op'[q] = op[q]
    BY <1>0, <2>1
  <2>5. CASE UNCHANGED <<owner, slot>> /\ op[p].cmd # "exit"
    <3>1. \A q \in Procs : InSession(q)' => InSession(q)
      BY <1>0, <2>1, <2>4, <2>5 DEF InSession, Alive
    <3>. QED
      BY <1>0, <2>1, <2>3, <2>5, <3>1 DEF OwnSlot, Scanned, Valid
  <2>6. CASE op[p].cmd = "register" /\ ActRegister(p)
    <3>1. /\ found[p] \in Slots /\ owner' = [owner EXCEPT ![found[p]] = p]
          /\ slot' = [slot EXCEPT ![p] = found[p]]
      BY <2>6 DEF ActRegister
    <3>2. owner[found[p]] = None /\ found[p] <= max_id
      BY <1>0, <2>6, <3>1 DEF FoundFree
    <3>3. OwnSlot'
      <4> SUFFICES ASSUME NEW q \in Procs, InSession(q)' PROVE owner'[slot'[q]] = q
        BY DEF OwnSlot
      <4>1. CASE q = p
        BY <1>0, <3>1, <4>1
      <4>2. CASE q # p
        <5>1. InSession(q) /\ slot'[q] = slot[q]
          BY <1>0, <2>4, <3>1, <4>2 DEF InSession, Alive
        <5>2. owner[slot[q]] = q /\ slot[q] \in Slots
          BY <1>0, <5>1 DEF OwnSlot, InSession, Slots
        <5>. QED
          BY <1>0, <3>1, <3>2, <5>1, <5>2, ChatAssumption
      <4>. QED
        BY <4>1, <4>2
    <3>4. Scanned'
      BY <1>0, <2>1, <3>1, <3>2 DEF Scanned, Valid
    <3>. QED
      BY <2>3, <3>3, <3>4
  <2>7. CASE op[p].cmd = "exit" /\ ActDisconnect(p)
    <3>1. owner' = [owner EXCEPT ![slot[p]] = None] /\ UNCHANGED slot
      BY <2>7 DEF ActDisconnect
    <3>2. op[p] = Exit /\ op'[p] = Exit /\ slot[p] # 0
      BY <1>0, <2>1, <2>7, OperationNames DEF SlotShape
    <3>3. InSession(p) /\ ~InSession(p)'
      BY <1>0, <2>1, <3>2 DEF InSession, Alive
    <3>4. OwnSlot'
      <4> SUFFICES ASSUME NEW q \in Procs, InSession(q)' PROVE owner'[slot[q]] = q
        BY <3>1 DEF OwnSlot
      <4>1. q # p
        BY <3>3
      <4>2. InSession(q)
        BY <1>0, <2>4, <3>1, <4>1 DEF InSession, Alive
      <4>3. slot[q] # slot[p]
        BY <1>0, <3>3, <4>1, <4>2 DEF OwnSlot
      <4>. QED
        BY <1>0, <3>1, <4>2, <4>3 DEF OwnSlot, InSession, Slots
    <3>5. Scanned'
      BY <1>0, <2>1, <3>1 DEF Scanned, Valid
    <3>. QED
      BY <2>3, <3>4, <3>5
  <2>. QED
    BY <1>6, ActKinds, <2>5, <2>6, <2>7
<1>7. ASSUME NEW p \in Procs, Ended(p) PROVE FoundFree' /\ OwnSlot' /\ Scanned'
  <2>1. /\ UNCHANGED <<owner, max_id>> /\ pc' = [pc EXCEPT ![p] = "dead"]
        /\ slot' = [slot EXCEPT ![p] = 0] /\ op' = [op EXCEPT ![p] = Idle]
        /\ found' = [found EXCEPT ![p] = NotYet]
    BY <1>7 DEF Ended, Die
  <2>2. FoundFree'
    BY <1>0, <2>1, OperationNames DEF FoundFree
  <2>3. OwnSlot'
    BY <1>0, <2>1 DEF OwnSlot, InSession, Alive
  <2>. QED
    BY <1>0, <2>1, <2>2, <2>3 DEF Scanned, Valid
<1>. QED
  BY ChatCases, <1>1, <1>2, <1>3, <1>4, <1>5, <1>6, <1>7

LEMMA SlotInvariants == ChatSpec => []SlotInv
<1>1. ChatInit => SlotInv
  <2> SUFFICES ASSUME ChatInit PROVE SlotInv
    OBVIOUS
  <2>1. LockInit
    BY DEF ChatInit
  <2>2. TypeAndMask
    BY <2>1, TypeAndMaskInit
  <2>3. LockInv
    BY <2>1 DEF LockInit, LockInv, UndoCounts, SemCounts, Exclusive, In, MainIn, HandlerIn
  <2>4. SlotTypes
    BY ChatAssumption DEF ChatInit, SlotTypes, NotYet
  <2>5. SlotShape /\ FoundFree
    BY OperationNames, ChatAssumption DEF ChatInit, SlotShape, FoundFree, Slots, NotYet
  <2>6. OwnSlot /\ Scanned
    BY <2>1 DEF ChatInit, LockInit, OwnSlot, InSession, Alive, Scanned, Valid
  <2>. QED
    BY <2>2, <2>3, <2>4, <2>5, <2>6 DEF SlotInv, SlotCore
<1>2. SlotInv /\ [ChatNext]_vars => SlotInv'
  <2> SUFFICES ASSUME SlotInv, [ChatNext]_vars PROVE SlotInv'
    OBVIOUS
  <2>1. (TypeAndMask /\ LockInv)'
    BY ChatStepIsLockStep, TypeAndMaskStep, LockInvStep DEF SlotInv
  <2>2. (SlotTypes /\ SlotShape)'
    BY SlotTypesStep, SlotShapeStep DEF SlotInv
  <2>3. SlotCore'
    BY SlotCoreStep DEF SlotCore
  <2>. QED
    BY <2>1, <2>2, <2>3 DEF SlotInv
<1>. QED
  BY <1>1, <1>2, PTL DEF ChatSpec

(* The slot of every session holds its own pid: no two sessions, and no    *)
(* newcomer, are ever given the same entry of the table.                   *)
THEOREM SlotsAreExclusive == ChatSpec => []SlotExclusive
<1>1. SlotInv => SlotExclusive
  BY DEF SlotInv, SlotCore, OwnSlot, SlotExclusive
<1>. QED
  BY <1>1, SlotInvariants, PTL

(* The scans that stop at max_id miss no slot in use. *)
THEOREM ScansAreComplete == ChatSpec => []ScanCoversTable
<1>1. SlotInv => ScanCoversTable
  BY DEF SlotInv, SlotCore, Scanned, ScanCoversTable
<1>. QED
  BY <1>1, SlotInvariants, PTL

(* A slot in use only changes hands by its own session leaving it. *)
THEOREM SlotsAreKept == ChatSpec => SlotKept
<1>1. SlotInv /\ [ChatNext]_vars => [KeepsSlots]_vars
  <2> SUFFICES ASSUME SlotInv, [ChatNext]_vars, ~failed', NEW s \in Slots,
                      owner[s] # None, owner'[s] # owner[s]
               PROVE  owner'[s] = None /\ op[owner[s]] = Exit
    BY DEF KeepsSlots
  <2>1. SlotTypes /\ SlotShape /\ FoundFree /\ OwnSlot /\ ~failed
    BY FailedStays, ChatStepIsLockStep DEF SlotInv, SlotCore
  <2>2. ASSUME NEW p \in Procs, Act(p) PROVE owner'[s] = None /\ op[owner[s]] = Exit
    <3>1. CASE op[p].cmd = "register" /\ ActRegister(p)
      <4>1. found[p] \in Slots /\ owner' = [owner EXCEPT ![found[p]] = p]
        BY <3>1 DEF ActRegister
      <4>. QED
        BY <2>1, <3>1, <4>1 DEF SlotTypes, FoundFree
    <3>2. CASE op[p].cmd = "exit" /\ ActDisconnect(p)
      <4>1. owner' = [owner EXCEPT ![slot[p]] = None]
        BY <3>2 DEF ActDisconnect
      <4>2. s = slot[p] /\ owner'[s] = None
        BY <2>1, <4>1 DEF SlotTypes
      <4>3. pc[p] = "cs" /\ op[p] = Exit /\ slot[p] # 0
        BY <2>1, <2>2, <3>2, ActKinds, OperationNames DEF SlotTypes, SlotShape
      <4>4. InSession(p)
        BY <4>3 DEF InSession, Alive
      <4>. QED
        BY <2>1, <4>2, <4>3, <4>4 DEF OwnSlot
    <3>. QED
      BY <2>2, ActKinds, <3>1, <3>2
  <2>3. CASE UNCHANGED owner
    BY <2>3
  <2>4. CASE LockOnly
    BY <2>4, LockMoves DEF LockOnly, chatVars, SlotInv
  <2>5. ASSUME NEW p \in Procs, Connect(p) \/ CallRegister(p) \/ CallCommand(p) \/ Ended(p)
        PROVE  UNCHANGED owner
    BY <2>5 DEF Connect, CallRegister, CallCommand, Ended, chatVars
  <2>6. ASSUME NEW p \in Procs, Lookup(p) PROVE UNCHANGED owner
    BY <2>6 DEF Lookup
  <2>. QED
    BY ChatCases, <2>2, <2>3, <2>4, <2>5, <2>6 DEF HandlerOnly
<1>. QED
  BY <1>1, SlotInvariants, PTL DEF ChatSpec, SlotKept
-----------------------------------------------------------------------------
(* The message queues.  MailTypes holds in every state; the two properties *)
(* of the queues are inductive with it, with SlotInv (a message goes to    *)
(* the pid its slot names) and with the place of the printing handler.     *)

MailTypes ==
  /\ nick \in [Slots -> {NoName} \cup {Stored[n] : n \in Names}]
  /\ queue \in [Slots -> Seq(Message)]
  /\ \A s \in Slots : Len(queue[s]) <= MaxUnread
  /\ seen \in [Procs -> NotYet .. MaxUnread]
  /\ overrun \in BOOLEAN

(* Only a handler inside its critical section has printed and not cleared. *)
SeenShape == \A p \in Procs : seen[p] # NotYet => hpc[p] = "cs"

MailInv == SlotInv /\ MailTypes /\ SeenShape /\ NoLostWakeup /\ ClearsOnlyPrinted

(* add_message keeps a queue within its array, and only ever lengthens it. *)
LEMMA AddedKeepsBound ==
  ASSUME NEW q \in Seq(Message), Len(q) <= MaxUnread, NEW m \in Message
  PROVE  /\ Added(q, m) \in Seq(Message)
         /\ Len(Added(q, m)) <= MaxUnread
BY ChatAssumption DEF Added

(* The name of a "name" operation is one that clients type. *)
LEMMA TypedNames ==
  ASSUME NEW c \in Commands \cup {Idle, Register, Exit}, c.cmd = "name"
  PROVE  c.name \in Names
<1>1. c \in Commands
  BY OperationNames
<1>2. CASE c \in {Operation(d, NoName, 0) : d \in Cmds \ {"name", "tell"}}
  BY <1>2 DEF Operation
<1>3. CASE c \in {Operation("name", n, 0) : n \in IF "name" \in Cmds THEN Names ELSE {}}
  BY <1>3 DEF Operation
<1>4. CASE c \in {Operation("tell", NoName, s) :
                     s \in IF "tell" \in Cmds THEN 0 .. MaxClient + 1 ELSE {}}
  BY <1>4 DEF Operation
<1>. QED
  BY <1>1, <1>2, <1>3, <1>4 DEF Commands

(* How an operation changes the queues: it posts one message to a set of   *)
(* slots and signals the pids those slots name, or leaves the queues alone. *)
LEMMA ActPosts ==
  ASSUME NEW p \in Procs, Act(p)
  PROVE  \/ UNCHANGED queue /\ Body(p, {})
         \/ \E S, own : \E text \in Texts, from \in Procs \cup {None} :
              /\ Post(S, own, text, from) /\ Body(p, Pids(S, own))
              /\ own \in {owner, owner'}
<1> USE DEF Texts
<1>1. CASE ActRegister(p)
  BY <1>1 DEF ActRegister
<1>2. CASE ActName(p)
  BY <1>2 DEF ActName
<1>3. CASE ActTell(p)
  BY <1>3 DEF ActTell
<1>4. CASE ActSpread(p, "yell", p)
  BY <1>4 DEF ActSpread
<1>5. CASE ActSpread(p, "info", None)
  BY <1>5 DEF ActSpread
<1>6. CASE ActWho(p)
  BY <1>6 DEF ActWho
<1>7. CASE ActDisconnect(p)
  BY <1>7 DEF ActDisconnect
<1>. QED
  BY <1>1, <1>2, <1>3, <1>4, <1>5, <1>6, <1>7 DEF Act

LEMMA MailTypesStep ==
  ASSUME SlotTypes, SlotTypes', SlotShape, MailTypes, [ChatNext]_vars
  PROVE  MailTypes'
<1> USE DEF MailTypes
<1>1. CASE UNCHANGED <<nick, queue, seen, overrun>>
  BY <1>1
<1>2. ASSUME NEW p \in Procs, Lookup(p) PROVE MailTypes'
  <2>1. UNCHANGED <<nick, queue, seen>>
    BY <1>2 DEF Lookup
  <2>2. UNCHANGED overrun \/ overrun' \in BOOLEAN
    BY <1>2 DEF Lookup, FindEmptySlot, CheckNameExist, CheckTarget
  <2>. QED
    BY <2>1, <2>2
<1>3. ASSUME NEW p \in Procs, Act(p) PROVE MailTypes'
  <2>1. UNCHANGED <<seen, overrun>>
    BY <1>3 DEF Act
  <2>2. nick' \in [Slots -> {NoName} \cup {Stored[n] : n \in Names}]
    <3>1. CASE UNCHANGED nick
      BY <3>1
    <3>2. CASE op[p].cmd = "name" /\ nick' = [nick EXCEPT ![slot[p]] = Stored[op[p].name]]
      <4>1. op[p].name \in Names
        BY <3>2, TypedNames DEF SlotTypes
      <4>. QED
        BY <3>2, <4>1
    <3>3. CASE nick' = [nick EXCEPT ![slot[p]] = NoName]
      BY <3>3
    <3>. QED
      BY <1>3, <3>1, <3>2, <3>3
         DEF Act, ActRegister, ActName, ActTell, ActSpread, ActWho, ActDisconnect
  <2>3. queue' \in [Slots -> Seq(Message)] /\ \A s \in Slots : Len(queue'[s]) <= MaxUnread
    <3>1. CASE UNCHANGED queue
      BY <3>1
    <3>2. ASSUME NEW S, NEW own, NEW text \in Texts, NEW from \in Procs \cup {None},
                 Post(S, own, text, from), own \in {owner, owner'}
          PROVE  queue' \in [Slots -> Seq(Message)]
                 /\ \A s \in Slots : Len(queue'[s]) <= MaxUnread
      <4> DEFINE m(s) == [text |-> text, from |-> from, to |-> own[s]]
      <4>1. \A s \in Slots : m(s) \in Message
        BY <3>2 DEF Message, SlotTypes
      <4>2. \A s \in Slots : /\ Added(queue[s], m(s)) \in Seq(Message)
                             /\ Len(Added(queue[s], m(s))) <= MaxUnread
        BY <4>1, AddedKeepsBound
      <4>3. queue' = [s \in Slots |-> IF s \in S THEN Added(queue[s], m(s)) ELSE queue[s]]
        BY <3>2 DEF Post
      <4> HIDE DEF m
      <4>. QED
        BY <4>2, <4>3
    <3>. QED
      BY <1>3, ActPosts, <3>1, <3>2
  <2>. QED
    BY <2>1, <2>2, <2>3
<1>4. ASSUME NEW p \in Procs, Ended(p) PROVE MailTypes'
  <2>1. UNCHANGED <<nick, queue, overrun>> /\ seen' = [seen EXCEPT ![p] = NotYet]
    BY <1>4 DEF Ended
  <2>2. NotYet \in NotYet .. MaxUnread
    BY ChatAssumption DEF NotYet
  <2>. QED
    BY <2>1, <2>2
<1>5. ASSUME NEW p \in Procs, HandlerPrint(p) PROVE MailTypes'
  <2>1. slot[p] \in Slots
    BY <1>5, ChatAssumption DEF HandlerPrint, SlotTypes, Slots
  <2>2. Len(queue[slot[p]]) \in NotYet .. MaxUnread
    BY <2>1, ChatAssumption DEF NotYet
  <2>. QED
    BY <1>5, <2>2 DEF HandlerPrint
<1>6. ASSUME NEW p \in Procs, HandlerClear(p) PROVE MailTypes'
  <2>1. /\ queue' = [queue EXCEPT ![slot[p]] = <<>>] /\ seen' = [seen EXCEPT ![p] = NotYet]
        /\ UNCHANGED <<nick, overrun>>
    BY <1>6 DEF HandlerClear
  <2>2. NotYet \in NotYet .. MaxUnread
    BY ChatAssumption DEF NotYet
  <2>3. <<>> \in Seq(Message) /\ Len(<<>>) = 0
    OBVIOUS
  <2>4. \A s \in Slots : queue'[s] = <<>> \/ queue'[s] = queue[s]
    BY <2>1
  <2>5. queue' \in [Slots -> Seq(Message)]
    BY <2>1, <2>3
  <2>6. \A s \in Slots : Len(queue'[s]) <= MaxUnread
    BY <2>3, <2>4, ChatAssumption
  <2>. QED
    BY <2>1, <2>2, <2>5, <2>6
<1>. QED
  BY <1>1, <1>2, <1>3, <1>4, <1>5, <1>6 
     DEF ChatNext, Work, LockStep, Connect, CallRegister, EnterShell, CallCommand,
         LeaveShell, Crash, chatVars, vars

(* Only registering brings a process into its session; nothing but the end *)
(* of the session moves it to another slot.                                *)
LEMMA SessionMoves ==
  ASSUME TypeAndMask, SlotTypes, SlotShape, [ChatNext]_vars, NEW q \in Procs, InSession(q)'
  PROVE  \/ InSession(q) /\ slot'[q] = slot[q]
         \/ Act(q) /\ op[q].cmd = "register" /\ ActRegister(q)
<1> USE DEF InSession, Alive, SlotTypes
<1>0. pc \in [Procs -> PCs]
  BY DEF TypeAndMask, LockTypeOK
<1>1. CASE LockOnly
  BY <1>1, LockMoves DEF LockOnly, chatVars
<1>2. CASE HandlerOnly
  BY <1>2 DEF HandlerOnly
<1>3. ASSUME NEW p \in Procs, Connect(p) PROVE InSession(q) /\ slot'[q] = slot[q]
  BY <1>0, <1>3 DEF Connect, Fork, chatVars, SlotShape
<1>4. ASSUME NEW p \in Procs, CallRegister(p) \/ CallCommand(p)
      PROVE  InSession(q) /\ slot'[q] = slot[q]
  <2>1. UNCHANGED slot /\ pc[p] = "run" /\ op[p] = Idle /\ Idle # Exit
        /\ \A r \in Procs \ {p} : op'[r] = op[r] /\ pc'[r] = pc[r]
    BY <1>0, <1>4, OperationNames DEF CallRegister, CallCommand, LockCall
  <2>. QED
    BY <1>0, <2>1
<1>5. ASSUME NEW p \in Procs, Lookup(p) PROVE InSession(q) /\ slot'[q] = slot[q]
  BY <1>5 DEF Lookup, lockVars
<1>6. ASSUME NEW p \in Procs, Act(p)
      PROVE  (InSession(q) /\ slot'[q] = slot[q]) \/ (Act(q) /\ op[q].cmd = "register" /\ ActRegister(q))
  <2>1. /\ op' = [op EXCEPT ![p] = IF @.cmd = "exit" THEN @ ELSE Idle]
        /\ pc[p] = "cs" /\ pc' = [pc EXCEPT ![p] = "done"]
    BY <1>6, ActKinds
  <2>2. (op[p].cmd = "register" /\ ActRegister(p)) \/ UNCHANGED slot
    BY <1>6, ActKinds DEF ActDisconnect
  <2>3. \A r \in Procs \ {p} : slot'[r] = slot[r]
    BY <2>2 DEF ActRegister
  <2>4. CASE q = p
    BY <1>0, <1>6, <2>1, <2>2, <2>4
  <2>5. CASE q # p
    BY <1>0, <2>1, <2>3, <2>5
  <2>. QED
    BY <2>4, <2>5
<1>7. ASSUME NEW p \in Procs, Ended(p) PROVE InSession(q) /\ slot'[q] = slot[q]
  BY <1>0, <1>7 DEF Ended, Die
<1>. QED
  BY ChatCases, <1>1, <1>2, <1>3, <1>4, <1>5, <1>6, <1>7

(* Steps that leave the queues and the handlers' bodies alone. *)
Quiet ==
  \/ \E p \in Procs : \/ Connect(p) \/ CallRegister(p) \/ EnterShell(p) \/ CallCommand(p)
                      \/ LockStep(p) \/ Lookup(p)
  \/ MasterExit /\ UNCHANGED chatVars
  \/ UNCHANGED vars

LEMMA MailCases ==
  ASSUME [ChatNext]_vars
  PROVE  \/ Quiet
         \/ \E p \in Procs : Act(p) \/ Ended(p) \/ HandlerPrint(p) \/ HandlerClear(p)
BY DEF ChatNext, Work, LeaveShell, Crash, Quiet

(* A quiet step takes a pending signal away only to start the handler, and *)
(* moves no handler out of its critical section.                           *)
LEMMA QuietMoves ==
  ASSUME TypeAndMask, Quiet, NEW q \in Procs
  PROVE  /\ UNCHANGED <<owner, nick, queue, seen, slot>>
         /\ (pending[q] => pending'[q]) \/ hpc'[q] = "wait"
         /\ \/ hpc'[q] = hpc[q]
            \/ hpc'[q] = "wait" /\ hpc[q] = "none"
            \/ hpc'[q] = "cs" /\ hpc[q] = "wait"
            \/ hpc[q] \in {"done", "after"} /\ hpc'[q] \in {"after", "none"}
<1> DEFINE Moves ==
         /\ (pending[q] => pending'[q]) \/ hpc'[q] = "wait"
         /\ \/ hpc'[q] = hpc[q]
            \/ hpc'[q] = "wait" /\ hpc[q] = "none"
            \/ hpc'[q] = "cs" /\ hpc[q] = "wait"
            \/ hpc[q] \in {"done", "after"} /\ hpc'[q] \in {"after", "none"}
<1>0. /\ hpc \in [Procs -> HPCs] /\ pending \in [Procs -> BOOLEAN]
  BY DEF TypeAndMask, LockTypeOK
<1>1. UNCHANGED <<owner, nick, queue, seen, slot>>
  BY DEF Quiet, Connect, CallRegister, EnterShell, CallCommand, LockStep, Lookup,
     chatVars, vars
<1>2. ASSUME NEW p \in Procs,
             \/ Connect(p) \/ CallRegister(p) \/ EnterShell(p) \/ CallCommand(p) \/ Lookup(p)
             \/ SemTake(p) \/ SemSleep(p) \/ SemGone(p)
             \/ MaskSignal(p) \/ SemSignal(p) \/ UnmaskSignal(p)
      PROVE  Moves
  BY <1>2 DEF Connect, Fork, CallRegister, CallCommand, LockCall, EnterShell,
     UnblockSigMsg, Lookup, lockVars, SemTake, SemSleep, SemGone, MaskSignal, SemSignal,
     UnmaskSignal
<1>3. ASSUME NEW p \in Procs, SemInterrupted(p) PROVE Moves
  BY <1>0, <1>3 DEF SemInterrupted, Ignored, TypeAndMask, HandlerPlace
<1>4. ASSUME NEW p \in Procs, HandlerStart(p) PROVE Moves
  BY <1>0, <1>4 DEF HandlerStart
<1>5. ASSUME NEW p \in Procs, HandlerTake(p) \/ HandlerGone(p) PROVE Moves
  BY <1>0, <1>5 DEF HandlerTake, HandlerGone
<1>6. ASSUME NEW p \in Procs, HandlerSignal(p) \/ HandlerReturn(p) PROVE Moves
  BY <1>0, <1>6 DEF HandlerSignal, HandlerReturn
<1>7. ASSUME MasterExit \/ UNCHANGED vars PROVE Moves
  BY <1>7 DEF MasterExit, lockVars, vars
<1>8. Moves
  BY <1>2, <1>3, <1>4, <1>5, <1>6, <1>7 DEF Quiet, LockStep
<1>. QED
  BY <1>1, <1>8

LEMMA SeenShapeStep ==
  ASSUME TypeAndMask, MailTypes, SeenShape, [ChatNext]_vars
  PROVE  SeenShape'
<1> SUFFICES ASSUME NEW q \in Procs, seen'[q] # NotYet PROVE hpc'[q] = "cs"
  BY DEF SeenShape
<1>0. /\ seen \in [Procs -> NotYet .. MaxUnread] /\ hpc \in [Procs -> HPCs]
      /\ seen[q] # NotYet => hpc[q] = "cs"
  BY DEF TypeAndMask, LockTypeOK, MailTypes, SeenShape
<1>1. CASE Quiet
  BY <1>0, <1>1, QuietMoves
<1>2. ASSUME NEW p \in Procs, Act(p) PROVE hpc'[q] = "cs"
  <2>1. UNCHANGED <<seen, hpc>>
    BY <1>2, ActIsBody DEF Act, Body
  <2>. QED
    BY <1>0, <2>1
<1>3. ASSUME NEW p \in Procs, Ended(p) PROVE hpc'[q] = "cs"
  BY <1>0, <1>3 DEF Ended, Die
<1>4. ASSUME NEW p \in Procs, HandlerPrint(p) PROVE hpc'[q] = "cs"
  BY <1>0, <1>4 DEF HandlerPrint, lockVars
<1>5. ASSUME NEW p \in Procs, HandlerClear(p) PROVE hpc'[q] = "cs"
  BY <1>0, <1>5 DEF HandlerClear, HandlerBody
<1>. QED
  BY MailCases, <1>1, <1>2, <1>3, <1>4, <1>5

(* A main program inside the body and a handler inside its own exclude     *)
(* each other, and so do two handlers.                                     *)
LEMMA NoHandlerBeside ==
  ASSUME LockInv, ~failed, NEW p \in Procs, NEW q \in Procs, hpc[q] = "cs"
  PROVE  pc[p] # "cs" /\ (hpc[p] = "cs" => p = q)
BY DEF LockInv, Exclusive, In, MainIn, HandlerIn

LEMMA ClearsStep ==
  ASSUME MailInv, [ChatNext]_vars
  PROVE  ClearsOnlyPrinted'
<1> SUFFICES ASSUME ~failed', NEW q \in Procs, hpc'[q] = "cs", seen'[q] # NotYet
             PROVE  Len(queue'[slot'[q]]) = seen'[q]
  BY DEF ClearsOnlyPrinted
<1>0. /\ seen \in [Procs -> NotYet .. MaxUnread] /\ hpc \in [Procs -> HPCs]
      /\ SlotTypes /\ TypeAndMask /\ LockInv /\ ~failed
      /\ seen[q] # NotYet => hpc[q] = "cs"
      /\ hpc[q] = "cs" /\ seen[q] # NotYet => Len(queue[slot[q]]) = seen[q]
  BY FailedStays, ChatStepIsLockStep
     DEF MailInv, SlotInv, TypeAndMask, LockTypeOK, MailTypes, SeenShape, ClearsOnlyPrinted
<1>1. CASE Quiet
  BY <1>0, <1>1, QuietMoves
<1>2. ASSUME NEW p \in Procs, Act(p) PROVE FALSE
  <2>1. UNCHANGED <<seen, hpc>> /\ pc[p] = "cs"
    BY <1>2, ActIsBody DEF Act, Body
  <2>. QED
    BY <1>0, <2>1, NoHandlerBeside
<1>3. ASSUME NEW p \in Procs, Ended(p) PROVE Len(queue'[slot'[q]]) = seen'[q]
  <2>1. q # p
    BY <1>0, <1>3 DEF Ended, Die
  <2>. QED
    BY <1>0, <1>3, <2>1 DEF Ended, SlotTypes
<1>4. ASSUME NEW p \in Procs, HandlerPrint(p) PROVE Len(queue'[slot'[q]]) = seen'[q]
  BY <1>0, <1>4 DEF HandlerPrint
<1>5. ASSUME NEW p \in Procs, HandlerClear(p) PROVE FALSE
  <2>1. hpc[p] = "cs" /\ seen' = [seen EXCEPT ![p] = NotYet]
    BY <1>5 DEF HandlerClear, HandlerBody
  <2>2. q # p /\ hpc[q] = "cs"
    BY <1>0, <2>1
  <2>. QED
    BY <1>0, <2>1, <2>2, NoHandlerBeside
<1>. QED
  BY MailCases, <1>1, <1>2, <1>3, <1>4, <1>5

(* The wake-up of a message: whoever queues it signals the pid in the      *)
(* slot, which is the pid of the session that has the slot.                *)
LEMMA WakeupStep ==
  ASSUME MailInv, SlotInv', [ChatNext]_vars
  PROVE  NoLostWakeup'
<1> SUFFICES ASSUME ~failed', NEW q \in Procs, InSession(q)', queue'[slot'[q]] # <<>>
             PROVE  pending'[q] \/ hpc'[q] \in {"wait", "cs"}
  BY DEF NoLostWakeup
<1>0. /\ hpc \in [Procs -> HPCs] /\ pending \in [Procs -> BOOLEAN]
      /\ SlotTypes /\ SlotTypes' /\ SlotShape /\ TypeAndMask /\ LockInv /\ ~failed
      /\ OwnSlot /\ OwnSlot'
      /\ InSession(q) /\ queue[slot[q]] # <<>> => pending[q] \/ hpc[q] \in {"wait", "cs"}
  BY FailedStays, ChatStepIsLockStep
     DEF MailInv, SlotInv, SlotCore, TypeAndMask, LockTypeOK, NoLostWakeup
<1>3. \/ InSession(q) /\ slot'[q] = slot[q] /\ slot[q] \in Slots
      \/ Act(q) /\ op[q].cmd = "register" /\ ActRegister(q)
  BY <1>0, SessionMoves DEF SlotTypes, Slots, InSession
<1>1. CASE Act(q) /\ op[q].cmd = "register" /\ ActRegister(q)
  <2>1. PICK S : /\ Post(S, owner', "info", None) /\ Body(q, Pids(S, owner'))
                 /\ found[q] \in S
    BY <1>1 DEF ActRegister
  <2>2. found[q] \in Slots /\ owner' = [owner EXCEPT ![found[q]] = q]
    BY <1>1 DEF ActRegister
  <2>3. q \in Pids(S, owner') /\ Alive(q)
    BY <1>0, <2>1, <2>2 DEF Pids, SlotTypes, Body, Alive
  <2>. QED
    BY <2>1, <2>3 DEF Body, Signalled
<1>2. CASE InSession(q) /\ slot'[q] = slot[q] /\ slot[q] \in Slots
  <2>1. CASE Quiet
    BY <1>0, <1>2, <2>1, QuietMoves
  <2>2. ASSUME NEW p \in Procs, Act(p) PROVE pending'[q] \/ hpc'[q] \in {"wait", "cs"}
    <3>1. hpc' = hpc /\ (pending[q] => pending'[q])
      BY <2>2, ActIsBody DEF Body, Signalled
    <3>2. CASE queue[slot[q]] # <<>>
      <4>1. pending[q] \/ hpc[q] \in {"wait", "cs"}
        BY <1>0, <1>2, <3>2
      <4>. QED
        BY <3>1, <4>1, Zenon
    <3>3. CASE queue[slot[q]] = <<>>
      <4>1. PICK S, own, text, from :
              /\ Post(S, own, text, from) /\ Body(p, Pids(S, own))
              /\ own \in {owner, owner'}
        BY <1>2, <2>2, <3>3, ActPosts
      <4>2. slot[q] \in S
        BY <1>2, <3>3, <4>1 DEF Post
      <4>3. own[slot[q]] = q
        BY <1>0, <1>2, <4>1 DEF OwnSlot
      <4>4. q \in Pids(S, own) /\ Alive(q)
        BY <1>2, <4>2, <4>3 DEF Pids, InSession
      <4>. QED
        BY <4>1, <4>4 DEF Body, Signalled
    <3>. QED
      BY <3>2, <3>3
  <2>3. ASSUME NEW p \in Procs, Ended(p) PROVE pending'[q] \/ hpc'[q] \in {"wait", "cs"}
    <3>1. pc \in [Procs -> PCs]
      BY <1>0 DEF TypeAndMask, LockTypeOK
    <3>2. q # p
      BY <2>3, <3>1 DEF Ended, Die, InSession, Alive
    <3>. QED
      BY <1>0, <1>2, <2>3, <3>2 DEF Ended, Die
  <2>4. ASSUME NEW p \in Procs, HandlerPrint(p)
        PROVE  pending'[q] \/ hpc'[q] \in {"wait", "cs"}
    BY <1>0, <1>2, <2>4 DEF HandlerPrint, lockVars
  <2>5. ASSUME NEW p \in Procs, HandlerClear(p)
        PROVE  pending'[q] \/ hpc'[q] \in {"wait", "cs"}
    <3>1. /\ queue' = [queue EXCEPT ![slot[p]] = <<>>] /\ UNCHANGED pending
          /\ hpc' = [hpc EXCEPT ![p] = "done"]
      BY <2>5 DEF HandlerClear, HandlerBody
    <3>2. queue \in [Slots -> Seq(Message)]
      BY DEF MailInv, MailTypes
    <3>3. slot[p] # slot[q] /\ queue'[slot[q]] = queue[slot[q]]
      BY <1>2, <3>1, <3>2
    <3>. QED
      BY <1>0, <1>2, <3>1, <3>3
  <2>. QED
    BY MailCases, <2>1, <2>2, <2>3, <2>4, <2>5
<1>. QED
  BY <1>1, <1>2, <1>3

LEMMA MailInvariants == ChatSpec => []MailInv
<1>1. ChatInit /\ SlotInv => MailInv
  <2> SUFFICES ASSUME ChatInit, SlotInv PROVE MailInv
    OBVIOUS
  <2>1. MailTypes
    <3>1. <<>> \in Seq(Message) /\ Len(<<>>) = 0
      OBVIOUS
    <3>2. nick \in [Slots -> {NoName} \cup {Stored[n] : n \in Names}]
      BY DEF ChatInit
    <3>3. queue \in [Slots -> Seq(Message)] /\ \A s \in Slots : Len(queue[s]) <= MaxUnread
      BY <3>1, ChatAssumption DEF ChatInit
    <3>4. NotYet \in NotYet .. MaxUnread
      BY ChatAssumption DEF NotYet
    <3>5. seen \in [Procs -> NotYet .. MaxUnread]
      BY <3>4 DEF ChatInit
    <3>6. overrun \in BOOLEAN
      BY DEF ChatInit
    <3>. QED
      BY <3>2, <3>3, <3>5, <3>6 DEF MailTypes
  <2>2. SeenShape /\ ClearsOnlyPrinted
    BY DEF ChatInit, SeenShape, ClearsOnlyPrinted
  <2>3. NoLostWakeup
    BY DEF ChatInit, LockInit, NoLostWakeup, InSession, Alive
  <2>. QED
    BY <2>1, <2>2, <2>3 DEF MailInv
<1>2. MailInv /\ SlotInv' /\ [ChatNext]_vars => MailInv'
  <2> SUFFICES ASSUME MailInv, SlotInv', [ChatNext]_vars PROVE MailInv'
    OBVIOUS
  <2>1. MailTypes' /\ SeenShape'
    BY MailTypesStep, SeenShapeStep DEF MailInv, SlotInv
  <2>2. ClearsOnlyPrinted' /\ NoLostWakeup'
    BY ClearsStep, WakeupStep
  <2>. QED
    BY <2>1, <2>2 DEF MailInv
<1>. QED
  BY <1>1, <1>2, SlotInvariants, PTL DEF ChatSpec

(* The table, the queues and the sessions keep their types; no queue ever  *)
(* grows past the array behind it, whoever adds to it.                     *)
THEOREM ChatTypes == ChatSpec => []ChatTypeOK
<1>1. MailInv => ChatTypeOK
  BY DEF MailInv, SlotInv, SlotTypes, MailTypes, ChatTypeOK
<1>. QED
  BY <1>1, MailInvariants, PTL

(* A message in the queue of a session has a signal or a handler on the    *)
(* way to it, in every interleaving of posting, printing and clearing.     *)
THEOREM WakeupsAreKept == ChatSpec => []NoLostWakeup
<1>1. MailInv => NoLostWakeup
  BY DEF MailInv
<1>. QED
  BY <1>1, MailInvariants, PTL

(* Nothing is added between the handler's printing and its size = 0.       *)
THEOREM NothingClearedUnprinted == ChatSpec => []ClearsOnlyPrinted
<1>1. MailInv => ClearsOnlyPrinted
  BY DEF MailInv
<1>. QED
  BY <1>1, MailInvariants, PTL
-----------------------------------------------------------------------------
(* Names.  A name that is stored as it was typed is compared as it is      *)
(* stored; longer ones are not, and uniqueness fails for them.             *)
WholeNames == \A n \in Names : Stored[n] = n

(* A slot out of use has no name, so that a newcomer brings none along. *)
FreeUnnamed == \A s \in Slots : owner[s] = None => nick[s] = NoName

(* A name that change_name has found free stays free until it is taken. *)
NameFree ==
  \A p \in Procs : op[p].cmd = "name" /\ found[p] = 0
    => \A s \in Valid : nick[s] # op[p].name

NameInv == SlotInv /\ MailTypes /\ (~failed => FreeUnnamed /\ NameFree /\ UniqueNames)

(* The steps that leave the table, the names and the searches alone, but   *)
(* for the operation a process begins or loses.                            *)
LEMMA NameCases ==
  ASSUME SlotTypes, SlotShape, [ChatNext]_vars
  PROVE  \/ /\ UNCHANGED <<owner, nick>>
            /\ \A q \in Procs : found'[q] # NotYet => found'[q] = found[q] /\ op'[q] = op[q]
         \/ \E p \in Procs : Lookup(p) \/ Act(p)
<1> DEFINE Kept == /\ UNCHANGED <<owner, nick>>
                   /\ \A q \in Procs : found'[q] # NotYet
                        => found'[q] = found[q] /\ op'[q] = op[q]
<1> USE DEF SlotTypes
<1>1. ASSUME NEW p \in Procs, CallRegister(p) \/ CallCommand(p) PROVE Kept
  <2>1. pc[p] = "run" /\ UNCHANGED <<owner, nick, found>>
        /\ \A q \in Procs \ {p} : op'[q] = op[q]
    BY <1>1 DEF CallRegister, CallCommand, LockCall
  <2>2. found[p] = NotYet
    BY <2>1 DEF SlotShape
  <2>. QED
    BY <2>1, <2>2
<1>2. ASSUME NEW p \in Procs, Ended(p) PROVE Kept
  BY <1>2 DEF Ended
<1>3. ASSUME NEW p \in Procs,
             \/ Connect(p) \/ EnterShell(p) \/ LockStep(p) \/ HandlerPrint(p) \/ HandlerClear(p)
      PROVE  Kept
  BY <1>3 DEF Connect, EnterShell, LockStep, HandlerPrint, HandlerClear, chatVars
<1>4. ASSUME UNCHANGED chatVars \/ UNCHANGED vars PROVE Kept
  BY <1>4 DEF chatVars, vars
<1>5. Kept \/ \E p \in Procs : Lookup(p) \/ Act(p)
  BY <1>1, <1>2, <1>3, <1>4, MailCases DEF Quiet
<1>. QED
  BY <1>5

LEMMA NameInvStep ==
  ASSUME WholeNames, NameInv, [ChatNext]_vars, ~failed'
  PROVE  FreeUnnamed' /\ NameFree' /\ UniqueNames'
<1>0. /\ SlotTypes /\ SlotShape /\ LockInv /\ ~failed /\ MailTypes
      /\ FoundFree /\ OwnSlot /\ Scanned /\ FreeUnnamed /\ NameFree /\ UniqueNames
  BY FailedStays, ChatStepIsLockStep DEF NameInv, SlotInv, SlotCore
<1>. USE DEF SlotTypes, MailTypes
<1>1. ASSUME UNCHANGED <<owner, nick>>,
             \A q \in Procs : found'[q] # NotYet => found'[q] = found[q] /\ op'[q] = op[q]
      PROVE  FreeUnnamed' /\ NameFree' /\ UniqueNames'
  <2>1. 0 # NotYet
    BY DEF NotYet
  <2>. QED
    BY <1>0, <1>1, <2>1 DEF FreeUnnamed, NameFree, UniqueNames, Valid
<1>2. ASSUME NEW p \in Procs, Lookup(p) PROVE FreeUnnamed' /\ NameFree' /\ UniqueNames'
  <2>1. UNCHANGED <<owner, nick, op>> /\ \A q \in Procs \ {p} : found'[q] = found[q]
    BY <1>0, <1>2, LookupKinds DEF Lookup
  <2>2. ASSUME op[p].cmd = "name", found'[p] = 0
        PROVE  \A s \in Valid : nick[s] # op[p].name
    <3>1. CheckNameExist(p)
      BY <1>2, <2>2 DEF Lookup
    <3>2. ~NameTaken(op[p].name)
      BY <1>0, <2>2, <3>1 DEF CheckNameExist
    <3>3. \A s \in Valid : s <= max_id + 1
      BY <1>0, ChatAssumption DEF Scanned, Valid, Slots
    <3>. QED
      BY <3>2, <3>3 DEF NameTaken
  <2>3. NameFree'
    BY <1>0, <2>1, <2>2 DEF NameFree, Valid
  <2>. QED
    BY <1>0, <2>1, <2>3 DEF FreeUnnamed, UniqueNames, Valid
<1>3. ASSUME NEW p \in Procs, Act(p) PROVE FreeUnnamed' /\ NameFree' /\ UniqueNames'
  <2>1. /\ found[p] # NotYet /\ found' = [found EXCEPT ![p] = NotYet]
        /\ pc[p] = "cs"
    BY <1>3, ActKinds
  <2>2. \A q \in Procs : found'[q] = NotYet
    BY <1>0, <2>1, AloneInBody DEF SlotShape
  <2>3. NameFree'
    BY <2>2 DEF NameFree, NotYet
  <2>4. CASE UNCHANGED <<owner, nick>>
    BY <1>0, <2>3, <2>4 DEF FreeUnnamed, UniqueNames, Valid
  <2>5. CASE op[p].cmd = "register" /\ ActRegister(p)
    <3>1. /\ found[p] \in Slots /\ owner' = [owner EXCEPT ![found[p]] = p]
          /\ UNCHANGED nick
      BY <2>5 DEF ActRegister
    <3>2. nick[found[p]] = NoName
      BY <1>0, <2>5, <3>1 DEF FoundFree, FreeUnnamed
    <3>3. FreeUnnamed'
      BY <1>0, <3>1, ChatAssumption DEF FreeUnnamed
    <3>4. UniqueNames'
      BY <1>0, <3>1, <3>2 DEF UniqueNames, Valid
    <3>. QED
      BY <2>3, <3>3, <3>4
  <2>6. CASE op[p].cmd = "exit" /\ ActDisconnect(p)
    <3>1. /\ owner' = [owner EXCEPT ![slot[p]] = None]
          /\ nick' = [nick EXCEPT ![slot[p]] = NoName]
      BY <2>6 DEF ActDisconnect
    <3>. QED
      BY <1>0, <2>3, <3>1 DEF FreeUnnamed, UniqueNames, Valid
  <2>7. CASE /\ op[p].cmd = "name" /\ found[p] = 0 /\ UNCHANGED owner
             /\ nick' = [nick EXCEPT ![slot[p]] = Stored[op[p].name]]
    <3>1. Stored[op[p].name] = op[p].name
      BY <1>0, <2>7, TypedNames DEF WholeNames
    <3>2. \A s \in Valid : nick[s] # op[p].name
      BY <1>0, <2>7 DEF NameFree
    <3>3. InSession(p) /\ slot[p] \in Slots
      <4>1. slot[p] # 0 /\ slot[p] \in 0 .. MaxClient
        BY <1>0, <2>7 DEF SlotShape
      <4>2. InSession(p)
        BY <2>1, <4>1 DEF InSession, Alive
      <4>. QED
        BY <4>1, <4>2, ChatAssumption DEF Slots
    <3>4. owner[slot[p]] # None
      BY <1>0, <3>3, ChatAssumption DEF OwnSlot
    <3>5. FreeUnnamed'
      BY <1>0, <2>7, <3>4 DEF FreeUnnamed
    <3>6. UniqueNames'
      BY <1>0, <2>7, <3>1, <3>2 DEF UniqueNames, Valid
    <3>. QED
      BY <2>3, <3>5, <3>6
  <2>. QED
    BY <1>3, <2>4, <2>5, <2>6, <2>7 DEF Act, ActName, ActTell, ActSpread, ActWho
<1>. QED
  BY <1>0, NameCases, <1>1, <1>2, <1>3

(* change_name never lets two users go by the same name, as long as names  *)
(* fit the slot: without that, two names that are cut to the same one do.  *)
THEOREM NamesAreUnique == WholeNames => (ChatSpec => []NamesUnique)
<1> SUFFICES ASSUME WholeNames PROVE ChatSpec => []NamesUnique
  OBVIOUS
<1>1. ChatInit /\ MailInv => NameInv
  BY DEF ChatInit, MailInv, NameInv, FreeUnnamed, NameFree, UniqueNames, Valid, NotYet
<1>2. NameInv /\ MailInv' /\ [ChatNext]_vars => NameInv'
  <2> SUFFICES ASSUME NameInv, MailInv', [ChatNext]_vars PROVE NameInv'
    OBVIOUS
  <2>1. ~failed' => FreeUnnamed' /\ NameFree' /\ UniqueNames'
    BY NameInvStep
  <2>. QED
    BY <2>1 DEF NameInv, MailInv
<1>3. NameInv => NamesUnique
  BY DEF NameInv, NamesUnique
<1>. QED
  BY <1>1, <1>2, <1>3, MailInvariants, PTL DEF ChatSpec
=============================================================================
