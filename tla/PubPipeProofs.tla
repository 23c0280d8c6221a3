--------------------------- MODULE PubPipeProofs ---------------------------
(***************************************************************************)
(* Proofs about PubPipe, for any set of sessions, any finite set of pipes  *)
(* and any stages of lines that overlap in any way.                        *)
(*                                                                         *)
(* ClosesOwn is not inductive.  Closing the reader recorded in one entry   *)
(* must not close that of another: no two entries record, or will record,  *)
(* the same FIFO file, as a file is made for one name and never comes back *)
(* under another.  And the handler must have recorded a reader before it   *)
(* is asked to close: a pipe whose fd is not set has no reader, so its     *)
(* writer is still in its open, with pipe_lock, and nobody can remove the  *)
(* pipe (Served).                                                          *)
(*                                                                         *)
(* Without overlap more holds.  MatchInv follows a request from the cells  *)
(* through the handler, beside the session that goes on, and gives         *)
(* ReadersMatch; DataInv adds what is in the FIFO files, and under it      *)
(* every step is a step of PublicPipes.                                    *)
(***************************************************************************)
EXTENDS PubPipe, FiniteSetTheorems, TLAPS

(* Sessions at a redirection have one. *)
Redirected ==
  \A p \in Procs :
    /\ pc[p] \in {"wlock", "create", "opening"} => stage[p].out \in Ids
    /\ pc[p] \in {"rlock", "clock"} => stage[p].in \in Ids

(* The handler has the ids it works for, and no other. *)
HandlerIds ==
  /\ master \in {"open", "record", "opened"} => open_id \in Ids
  /\ master \in {"close", "closed", "forgotten"} => close_id \in Ids
  /\ master \in {"idle", "close", "closed", "forgotten"} => open_id = None
  /\ master \in {"idle", "read"} => close_id = None

TypeInv == PipeTypeOK /\ Redirected /\ (ending # "gone" => HandlerIds)

LEMMA Left ==
  ASSUME NEW f \in LeftBehind
  PROVE  /\ f \in [Ids -> 0 .. MaxFifo]
         /\ Cardinality({i \in Ids : f[i] # 0}) \in 0 .. MaxFifo
         /\ \A i \in Ids : f[i] <= Cardinality({j \in Ids : f[j] # 0})
         /\ \A i, j \in Ids : f[i] = f[j] /\ f[i] # 0 => i = j
<1>1. PICK S \in SUBSET Ids : /\ f \in [Ids -> 0 .. Cardinality(S)]
                              /\ \A i \in Ids : f[i] # 0 <=> i \in S
                              /\ \A i, j \in S : f[i] = f[j] => i = j
  BY DEF LeftBehind
<1>2. S = {i \in Ids : f[i] # 0}
  BY <1>1
<1>3. Cardinality(S) \in Nat /\ Cardinality(S) <= Cardinality(Ids) /\ Cardinality(Ids) \in Nat
  BY PipeAssumption, FS_Subset, FS_CardinalityType
<1>4. Cardinality(S) \in 0 .. MaxFifo
  BY <1>3, PipeAssumption
<1>5. f \in [Ids -> 0 .. MaxFifo]
  BY <1>1, <1>3, PipeAssumption
<1> QED
  BY <1>1, <1>2, <1>4, <1>5

LEMMA TypeInvInit == PipeInit => TypeInv
<1> SUFFICES ASSUME PipeInit PROVE TypeInv
  OBVIOUS
<1>1. EntryTypes
  BY Left DEF PipeInit, EntryTypes
<1>2. CellTypes
  BY DEF PipeInit, CellTypes
<1>3. MasterTypes
  BY PipeAssumption DEF PipeInit, MasterTypes, FIFOs
<1>4. SessionTypes
  BY PipeAssumption DEF PipeInit, SessionTypes, PCs
<1>5. DataTypes
  BY DEF PipeInit, DataTypes
<1>6. LockHeld /\ Redirected /\ HandlerIds
  BY PipeAssumption DEF PipeInit, LockHeld, Redirected, HandlerIds
<1> QED
  BY <1>1, <1>2, <1>3, <1>4, <1>5, <1>6 DEF TypeInv, PipeTypeOK

(* A stage names pipes. *)
LEMMA StageType ==
  ASSUME NEW s \in Stages \cup {NoStage}
  PROVE  s.out \in Ids \cup {None} /\ s.in \in Ids \cup {None}
<1>1. CASE s \in Stages
  <2>1. s \in [out : Ids \cup {None}, in : Ids \cup {None}, first : BOOLEAN]
    BY <1>1, PipeAssumption
  <2> QED
    BY <2>1
<1>2. CASE s = NoStage
  BY <1>2 DEF NoStage
<1> QED
  BY <1>1, <1>2

LEMMA StartTypes ==
  ASSUME TypeInv, NEW p \in Procs, Start(p)
  PROVE  TypeInv'
<1> USE DEF TypeInv, PipeTypeOK
<1>1. UNCHANGED <<lock, ioVars, cellVars, masterVars, fifoVars, dataVars>>
  BY DEF Start
<1>2. PICK s \in Stages :
        /\ stage' = [stage EXCEPT ![p] = s]
        /\ pc' = [pc EXCEPT ![p] = IF s.out # None THEN "wlock" ELSE AtInput(s)]
  BY DEF Start
<1>3. s.out \in Ids \cup {None} /\ s.in \in Ids \cup {None}
  BY StageType
<1>4. (EntryTypes /\ CellTypes /\ MasterTypes /\ DataTypes)'
  BY <1>1 DEF EntryTypes, CellTypes, MasterTypes, DataTypes, cellVars, masterVars, handlerVars,
              fifoVars, dataVars
<1>5. SessionTypes'
  BY <1>1, <1>2 DEF SessionTypes, AtInput, PCs, ioVars
<1>6. LockHeld'
  BY <1>1, <1>2 DEF LockHeld, SessionTypes, AtInput, Start, masterVars
<1>7. Redirected'
  BY <1>2, <1>3 DEF Redirected, SessionTypes, AtInput
<1>8. (ending # "gone" => HandlerIds)'
  BY <1>1 DEF masterVars, handlerVars, HandlerIds
<1> QED
  BY <1>4, <1>5, <1>6, <1>7, <1>8

LEMMA LockTypes ==
  ASSUME TypeInv, NEW p \in Procs, Lock(p)
  PROVE  TypeInv'
<1> USE DEF TypeInv, PipeTypeOK
<1>1. (EntryTypes /\ CellTypes /\ MasterTypes /\ DataTypes)'
  BY DEF Lock, EntryTypes, CellTypes, MasterTypes, DataTypes, cellVars, masterVars,
         handlerVars, fifoVars, dataVars, ioVars
<1>2. SessionTypes'
  BY DEF Lock, SessionTypes, Goto, Ends, PCs, ioVars
<1>3. LockHeld'
  BY PipeAssumption DEF Lock, LockFree, LockHeld, SessionTypes, Goto, Ends, masterVars
<1>4. Redirected'
  BY DEF Lock, Redirected, SessionTypes, Goto, Ends
<1>5. (ending # "gone" => HandlerIds)'
  BY DEF Lock, masterVars, handlerVars, HandlerIds
<1> QED
  BY <1>1, <1>2, <1>3, <1>4, <1>5

LEMMA CreateFailsTypes ==
  ASSUME TypeInv, NEW p \in Procs, CreateFails(p)
  PROVE  TypeInv'
<1> USE DEF TypeInv, PipeTypeOK
<1>1. (EntryTypes /\ CellTypes /\ MasterTypes /\ DataTypes)'
  BY DEF CreateFails, EntryTypes, CellTypes, MasterTypes, DataTypes, cellVars, masterVars,
         handlerVars, fifoVars, dataVars, ioVars
<1>2. SessionTypes'
  BY DEF CreateFails, SessionTypes, Goto, Ends, PCs, ioVars
<1>3. LockHeld'
  BY PipeAssumption DEF CreateFails, LockHeld, SessionTypes, Goto, Ends, masterVars
<1>4. Redirected'
  BY DEF CreateFails, Redirected, SessionTypes, Goto, Ends
<1>5. (ending # "gone" => HandlerIds)'
  BY DEF CreateFails, masterVars, handlerVars, HandlerIds
<1> QED
  BY <1>1, <1>2, <1>3, <1>4, <1>5

LEMMA CreateTypes ==
  ASSUME TypeInv, NEW p \in Procs, Create(p)
  PROVE  TypeInv'
<1> USE DEF TypeInv, PipeTypeOK
<1>1. (MasterTypes /\ DataTypes)'
  BY DEF Create, MasterTypes, DataTypes, cellVars, masterVars, handlerVars, fifoVars,
         dataVars, ioVars
<1>2. EntryTypes'
  BY PipeAssumption DEF Create, EntryTypes, Redirected
<1>3. CellTypes'
  BY DEF Create, CellTypes, Redirected, AskOpen
<1>4. SessionTypes'
  BY DEF Create, SessionTypes, Goto, Ends, PCs, ioVars
<1>5. LockHeld'
  BY PipeAssumption DEF Create, LockHeld, SessionTypes, Goto, Ends, masterVars
<1>6. Redirected'
  BY DEF Create, Redirected, SessionTypes, Goto, Ends
<1>7. (ending # "gone" => HandlerIds)'
  BY DEF Create, masterVars, handlerVars, HandlerIds
<1> QED
  BY <1>1, <1>2, <1>3, <1>4, <1>5, <1>6, <1>7

LEMMA OpenWriteTypes ==
  ASSUME TypeInv, NEW p \in Procs, OpenWrite(p)
  PROVE  TypeInv'
<1> USE DEF TypeInv, PipeTypeOK
<1>1. (EntryTypes /\ CellTypes /\ MasterTypes /\ DataTypes)'
  BY DEF OpenWrite, EntryTypes, CellTypes, MasterTypes, DataTypes, cellVars, masterVars,
         handlerVars, fifoVars, dataVars, ioVars
<1>2. SessionTypes'
  BY DEF OpenWrite, SessionTypes, EntryTypes, Redirected, AtInput, Goto, Ends, PCs, ioVars
<1>3. LockHeld'
  BY PipeAssumption DEF OpenWrite, LockHeld, SessionTypes, AtInput, Goto, Ends, masterVars
<1>4. Redirected'
  BY StageType DEF OpenWrite, Redirected, SessionTypes, AtInput, Goto, Ends
<1>5. (ending # "gone" => HandlerIds)'
  BY DEF OpenWrite, masterVars, handlerVars, HandlerIds
<1> QED
  BY <1>1, <1>2, <1>3, <1>4, <1>5

LEMMA OpenReadTypes ==
  ASSUME TypeInv, NEW p \in Procs, OpenRead(p)
  PROVE  TypeInv'
<1> USE DEF TypeInv, PipeTypeOK
<1>1. (EntryTypes /\ CellTypes /\ MasterTypes /\ DataTypes)'
  BY DEF OpenRead, EntryTypes, CellTypes, MasterTypes, DataTypes, cellVars, masterVars,
         handlerVars, fifoVars, dataVars, ioVars
<1>2. SessionTypes'
  BY DEF OpenRead, SessionTypes, EntryTypes, Redirected, Goto, Ends, PCs, ioVars
<1>3. LockHeld'
  BY PipeAssumption DEF OpenRead, LockHeld, SessionTypes, Goto, Ends, masterVars
<1>4. Redirected'
  BY DEF OpenRead, Redirected, SessionTypes, Goto, Ends
<1>5. (ending # "gone" => HandlerIds)'
  BY DEF OpenRead, masterVars, handlerVars, HandlerIds
<1> QED
  BY <1>1, <1>2, <1>3, <1>4, <1>5

LEMMA OpenReadFailsTypes ==
  ASSUME TypeInv, NEW p \in Procs, OpenReadFails(p)
  PROVE  TypeInv'
<1> USE DEF TypeInv, PipeTypeOK
<1>1. (EntryTypes /\ CellTypes /\ MasterTypes /\ DataTypes)'
  BY DEF OpenReadFails, EntryTypes, CellTypes, MasterTypes, DataTypes, cellVars, masterVars,
         handlerVars, fifoVars, dataVars, ioVars
<1>2. SessionTypes'
  BY PipeAssumption DEF OpenReadFails, SessionTypes, Goto, Ends, PCs, ioVars
<1>3. LockHeld'
  BY PipeAssumption DEF OpenReadFails, LockHeld, SessionTypes, Goto, Ends, masterVars
<1>4. Redirected'
  BY DEF OpenReadFails, Redirected, SessionTypes, Goto, Ends
<1>5. (ending # "gone" => HandlerIds)'
  BY DEF OpenReadFails, masterVars, handlerVars, HandlerIds
<1> QED
  BY <1>1, <1>2, <1>3, <1>4, <1>5

LEMMA RunTypes ==
  ASSUME TypeInv, NEW p \in Procs, Run(p)
  PROVE  TypeInv'
<1> USE DEF TypeInv, PipeTypeOK
<1>1. (EntryTypes /\ CellTypes /\ MasterTypes)'
  BY DEF Run, EntryTypes, CellTypes, MasterTypes, cellVars, masterVars, handlerVars,
         fifoVars, dataVars, ioVars
<1>2. SessionTypes'
  BY PipeAssumption DEF Run, SessionTypes, Goto, Ends, PCs, ioVars
<1>3. LockHeld'
  BY PipeAssumption DEF Run, LockHeld, SessionTypes, Goto, Ends, masterVars
<1>4. Redirected'
  BY StageType DEF Run, Redirected, SessionTypes, Goto, Ends
<1>5. DataTypes'
  <2>1. sent' \in Nat /\ sent <= sent' /\ (wfd[p] # 0 => sent' = sent + 1)
    BY DEF Run, DataTypes, SessionTypes
  <2>2. rfd[p] \in 0 .. MaxFifo
    BY DEF SessionTypes
  <2>3. got' \subseteq 1 .. sent'
    <3>1. \A f \in {rfd[p]} \ {0} : buffer[f] \subseteq 1 .. sent
      BY <2>2 DEF DataTypes, FIFOs
    <3>2. got' \subseteq 1 .. sent
      BY <3>1 DEF Run, DataTypes
    <3> QED
      BY <2>1, <3>2 DEF DataTypes
  <2>4. ASSUME NEW f \in FIFOs
        PROVE  (IF f = rfd[p] THEN {} ELSE buffer[f])
                 \cup (IF f = wfd[p] /\ HasReader(f) THEN {sent'} ELSE {}) \subseteq 1 .. sent'
    <3>1. buffer[f] \subseteq 1 .. sent'
      BY <2>1 DEF DataTypes
    <3>2. f = wfd[p] => sent' \in 1 .. sent'
      BY <2>1, PipeAssumption DEF FIFOs, DataTypes
    <3> QED
      BY <3>1, <3>2
  <2> QED
    BY <2>1, <2>3, <2>4 DEF Run, DataTypes
<1>6. (ending # "gone" => HandlerIds)'
  BY DEF Run, masterVars, handlerVars, HandlerIds
<1> QED
  BY <1>1, <1>2, <1>3, <1>4, <1>5, <1>6

LEMMA UnknownTypes ==
  ASSUME TypeInv, NEW p \in Procs, Unknown(p)
  PROVE  TypeInv'
<1> USE DEF TypeInv, PipeTypeOK
<1>1. (EntryTypes /\ CellTypes /\ MasterTypes)'
  BY DEF Unknown, EntryTypes, CellTypes, MasterTypes, cellVars, masterVars, handlerVars,
         fifoVars, dataVars, ioVars
<1>2. SessionTypes'
  BY PipeAssumption DEF Unknown, SessionTypes, Goto, Ends, PCs, ioVars
<1>3. LockHeld'
  BY PipeAssumption DEF Unknown, LockHeld, SessionTypes, Goto, Ends, masterVars
<1>4. Redirected'
  BY DEF Unknown, Redirected, SessionTypes, Goto, Ends
<1>5. DataTypes'
  BY DEF Unknown, DataTypes, Held, FIFOs
<1>6. (ending # "gone" => HandlerIds)'
  BY DEF Unknown, masterVars, handlerVars, HandlerIds
<1> QED
  BY <1>1, <1>2, <1>3, <1>4, <1>5, <1>6

LEMMA ClearTypes ==
  ASSUME TypeInv, NEW p \in Procs, Clear(p)
  PROVE  TypeInv'
<1> USE DEF TypeInv, PipeTypeOK
<1>1. (MasterTypes /\ DataTypes)'
  BY DEF Clear, MasterTypes, DataTypes, cellVars, masterVars, handlerVars, fifoVars,
         dataVars, ioVars
<1>2. EntryTypes'
  <2>1. stage[p].in \in Ids /\ 0 \in 0 .. MaxFifo
    BY PipeAssumption DEF Clear, Redirected
  <2>2. last' = last
    BY DEF Clear
  <2>3. \/ /\ valid' = [valid EXCEPT ![stage[p].in] = FALSE]
           /\ fifo' = [fifo EXCEPT ![stage[p].in] = 0]
        \/ UNCHANGED <<valid, fifo>>
    BY DEF Clear
  <2> QED
    BY <2>1, <2>2, <2>3 DEF EntryTypes
<1>3. CellTypes'
  BY DEF Clear, CellTypes, Redirected, AskClose
<1>4. SessionTypes'
  BY DEF Clear, SessionTypes, Goto, Ends, PCs, ioVars
<1>5. LockHeld'
  BY PipeAssumption DEF Clear, LockHeld, SessionTypes, Goto, Ends, masterVars
<1>6. Redirected'
  BY DEF Clear, Redirected, SessionTypes, Goto, Ends
<1>7. (ending # "gone" => HandlerIds)'
  BY DEF Clear, masterVars, handlerVars, HandlerIds
<1> QED
  BY <1>1, <1>2, <1>3, <1>4, <1>5, <1>6, <1>7

LEMMA HandlerTypes ==
  ASSUME TypeInv, HandlerStep
  PROVE  TypeInv'
<1> USE DEF TypeInv, PipeTypeOK, HandlerAt
<1>1. UNCHANGED <<sessionVars, fifoVars, sent, got>>
  BY DEF HandlerStep, HandlerStart, HandlerRead, HandlerOpen, HandlerRecord, HandlerOpened,
         HandlerClose, HandlerForget, HandlerClosed, dataVars
<1>2. (EntryTypes /\ SessionTypes /\ Redirected)'
  BY <1>1 DEF EntryTypes, SessionTypes, Redirected, sessionVars, ioVars, fifoVars
<1>3. CellTypes'
  BY DEF HandlerStep, HandlerStart, HandlerRead, HandlerOpen, HandlerRecord, HandlerOpened,
         HandlerClose, HandlerForget, HandlerClosed, CellTypes, cellVars
<1>4. ending # "gone" /\ ending' # "gone" /\ LockHeld'
  BY <1>1 DEF HandlerStep, HandlerStart, HandlerRead, HandlerOpen, HandlerRecord, HandlerOpened,
              HandlerClose, HandlerForget, HandlerClosed, LockHeld, sessionVars
<1>5. HandlerIds'
  BY <1>4, PipeAssumption
  DEF HandlerStep, HandlerStart, HandlerRead, HandlerOpen, HandlerRecord, HandlerOpened,
      HandlerClose, HandlerForget, HandlerClosed, HandlerIds, CellTypes, MasterTypes
<1>6. MasterTypes'
  <2>1. CASE HandlerStart \/ HandlerRead
    BY <2>1 DEF HandlerStart, HandlerRead, MasterTypes, CellTypes
  <2>2. CASE HandlerOpen
    <3>1. fifo[open_id] \in 0 .. MaxFifo
      BY <1>4, <2>2 DEF HandlerOpen, EntryTypes, HandlerIds
    <3>2. {fifo[open_id]} \ {0} \subseteq FIFOs
      BY <3>1, PipeAssumption DEF FIFOs
    <3> QED
      BY <2>2, <3>1, <3>2 DEF HandlerOpen, MasterTypes
  <2>3. CASE HandlerRecord \/ HandlerForget
    BY <2>3, PipeAssumption DEF HandlerRecord, HandlerForget, MasterTypes
  <2>4. CASE HandlerOpened \/ HandlerClosed
    BY <2>4 DEF HandlerOpened, HandlerClosed, MasterTypes
  <2>5. CASE HandlerClose
    <3>1. readers' \subseteq readers
      BY <2>5 DEF HandlerClose
    <3> QED
      BY <2>5, <3>1 DEF HandlerClose, MasterTypes
  <2> QED
    BY <2>1, <2>2, <2>3, <2>4, <2>5 DEF HandlerStep
<1>7. DataTypes'
  <2>1. buffer' = buffer \/ \E S : buffer' = Held(S)
    BY DEF HandlerStep, HandlerStart, HandlerRead, HandlerOpen, HandlerRecord, HandlerOpened,
           HandlerClose, HandlerForget, HandlerClosed, dataVars
  <2> QED
    BY <1>1, <2>1 DEF DataTypes, Held
<1> QED
  BY <1>2, <1>3, <1>4, <1>5, <1>6, <1>7

LEMMA EndTypes ==
  ASSUME TypeInv, Interrupt \/ ClearAll
  PROVE  TypeInv'
<1> USE DEF TypeInv, PipeTypeOK
<1>1. CASE Interrupt
  <2>1. UNCHANGED <<handlerVars, cellVars, sessionVars, fifoVars, dataVars>>
    BY <1>1 DEF Interrupt
  <2>2. ending = "no" /\ ending' \in {"wait", "masked"}
    BY <1>1 DEF Interrupt
  <2>3. (EntryTypes /\ CellTypes /\ SessionTypes /\ DataTypes /\ Redirected)'
    BY <2>1 DEF EntryTypes, CellTypes, SessionTypes, DataTypes, Redirected, cellVars,
         sessionVars,
                ioVars, fifoVars, dataVars
  <2>4. (MasterTypes /\ LockHeld)' /\ (ending # "gone" => HandlerIds)'
    BY <2>1, <2>2 DEF MasterTypes, LockHeld, HandlerIds, handlerVars, sessionVars
  <2> QED
    BY <2>3, <2>4
<1>2. CASE ClearAll
  <2>1. EntryTypes'
    BY <1>2, PipeAssumption DEF ClearAll, EntryTypes
  <2>2. (CellTypes /\ LockHeld /\ Redirected)' /\ (ending # "gone" => HandlerIds)'
    BY <1>2 DEF ClearAll, CellTypes, LockHeld, Redirected
  <2>3. MasterTypes'
    BY <1>2, PipeAssumption DEF ClearAll, MasterTypes
  <2>4. SessionTypes'
    BY <1>2 DEF ClearAll, SessionTypes, ioVars
  <2>5. DataTypes'
    BY <1>2 DEF ClearAll, DataTypes, Held
  <2> QED
    BY <2>1, <2>2, <2>3, <2>4, <2>5
<1> QED
  BY <1>1, <1>2

LEMMA TypeInvStep == TypeInv /\ [PipeNext]_pipeVars => TypeInv'
<1> SUFFICES ASSUME TypeInv, [PipeNext]_pipeVars PROVE TypeInv'
  OBVIOUS
<1>1. CASE MasterStep
  BY <1>1, HandlerTypes, EndTypes DEF MasterStep
<1>2. CASE Interrupt
  BY <1>2, EndTypes
<1>3. CASE \E p \in Procs : Start(p) \/ SessionStep(p)
  BY <1>3, StartTypes, LockTypes, CreateFailsTypes, CreateTypes, OpenWriteTypes, OpenReadTypes,
     OpenReadFailsTypes, RunTypes, UnknownTypes, ClearTypes DEF SessionStep
<1>4. CASE UNCHANGED pipeVars
  BY <1>4 DEF TypeInv, PipeTypeOK, EntryTypes, CellTypes, MasterTypes, SessionTypes, DataTypes,
              LockHeld, Redirected, HandlerIds, pipeVars, cellVars, masterVars, handlerVars,
              sessionVars, ioVars, fifoVars, dataVars
<1> QED
  BY <1>1, <1>2, <1>3, <1>4 DEF PipeNext

(* Types, and the use of pipe_lock (v2/lock.hpp:67, v2/shell.hpp:325),     *)
(* also when open_write or open_read fail: it is held exactly by a session *)
(* that creates its pipe.                                                  *)
THEOREM PipeTypes == PipeSpec => []PipeTypeOK
<1>1. TypeInv => PipeTypeOK
  BY DEF TypeInv
<1> QED
  BY <1>1, TypeInvInit, TypeInvStep, PTL DEF PipeSpec

-----------------------------------------------------------------------------
(* A FIFO file belongs to one name ... *)
OwnFile == \A i, j \in Ids : fifo[i] = fifo[j] /\ fifo[i] # 0 => i = j

(* ... and to one entry, that of its name ...                              *)
OwnReader ==
  \A i, j \in Ids : fake[i] \in FIFOs /\ fake[i] \in {fake[j], fifo[j]} => i = j

(* ... also while the handler has not recorded it.                         *)
OwnOpened ==
  opened # 0 =>
    /\ master = "record" /\ opened \in readers
    /\ \A i \in Ids : opened \in {fake[i], fifo[i]} => i = open_id

FilesMade ==
  /\ \A i \in Ids : fifo[i] <= last /\ fake[i] <= last
  /\ opened <= last /\ (\A f \in readers : f <= last) /\ \A p \in Procs : rfd[p] <= last

(* The fd of entry i is set, or the handler is about to set it. *)
Known(i) == fake[i] # Unset \/ (master = "record" /\ open_id = i)

(* A session is in the open of pipe i, with pipe_lock. *)
Opening(i) == \E p \in Procs : lock = p /\ pc[p] = "opening" /\ stage[p].out = i

Served ==
  /\ \A i \in Ids : i \in {to_close, close_id} => Known(i)
  /\ \A i \in Ids : HasReader(fifo[i]) => Known(i)
  /\ \A i \in Ids : valid[i] => Known(i) \/ Opening(i)

RecordedOpen ==
  \A i \in Ids : fake[i] \in FIFOs => fake[i] \in readers \/ (master = "closed" /\ close_id = i)

FakeInv ==
  /\ TypeInv /\ OwnFile /\ OwnReader /\ FilesMade
  /\ ending # "gone" => OwnOpened /\ Served /\ RecordedOpen

LEMMA FakeInvInit == PipeInit => FakeInv
<1> SUFFICES ASSUME PipeInit PROVE FakeInv
  OBVIOUS
<1>1. TypeInv
  BY TypeInvInit
<1>2. OwnFile /\ \A i \in Ids : fifo[i] <= last
  BY Left DEF PipeInit, OwnFile
<1>3. last \in Nat /\ \A i \in Ids : fake[i] = -1
  BY <1>1, PipeAssumption DEF PipeInit, TypeInv, PipeTypeOK, EntryTypes, Unset
<1>4. OwnReader /\ RecordedOpen /\ OwnOpened
  BY <1>3 DEF OwnReader, RecordedOpen, OwnOpened, FIFOs, PipeInit
<1>5. FilesMade
  <2>1. opened = 0 /\ readers = {} /\ \A p \in Procs : rfd[p] = 0
    BY DEF PipeInit
  <2> QED
    BY <1>2, <1>3, <2>1 DEF FilesMade
<1>6. Served
  <2>1. \A i \in Ids : ~valid[i] /\ i # to_close /\ i # close_id
    BY PipeAssumption DEF PipeInit
  <2>2. readers = {} /\ \A p \in Procs : rfd[p] = 0
    BY DEF PipeInit
  <2> QED
    BY <2>1, <2>2 DEF Served, HasReader, ReadBy
<1> QED
  BY <1>1, <1>2, <1>4, <1>5, <1>6 DEF FakeInv

(* What the steps below need of the types. *)
Numbers ==
  /\ fifo \in [Ids -> Nat] /\ fake \in [Ids -> Nat \cup {Unset}] /\ last \in Nat /\ opened \in Nat
  /\ readers \subseteq Nat \ {0} /\ rfd \in [Procs -> Nat]
  /\ valid \in [Ids -> BOOLEAN] /\ pc \in [Procs -> PCs]
  /\ FIFOs \subseteq Nat \ {0} /\ Unset \in Int /\ Unset < 0

LEMMA NumbersOK == TypeInv => Numbers
  BY PipeAssumption
  DEF Numbers, TypeInv, PipeTypeOK, EntryTypes, MasterTypes, SessionTypes, FIFOs, Unset

LEMMA HandlerFiles ==
  ASSUME FakeInv, HandlerStep
  PROVE  OwnFile' /\ OwnReader' /\ FilesMade' /\ OwnOpened'
<1> USE DEF FakeInv, HandlerAt
<1>1. /\ UNCHANGED <<fifo, last, rfd>> /\ ending # "gone" /\ Numbers
  BY NumbersOK DEF HandlerStep, HandlerStart, HandlerRead, HandlerOpen, HandlerRecord,
                   HandlerOpened, HandlerClose, HandlerForget, HandlerClosed, sessionVars,
                   ioVars, fifoVars
<1>2. OwnFile'
  BY <1>1 DEF OwnFile
<1>3. CASE HandlerOpen
  <2>1. /\ master = "open" /\ master' = "record" /\ UNCHANGED <<fake, open_id>>
        /\ open_id \in Ids /\ opened' = fifo[open_id]
        /\ readers' = readers \cup ({fifo[open_id]} \ {0})
    BY <1>1, <1>3 DEF HandlerOpen, TypeInv, HandlerIds
  <2>2. OwnReader' /\ FilesMade'
    BY <1>1, <2>1 DEF OwnReader, FilesMade, Numbers
  <2>3. ASSUME opened' # 0, NEW i \in Ids, opened' \in {fake[i], fifo[i]}
        PROVE  i = open_id
    <3>1. fifo[open_id] \in FIFOs
      BY <2>1, <2>3, PipeAssumption DEF FIFOs, TypeInv, PipeTypeOK, EntryTypes
    <3> QED
      BY <1>1, <2>1, <2>3, <3>1 DEF OwnReader, OwnFile
  <2> QED
    BY <1>1, <1>2, <2>1, <2>2, <2>3 DEF OwnOpened
<1>4. CASE HandlerRecord
  <2>1. /\ open_id \in Ids /\ opened' = 0 /\ UNCHANGED readers
        /\ fake' = [fake EXCEPT ![open_id] = opened]
    BY <1>1, <1>4 DEF HandlerRecord, TypeInv, HandlerIds
  <2>2. fake'[open_id] = opened /\ \A i \in Ids \ {open_id} : fake'[i] = fake[i]
    BY <1>1, <2>1 DEF Numbers
  <2>3. OwnReader'
    <3> SUFFICES ASSUME NEW i \in Ids, NEW j \in Ids, fake'[i] \in FIFOs,
                        fake'[i] \in {fake'[j], fifo[j]}
                 PROVE  i = j
      BY <1>1 DEF OwnReader
    <3>1. opened # 0 => \A k \in Ids : opened \in {fake[k], fifo[k]} => k = open_id
      BY <1>1 DEF OwnOpened
    <3>2. 0 \notin FIFOs
      BY <1>1 DEF Numbers
    <3>3. CASE i = open_id
      BY <2>2, <3>1, <3>2, <3>3
    <3>4. CASE i # open_id
      BY <2>2, <3>1, <3>2, <3>4 DEF OwnReader
    <3> QED
      BY <3>3, <3>4
  <2>4. FilesMade' /\ OwnOpened'
    BY <1>1, <2>1, <2>2 DEF FilesMade, OwnOpened, Numbers
  <2> QED
    BY <1>2, <2>3, <2>4
<1>5. CASE HandlerForget
  <2>1. /\ UNCHANGED <<opened, readers, open_id>> /\ master = "closed"
        /\ fake' = [fake EXCEPT ![close_id] = 0]
    BY <1>5 DEF HandlerForget
  <2>2. OwnReader' /\ FilesMade'
    BY <1>1, <2>1 DEF OwnReader, FilesMade, Numbers
  <2>3. OwnOpened'
    BY <1>1, <2>1 DEF OwnOpened
  <2> QED
    BY <1>2, <2>2, <2>3
<1>6. CASE HandlerStart \/ HandlerRead \/ HandlerOpened \/ HandlerClose \/ HandlerClosed
  <2>1. UNCHANGED <<opened, fake>> /\ master # "record" /\ readers' \subseteq readers
    BY <1>6 DEF HandlerStart, HandlerRead, HandlerOpened, HandlerClose, HandlerClosed
  <2> QED
    BY <1>1, <1>2, <2>1 DEF OwnReader, FilesMade, OwnOpened
<1> QED
  BY <1>3, <1>4, <1>5, <1>6 DEF HandlerStep

LEMMA HandlerServes ==
  ASSUME FakeInv, HandlerStep
  PROVE  Served' /\ RecordedOpen'
<1> USE DEF FakeInv, HandlerAt
<1>1. /\ UNCHANGED <<fifo, valid, rfd, pc, stage, lock>> /\ ending # "gone" /\ Numbers
      /\ Served /\ RecordedOpen /\ OwnOpened
  BY NumbersOK DEF HandlerStep, HandlerStart, HandlerRead, HandlerOpen, HandlerRecord,
                   HandlerOpened, HandlerClose, HandlerForget, HandlerClosed, sessionVars,
                   ioVars, fifoVars
<1>2. \A i \in Ids : Opening(i)' <=> Opening(i)
  BY <1>1 DEF Opening
<1>3. ASSUME \A i \in Ids : Known(i) => Known(i)',
             \A i \in Ids : i \in {to_close', close_id'} => i \in {to_close, close_id},
             readers' \subseteq readers
      PROVE  Served'
  BY <1>1, <1>2, <1>3 DEF Served, HasReader, ReadBy
<1>4. CASE HandlerOpen
  <2>1. /\ master = "open" /\ master' = "record" /\ UNCHANGED <<fake, open_id, close_id, to_close>>
        /\ open_id \in Ids /\ readers' = readers \cup ({fifo[open_id]} \ {0})
    BY <1>1, <1>4 DEF HandlerOpen, TypeInv, HandlerIds, cellVars
  <2>2. \A i \in Ids : Known(i) => Known(i)'
    BY <2>1 DEF Known
  <2>3. Known(open_id)'
    BY <2>1 DEF Known
  <2>4. \A i \in Ids : HasReader(fifo[i])' => HasReader(fifo[i]) \/ i = open_id
    BY <1>1, <2>1 DEF HasReader, ReadBy, OwnFile
  <2>5. Served'
    BY <1>1, <1>2, <2>1, <2>2, <2>3, <2>4 DEF Served
  <2> QED
    BY <1>1, <2>1, <2>5 DEF RecordedOpen
<1>5. CASE HandlerRecord
  <2>1. /\ master = "record" /\ master' = "opened" /\ UNCHANGED <<open_id, close_id, to_close, readers>>
        /\ open_id \in Ids /\ fake' = [fake EXCEPT ![open_id] = opened]
    BY <1>1, <1>5 DEF HandlerRecord, TypeInv, HandlerIds, cellVars
  <2>2. fake'[open_id] = opened /\ \A i \in Ids \ {open_id} : fake'[i] = fake[i]
    BY <1>1, <2>1 DEF Numbers
  <2>3. \A i \in Ids : Known(i) => Known(i)'
    BY <1>1, <2>1, <2>2 DEF Known, Numbers
  <2>4. RecordedOpen'
    BY <1>1, <2>1, <2>2 DEF RecordedOpen, OwnOpened, Numbers
  <2> QED
    BY <1>3, <2>1, <2>3, <2>4
<1>6. CASE HandlerClose
  <2>1. /\ master = "close" /\ master' = "closed" /\ close_id \in Ids
        /\ UNCHANGED <<fake, open_id, close_id, to_close>>
        /\ \E S \in ClosedBy(fake[close_id]) : readers' = readers \ S
    BY <1>1, <1>6 DEF HandlerClose, TypeInv, HandlerIds, cellVars
  <2>2. fake[close_id] # Unset
    BY <1>1, <2>1 DEF Served, Known
  <2>3. readers' = readers \ {fake[close_id]}
    BY <2>1, <2>2 DEF ClosedBy
  <2>4. RecordedOpen'
    BY <1>1, <2>1, <2>3 DEF RecordedOpen, OwnReader
  <2>5. \A i \in Ids : Known(i) => Known(i)'
    BY <2>1 DEF Known
  <2> QED
    BY <1>3, <2>1, <2>3, <2>4, <2>5
<1>7. CASE HandlerForget
  <2>1. /\ master = "closed" /\ close_id \in Ids /\ fake' = [fake EXCEPT ![close_id] = 0]
        /\ UNCHANGED <<open_id, close_id, to_close, readers>>
    BY <1>1, <1>7 DEF HandlerForget, TypeInv, HandlerIds, cellVars
  <2>2. fake'[close_id] = 0 /\ \A i \in Ids \ {close_id} : fake'[i] = fake[i]
    BY <1>1, <2>1 DEF Numbers
  <2>3. \A i \in Ids : Known(i) => Known(i)'
    BY <1>1, <2>1, <2>2 DEF Known, Numbers
  <2>4. RecordedOpen'
    BY <1>1, <2>1, <2>2 DEF RecordedOpen, Numbers
  <2> QED
    BY <1>3, <2>1, <2>3, <2>4
<1>8. CASE HandlerStart \/ HandlerRead \/ HandlerOpened \/ HandlerClosed
  <2>1. /\ UNCHANGED <<fake, readers>> /\ master \notin {"record", "closed"}
        /\ to_close' \in {to_close, None} /\ close_id' \in {to_close, close_id, None}
    BY <1>8 DEF HandlerStart, HandlerRead, HandlerOpened, HandlerClosed, cellVars
  <2>2. \A i \in Ids : Known(i) => Known(i)'
    BY <2>1 DEF Known
  <2>3. RecordedOpen'
    BY <1>1, <2>1 DEF RecordedOpen
  <2>4. \A i \in Ids : i \in {to_close', close_id'} => i \in {to_close, close_id}
    BY <2>1, PipeAssumption
  <2> QED
    BY <1>3, <2>1, <2>2, <2>3, <2>4
<1> QED
  BY <1>4, <1>5, <1>6, <1>7, <1>8 DEF HandlerStep

LEMMA SessionServes ==
  ASSUME FakeInv, NEW p \in Procs, Start(p) \/ SessionStep(p)
  PROVE  OwnFile' /\ OwnReader' /\ FilesMade' /\ (ending' # "gone" => OwnOpened' /\ Served')
<1> USE DEF FakeInv, Goto, Ends
<1>1. UNCHANGED <<handlerVars, ending>> /\ Numbers
  BY NumbersOK DEF Start, SessionStep, Lock, CreateFails, Create, OpenWrite, OpenRead,
                   OpenReadFails, Run, Unknown, Clear, masterVars
<1>2. \A i \in Ids : Known(i)' <=> Known(i)
  BY <1>1 DEF Known, handlerVars
<1>3. \A q \in Procs \ {p} : pc'[q] = pc[q] /\ stage'[q] = stage[q] /\ rfd'[q] = rfd[q]
  BY <1>1 DEF Start, SessionStep, Lock, CreateFails, Create, OpenWrite, OpenRead, OpenReadFails,
              Run, Unknown, Clear, ioVars, TypeInv, PipeTypeOK, SessionTypes
<1>4. CASE Create(p)
  <2> DEFINE o == stage[p].out
  <2>1. /\ o \in Ids /\ UNCHANGED <<to_close, rfd, lock, stage>>
        /\ valid' = [valid EXCEPT ![o] = TRUE] /\ pc[p] = "create"
        /\ pc' = [pc EXCEPT ![p] = "opening"]
    BY <1>4 DEF Create, ioVars, TypeInv, Redirected
  <2>2. \/ UNCHANGED <<fifo, last>>
        \/ fifo' = [fifo EXCEPT ![o] = last + 1] /\ last' = last + 1
    BY <1>4 DEF Create
  <2>3. OwnFile' /\ OwnReader' /\ FilesMade'
    BY <1>1, <2>1, <2>2 DEF OwnFile, OwnReader, FilesMade, Numbers, handlerVars
  <2>4. ending # "gone" => OwnOpened'
    BY <1>1, <2>1, <2>2 DEF OwnOpened, FilesMade, Numbers, handlerVars
  <2>5. \A i \in Ids : HasReader(fifo[i])' => HasReader(fifo[i])
    BY <1>1, <2>1, <2>2 DEF HasReader, ReadBy, FilesMade, Numbers, handlerVars
  <2>6. ASSUME ending # "gone"
        PROVE  Opening(o)' /\ \A i \in Ids : Opening(i) => Opening(i)'
    <3>1. lock = p /\ pc'[p] = "opening"
      BY <1>1, <2>1, <2>6 DEF TypeInv, PipeTypeOK, LockHeld, Numbers
    <3> QED
      BY <1>1, <1>3, <2>1, <3>1 DEF Opening
  <2>7. ASSUME ending # "gone" PROVE Served'
    BY <1>1, <1>2, <2>1, <2>5, <2>6, <2>7 DEF Served, handlerVars, Numbers
  <2> QED
    BY <1>1, <2>3, <2>4, <2>7
<1>5. CASE Clear(p)
  <2> DEFINE c == stage[p].in
  <2>1. /\ c \in Ids /\ UNCHANGED <<last, rfd, lock>> /\ lock = None /\ p # None
        /\ \/ /\ valid[c] /\ valid' = [valid EXCEPT ![c] = FALSE] /\ to_close' = c
              /\ fifo' = [fifo EXCEPT ![c] = 0]
           \/ UNCHANGED <<valid, fifo, to_close>>
    BY <1>5, PipeAssumption DEF Clear, AskClose, LockFree, ioVars, TypeInv, Redirected
  <2>2. OwnFile' /\ OwnReader' /\ FilesMade' /\ (ending # "gone" => OwnOpened')
    BY <1>1, <2>1 DEF OwnFile, OwnReader, FilesMade, OwnOpened, Numbers, handlerVars
  <2>3. \A i \in Ids : (HasReader(fifo[i])' => HasReader(fifo[i])) /\ ~Opening(i)
    BY <1>1, <2>1, PipeAssumption DEF HasReader, ReadBy, Opening, Numbers, handlerVars
  <2>4. ASSUME ending # "gone" PROVE Served'
    BY <1>1, <1>2, <2>1, <2>3, <2>4 DEF Served, handlerVars, Numbers
  <2> QED
    BY <1>1, <2>2, <2>4
<1>6. CASE ~Create(p) /\ ~Clear(p)
  <2>1. UNCHANGED <<fifo, last, valid, to_close>>
    BY <1>6 DEF Start, SessionStep, Lock, CreateFails, OpenWrite, OpenRead, OpenReadFails, Run,
                Unknown, fifoVars, cellVars
  <2>2. \/ rfd'[p] \in {0, rfd[p]}
        \/ OpenRead(p) /\ rfd'[p] = fifo[stage[p].in] /\ stage[p].in \in Ids /\ valid[stage[p].in]
    BY <1>1, <1>6 DEF Start, SessionStep, Lock, CreateFails, OpenWrite, OpenRead, OpenReadFails,
                      Run, Unknown, ioVars, TypeInv, Redirected, Numbers
  <2>3. OwnFile' /\ OwnReader' /\ (ending # "gone" => OwnOpened')
    BY <1>1, <2>1 DEF OwnFile, OwnReader, OwnOpened, handlerVars
  <2>4. FilesMade'
    BY <1>1, <1>3, <2>1, <2>2 DEF FilesMade, handlerVars, Numbers
  <2>5. ASSUME ending # "gone", NEW i \in Ids, HasReader(fifo[i])'
        PROVE  Known(i)
    <3>1. CASE HasReader(fifo[i])
      BY <2>5, <3>1 DEF Served
    <3>2. CASE ~HasReader(fifo[i])
      <4>1. fifo[i] # 0 /\ rfd'[p] = fifo[i] /\ rfd[p] # fifo[i]
        BY <1>1, <1>3, <2>1, <2>5, <3>2 DEF HasReader, ReadBy, handlerVars
      <4>2. OpenRead(p) /\ i = stage[p].in /\ valid[i]
        BY <2>2, <4>1 DEF OwnFile
      <4>3. ~Opening(i)
        BY <4>2, PipeAssumption DEF OpenRead, LockFree, Opening
      <4> QED
        BY <2>5, <4>2, <4>3 DEF Served
    <3> QED
      BY <3>1, <3>2
  <2>6. ASSUME ending # "gone", NEW i \in Ids, Opening(i), ~Opening(i)'
        PROVE  Known(i)
    <3>1. PICK q \in Procs : lock = q /\ pc[q] = "opening" /\ stage[q].out = i
      BY <2>6 DEF Opening
    <3>2. \/ q = p
          \/ lock' # q
      BY <1>3, <2>6, <3>1 DEF Opening
    <3>3. OpenWrite(p) /\ q = p
      <4>1. CASE q = p
        BY <1>6, <3>1, <4>1 DEF Start, SessionStep, Lock, CreateFails, OpenRead, OpenReadFails, Run,
                           Unknown
      <4>2. CASE q # p /\ lock' # q
        <5>1. Lock(p) \/ CreateFails(p) \/ OpenWrite(p)
          BY <1>6, <3>1, <4>2 DEF Start, SessionStep, OpenRead, OpenReadFails, Run, Unknown
        <5>2. lock \in {None, p}
          BY <2>6, <5>1 DEF Lock, LockFree, CreateFails, OpenWrite, TypeInv, PipeTypeOK, LockHeld
        <5> QED
          BY <3>1, <4>2, <5>2, PipeAssumption
      <4> QED
        BY <3>2, <4>1, <4>2
    <3> QED
      BY <2>6, <3>1, <3>3 DEF OpenWrite, Served
  <2>7. ASSUME ending # "gone" PROVE Served'
    BY <1>1, <1>2, <2>1, <2>5, <2>6, <2>7 DEF Served, handlerVars
  <2> QED
    BY <1>1, <2>3, <2>4, <2>7
<1> QED
  BY <1>4, <1>5, <1>6

LEMMA FakeInvStep == FakeInv /\ [PipeNext]_pipeVars => FakeInv'
<1> SUFFICES ASSUME FakeInv, [PipeNext]_pipeVars PROVE FakeInv'
  OBVIOUS
<1> USE DEF FakeInv
<1>1. TypeInv'
  BY TypeInvStep
<1>2. CASE HandlerStep
  BY <1>1, <1>2, HandlerFiles, HandlerServes
<1>3. ASSUME NEW p \in Procs, Start(p) \/ SessionStep(p) PROVE FakeInv'
  <2>1. UNCHANGED <<handlerVars, ending>>
    BY <1>3 DEF Start, SessionStep, Lock, CreateFails, Create, OpenWrite, OpenRead,
                OpenReadFails, Run, Unknown, Clear, masterVars
  <2>2. ending # "gone" => RecordedOpen'
    BY <2>1 DEF RecordedOpen, handlerVars
  <2> QED
    BY <1>1, <1>3, <2>1, <2>2, SessionServes
<1>4. CASE Interrupt \/ UNCHANGED pipeVars
  <2>1. /\ UNCHANGED <<handlerVars, cellVars, sessionVars, fifoVars>>
        /\ ending' # "gone" => ending # "gone"
    BY <1>4 DEF Interrupt, pipeVars, masterVars
  <2> QED
    BY <1>1, <2>1 DEF OwnFile, OwnReader, FilesMade, OwnOpened, Served, RecordedOpen, Known,
                      Opening, HasReader, ReadBy, handlerVars, cellVars, sessionVars, ioVars,
                      fifoVars
<1>5. CASE ClearAll
  <2>1. /\ ending' = "gone" /\ UNCHANGED <<opened, last, rfd>> /\ readers' = {}
        /\ fake' = [i \in Ids |-> IF valid[i] THEN 0 ELSE fake[i]]
        /\ fifo' = [i \in Ids |-> IF valid[i] THEN 0 ELSE fifo[i]]
    BY <1>5 DEF ClearAll, ioVars
  <2>2. Numbers
    BY NumbersOK
  <2>3. OwnFile' /\ OwnReader' /\ FilesMade'
    BY <2>1, <2>2 DEF OwnFile, OwnReader, FilesMade, Numbers
  <2> QED
    BY <1>1, <2>1, <2>3
<1> QED
  BY <1>2, <1>3, <1>4, <1>5 DEF PipeNext, MasterStep

(* The handler closes only readers that it has opened for the entry and    *)
(* that are still open (v2/pub_pipe_mgmt.hpp:172-189), in whatever order   *)
(* requests of any number of sessions overwrite each other, wherever       *)
(* SIGINT finds the master and whatever fake_read_fd was before.           *)
THEOREM HandlerClosesOwn == PipeSpec => []ClosesOwn
<1>1. FakeInv => ClosesOwn
  BY DEF FakeInv, RecordedOpen, Served, Known, ClosesOwn
<1> QED
  BY <1>1, FakeInvInit, FakeInvStep, PTL DEF PipeSpec
-----------------------------------------------------------------------------
(* The master has still to open a reader of pipe i, or to record it. *)
Unopened(i) == to_open = i /\ master \in {"idle", "read", "open"}
Asked(i) == to_open = i /\ master \in {"idle", "read", "open", "record"}

(* Sessions take turns. *)
OneActive ==
  /\ \A p, q \in Procs : pc[p] # "idle" /\ pc[q] # "idle" => p = q
  /\ \A p \in Procs : rfd[p] # 0 => pc[p] = "run"

(* A request to open, from Create until HandlerOpened. *)
OpenRequest ==
  /\ to_open # None =>
       /\ master \in {"idle", "read", "open", "record", "opened"} /\ (master = "idle" => signal)
       /\ master # "idle" => open_id = to_open
  /\ master \in {"open", "record", "opened"} => to_open # None /\ close_id = None
  /\ master = "read" => ~signal /\ open_id = to_open /\ (to_open # None \/ to_close # None)
  /\ \A i \in Ids : Unopened(i) => valid[i] /\ \E p \in Procs : pc[p] = "opening" /\ stage[p].out = i
  /\ \A p \in Procs : pc[p] \in {"wlock", "create"} => to_open = None /\ ~signal /\ master = "idle"

(* A request to close, from Clear until HandlerClosed. *)
CloseRequest ==
  /\ to_close # None =>
       /\ ~valid[to_close] /\ \A p \in Procs : pc[p] = "idle"
       /\ signal \/ master \in {"read", "close", "closed", "forgotten"}
  /\ master \in {"close", "closed", "forgotten"} => ~signal /\ close_id = to_close /\ to_close # None
  /\ signal => (to_open # None /\ master = "idle") \/ to_close # None

(* The master has open the readers it has recorded and the one it is about *)
(* to record.  It records that of every pipe in use but the one just asked *)
(* for, and perhaps still that of the pipe it is asked to close.           *)
Recorded ==
  /\ \A f \in FIFOs : f \in readers <=>
       f = opened \/ \E i \in Ids : fake[i] = f /\ ~(master = "closed" /\ close_id = i)
  /\ \A i \in Ids : valid[i] => fifo[i] # 0
  /\ \A i \in Ids : IF valid[i] /\ ~Asked(i) THEN fake[i] = fifo[i]
                  ELSE fake[i] \in FIFOs => i = to_close /\ ~Asked(i)
  /\ master = "forgotten" => fake[close_id] \notin FIFOs
  /\ master = "record" /\ to_open # to_close => valid[to_open] /\ opened = fifo[to_open]

Orderly == OneActive /\ OpenRequest /\ CloseRequest /\ Recorded

(* ReadersMatch says nothing of the moments in between; this does. *)
MatchInv == FakeInv /\ (ending # "gone" => Orderly)

LEMMA MatchInvInit == PipeInit => MatchInv
<1> SUFFICES ASSUME PipeInit PROVE MatchInv
  OBVIOUS
<1>1. OneActive /\ OpenRequest /\ CloseRequest
  BY PipeAssumption DEF PipeInit, OneActive, OpenRequest, CloseRequest, Unopened
<1>2. Recorded
  BY DEF PipeInit, Recorded, FIFOs, Unset
<1> QED
  BY <1>1, <1>2, FakeInvInit DEF MatchInv, Orderly

(* Steps of a session that ask the master for nothing. *)
LEMMA QuietOrderly ==
  ASSUME FakeInv, Orderly, OneActive', NEW p \in Procs,
         UNCHANGED <<valid, fifo, cellVars, handlerVars>>, to_close = None,
         \A q \in Procs \ {p} : pc'[q] = pc[q] /\ stage'[q] = stage[q],
         \A i \in Ids : Unopened(i) => pc[p] # "opening",
         pc'[p] \in {"wlock", "create"} => to_open = None /\ ~signal /\ master = "idle"
  PROVE  Orderly'
<1>1. Recorded'
  BY DEF Orderly, Recorded, Asked, cellVars, handlerVars
<1>2. CloseRequest'
  BY DEF Orderly, CloseRequest, cellVars, handlerVars
<1>3. OpenRequest'
  BY DEF Orderly, OpenRequest, Unopened, cellVars, handlerVars
<1> QED
  BY <1>1, <1>2, <1>3 DEF Orderly

(* Only a session whose request is served gets past its open.              *)
LEMMA ServedOpens ==
  ASSUME FakeInv, Orderly, ending # "gone", NEW p \in Procs, OpenWrite(p)
  PROVE  \A i \in Ids : ~Unopened(i)
<1> SUFFICES ASSUME NEW i \in Ids, Unopened(i) PROVE FALSE
  OBVIOUS
<1>1. valid[i] /\ fifo[i] # 0 /\ i # to_close /\ Asked(i) /\ master # "record"
  BY PipeAssumption DEF Orderly, OpenRequest, CloseRequest, Recorded, Unopened, Asked
<1>2. stage[p].out = i /\ pc[p] = "opening" /\ HasReader(fifo[i])
  BY DEF Orderly, OneActive, OpenRequest, OpenWrite
<1>3. \A q \in Procs : rfd[q] # fifo[i]
  BY <1>1, <1>2 DEF Orderly, OneActive
<1>4. fifo[i] \in readers /\ fifo[i] \in FIFOs
  BY <1>2, <1>3 DEF HasReader, ReadBy, FakeInv, TypeInv, PipeTypeOK, MasterTypes
<1>5. opened = 0 /\ fake[i] \notin FIFOs
  BY <1>1 DEF FakeInv, OwnOpened, Orderly, Recorded
<1>6. PICK j \in Ids : fake[j] = fifo[i]
  BY <1>1, <1>4, <1>5 DEF Orderly, Recorded
<1>7. j = i
  BY <1>4, <1>6 DEF FakeInv, OwnReader
<1> QED
  BY <1>4, <1>5, <1>6, <1>7

(* Steps of the session on turn; Create and Clear have proofs of their own. *)
LEMMA TurnKept ==
  ASSUME FakeInv, Orderly, NEW p \in Procs, pc[p] # "idle",
         \A q \in Procs \ {p} : pc'[q] = pc[q] /\ rfd'[q] = rfd[q],
         rfd'[p] # 0 => pc'[p] = "run"
  PROVE  OneActive'
<1>1. \A q \in Procs \ {p} : pc[q] = "idle"
  BY DEF Orderly, OneActive
<1> QED
  BY <1>1 DEF Orderly, OneActive

LEMMA StartMatches ==
  ASSUME MatchInv, ~Overlap, NEW p \in Procs, Start(p), ending # "gone"
  PROVE  Orderly'
<1>1. /\ pc[p] = "idle" /\ Quiet(p) /\ UNCHANGED rfd
      /\ \A q \in Procs \ {p} : pc'[q] = pc[q] /\ stage'[q] = stage[q]
      /\ UNCHANGED <<valid, fifo, cellVars, handlerVars>>
  BY DEF Start, AtInput, fifoVars, masterVars, ioVars, MatchInv, FakeInv, TypeInv, PipeTypeOK,
         SessionTypes
<1>2. \A q \in Procs : pc[q] = "idle" /\ rfd[q] = 0
  BY <1>1 DEF Quiet, MatchInv, Orderly, OneActive
<1>3. to_close = None /\ to_open = None
  BY <1>1 DEF Quiet, MatchInv, Orderly, OpenRequest, CloseRequest
<1>4. OneActive'
  BY <1>1, <1>2 DEF OneActive
<1> QED
  BY <1>1, <1>3, <1>4, QuietOrderly DEF MatchInv, Quiet

LEMMA SessionMatches ==
  ASSUME MatchInv, NEW p \in Procs, ending # "gone",
         \/ Lock(p) \/ CreateFails(p) \/ OpenWrite(p) \/ OpenRead(p) \/ OpenReadFails(p)
         \/ Run(p) \/ Unknown(p)
  PROVE  Orderly'
<1>1. /\ pc[p] # "idle" /\ UNCHANGED <<valid, fifo, cellVars, handlerVars>>
      /\ \A q \in Procs \ {p} : pc'[q] = pc[q] /\ stage'[q] = stage[q]
  BY DEF Lock, CreateFails, OpenWrite, OpenRead, OpenReadFails, Run, Unknown, Goto, Ends,
         fifoVars, masterVars, MatchInv, FakeInv, TypeInv, PipeTypeOK, SessionTypes
<1>2. /\ \A q \in Procs \ {p} : rfd'[q] = rfd[q]
      /\ rfd'[p] # 0 => pc'[p] = "run"
  BY <1>1 DEF Lock, CreateFails, OpenWrite, OpenRead, OpenReadFails, Run, Unknown, Goto, Ends,
         ioVars, MatchInv, FakeInv, TypeInv, PipeTypeOK, SessionTypes, Orderly, OneActive
<1>3. to_close = None
  BY <1>1 DEF MatchInv, Orderly, CloseRequest
<1>4. \A i \in Ids : Unopened(i) => pc[p] # "opening"
  BY ServedOpens DEF Lock, CreateFails, OpenWrite, OpenRead, OpenReadFails, Run, Unknown,
                     MatchInv
<1>5. pc'[p] \in {"wlock", "create"} => pc[p] = "wlock"
  BY DEF Lock, CreateFails, OpenWrite, OpenRead, OpenReadFails, Run, Unknown, Goto, Ends,
         AtInput, MatchInv, FakeInv, TypeInv, PipeTypeOK, SessionTypes
<1>6. OneActive'
  BY <1>1, <1>2, TurnKept DEF MatchInv
<1> QED
  BY <1>1, <1>3, <1>4, <1>5, <1>6, QuietOrderly DEF MatchInv, Orderly, OpenRequest

LEMMA CreateMatches ==
  ASSUME MatchInv, NEW p \in Procs, Create(p), ending # "gone"
  PROVE  Orderly'
<1> DEFINE o == stage[p].out
<1>1. /\ pc[p] = "create" /\ o \in Ids /\ ~valid[o] /\ o # None
      /\ valid' = [valid EXCEPT ![o] = TRUE] /\ to_open' = o /\ signal' = TRUE
      /\ UNCHANGED <<to_close, handlerVars, stage, rfd>>
      /\ pc' = [pc EXCEPT ![p] = "opening"]
  BY PipeAssumption DEF Create, Existed, AskOpen, Goto, masterVars, ioVars, MatchInv, FakeInv,
                        TypeInv, Redirected
<1>2. to_open = None /\ ~signal /\ master = "idle" /\ to_close = None
  BY <1>1 DEF MatchInv, Orderly, OpenRequest, CloseRequest
<1>3. \A q \in Procs \ {p} : pc[q] = "idle"
  BY <1>1 DEF MatchInv, Orderly, OneActive
<1>4. pc'[p] = "opening" /\ \A q \in Procs \ {p} : pc'[q] = "idle"
  BY <1>1, <1>3 DEF MatchInv, FakeInv, TypeInv, PipeTypeOK, SessionTypes
<1>5. OneActive'
  BY <1>1, <1>3, <1>4 DEF OneActive, MatchInv, Orderly
<1>6. valid'[o] /\ \A i \in Ids \ {o} : valid'[i] = valid[i]
  BY <1>1 DEF MatchInv, FakeInv, TypeInv, PipeTypeOK, EntryTypes
<1>7. OpenRequest'
  BY <1>1, <1>2, <1>4, <1>6 DEF OpenRequest, Unopened, handlerVars
<1>8. CloseRequest'
  BY <1>1, <1>2 DEF CloseRequest, handlerVars
<1>9. Recorded'
  <2>1. UNCHANGED <<fake, readers, master, opened, close_id>>
    BY <1>1 DEF handlerVars
  <2>2. /\ \A i \in Ids : IF valid[i] THEN fake[i] = fifo[i] ELSE fake[i] \notin FIFOs
        /\ \A i \in Ids : valid[i] => fifo[i] # 0
    BY <1>2, PipeAssumption DEF MatchInv, Orderly, Recorded, Asked
  <2>3. fifo'[o] # 0 /\ \A i \in Ids \ {o} : fifo'[i] = fifo[i]
    <3>1. CASE fifo[o] # 0 /\ UNCHANGED <<last, fifo>>
      BY <3>1
    <3>2. CASE last' = last + 1 /\ fifo' = [fifo EXCEPT ![o] = last + 1]
      <4>1. last \in Nat /\ last + 1 # 0 /\ fifo \in [Ids -> 0 .. MaxFifo]
        BY PipeAssumption DEF MatchInv, FakeInv, TypeInv, PipeTypeOK, EntryTypes
      <4> QED
        BY <1>1, <3>2, <4>1
    <3> QED
      BY <3>1, <3>2 DEF Create
  <2>4. \A i \in Ids : Asked(i)' <=> i = o
    BY <1>1, <1>2, <2>1 DEF Asked
  <2> QED
    BY <1>1, <1>2, <1>6, <2>1, <2>2, <2>3, <2>4 DEF MatchInv, Orderly, Recorded
<1> QED
  BY <1>5, <1>7, <1>8, <1>9 DEF Orderly

LEMMA ClearMatches ==
  ASSUME MatchInv, NEW p \in Procs, Clear(p), ending # "gone"
  PROVE  Orderly'
<1> DEFINE c == stage[p].in
<1>1. /\ pc[p] = "clock" /\ c \in Ids /\ c # None /\ pc' = [pc EXCEPT ![p] = "idle"]
      /\ stage' = [stage EXCEPT ![p] = NoStage]
      /\ UNCHANGED <<to_open, handlerVars, rfd>>
  BY PipeAssumption DEF Clear, Ends, masterVars, ioVars, MatchInv, FakeInv, TypeInv, Redirected
<1>2. \A q \in Procs : q # p => pc[q] = "idle"
  BY <1>1 DEF MatchInv, Orderly, OneActive
<1>3. \A q \in Procs : pc'[q] = "idle" /\ rfd'[q] = 0
  BY <1>1, <1>2 DEF MatchInv, Orderly, OneActive, FakeInv, TypeInv, PipeTypeOK, SessionTypes
<1>4. /\ to_close = None /\ ~signal /\ master \notin {"read", "close", "closed", "forgotten"}
      /\ \A i \in Ids : ~Unopened(i)
  <2>1. to_close = None
    BY <1>1 DEF MatchInv, Orderly, CloseRequest
  <2>2. \A i \in Ids : ~Unopened(i)
    BY <1>1, <1>2 DEF MatchInv, Orderly, OpenRequest
  <2>3. to_open = None \/ master \notin {"idle", "read", "open"}
    BY <2>2 DEF Unopened, MatchInv, FakeInv, TypeInv, PipeTypeOK, CellTypes
  <2> QED
    BY <2>1, <2>2, <2>3 DEF MatchInv, Orderly, OpenRequest, CloseRequest
<1>5. /\ OneActive' /\ \A i \in Ids : ~Unopened(i)' /\ (Asked(i)' <=> Asked(i))
      /\ UNCHANGED <<fake, readers, opened, master, open_id, close_id>>
  BY <1>1, <1>3, <1>4 DEF OneActive, Unopened, Asked, handlerVars
<1>6. CASE /\ valid' = [valid EXCEPT ![c] = FALSE] /\ to_close' = c /\ signal' = TRUE
           /\ fifo' = [fifo EXCEPT ![c] = 0]
  <2>1. ~valid'[c] /\ \A i \in Ids \ {c} : valid'[i] = valid[i] /\ fifo'[i] = fifo[i]
    BY <1>1, <1>6 DEF MatchInv, FakeInv, TypeInv, PipeTypeOK, EntryTypes
  <2>2. OpenRequest'
    BY <1>1, <1>3, <1>4, <1>5, <1>6 DEF MatchInv, Orderly, OpenRequest
  <2>3. CloseRequest'
    BY <1>1, <1>3, <1>4, <1>5, <1>6, <2>1 DEF CloseRequest
  <2>4. Recorded'
    <3>1. master = "record" /\ to_open # c => to_open \in Ids \ {c}
      BY <1>1 DEF MatchInv, Orderly, OpenRequest, FakeInv, TypeInv, PipeTypeOK, CellTypes
    <3>2. /\ \A i \in Ids :
                IF valid[i] /\ ~Asked(i) THEN fake[i] = fifo[i] ELSE fake[i] \notin FIFOs
          /\ master = "record" => valid[to_open] /\ opened = fifo[to_open]
      BY <1>4, PipeAssumption DEF MatchInv, Orderly, OpenRequest, Recorded
    <3> QED
      BY <1>1, <1>5, <1>6, <2>1, <3>1, <3>2 DEF MatchInv, Orderly, Recorded
  <2> QED
    BY <1>5, <2>2, <2>3, <2>4 DEF Orderly
<1>7. CASE UNCHANGED <<valid, fifo, to_close, signal>>
  <2>1. OpenRequest'
    BY <1>1, <1>3, <1>5, <1>7 DEF MatchInv, Orderly, OpenRequest
  <2>2. CloseRequest'
    BY <1>1, <1>4, <1>5, <1>7 DEF MatchInv, Orderly, CloseRequest
  <2>3. Recorded'
    BY <1>1, <1>4, <1>5, <1>7 DEF MatchInv, Orderly, Recorded
  <2> QED
    BY <1>5, <2>1, <2>2, <2>3 DEF Orderly
<1> QED
  BY <1>6, <1>7 DEF Clear, AskClose

LEMMA HandlerMatches ==
  ASSUME MatchInv, HandlerStep
  PROVE  Orderly'
<1> USE DEF Orderly, HandlerAt
<1>1. /\ ending # "gone" /\ UNCHANGED <<valid, fifo, pc, stage, rfd>>
      /\ None \notin Ids /\ to_open \in Ids \cup {None} /\ to_close \in Ids \cup {None}
  BY PipeAssumption
  DEF HandlerStep, HandlerStart, HandlerRead, HandlerOpen, HandlerRecord, HandlerOpened,
      HandlerClose, HandlerForget, HandlerClosed, sessionVars, ioVars, fifoVars, MatchInv,
      FakeInv, TypeInv, PipeTypeOK, CellTypes
<1>2. FakeInv /\ OneActive /\ OpenRequest /\ CloseRequest /\ Recorded /\ HandlerIds /\ OwnOpened
      /\ Served
  BY <1>1 DEF MatchInv, FakeInv, TypeInv
<1>3. OneActive' /\ Numbers
  BY <1>1, <1>2, NumbersOK DEF OneActive, FakeInv
<1>4. CASE HandlerStart
  <2>1. /\ master = "idle" /\ signal /\ ~signal' /\ open_id' = to_open /\ master' = "read"
        /\ UNCHANGED <<to_open, to_close, fake, readers, opened, close_id>>
    BY <1>4 DEF HandlerStart
  <2>2. OpenRequest' /\ CloseRequest'
    BY <1>1, <1>2, <2>1 DEF OpenRequest, CloseRequest, Unopened
  <2>3. \A i \in Ids : Asked(i)' <=> Asked(i)
    BY <2>1 DEF Asked
  <2>4. Recorded'
    BY <1>1, <1>2, <2>1, <2>3 DEF Recorded
  <2> QED
    BY <1>3, <2>2, <2>4
<1>5. CASE HandlerRead
  <2>1. /\ master = "read" /\ close_id' = to_close
        /\ master' = IF to_open # None THEN "open" ELSE "close"
        /\ UNCHANGED <<to_open, to_close, signal, fake, readers, opened, open_id>>
    BY <1>2, <1>5 DEF HandlerRead, OpenRequest, cellVars
  <2>2. to_open # None => to_close = None
    BY <1>1, <1>2, <2>1 DEF OpenRequest, CloseRequest, Unopened
  <2>3. OpenRequest' /\ CloseRequest'
    BY <1>1, <1>2, <2>1, <2>2 DEF OpenRequest, CloseRequest, Unopened
  <2>4. \A i \in Ids : Asked(i)' <=> Asked(i)
    BY <1>1, <2>1 DEF Asked
  <2>5. Recorded'
    BY <1>1, <1>2, <2>1, <2>4 DEF Recorded
  <2> QED
    BY <1>3, <2>3, <2>5
<1>6. CASE HandlerOpen
  <2>1. /\ master = "open" /\ master' = "record" /\ to_open \in Ids /\ open_id = to_open
        /\ opened' = fifo[to_open]
        /\ readers' = readers \cup ({fifo[to_open]} \ {0})
        /\ UNCHANGED <<to_open, to_close, signal, open_id, close_id, fake>>
    BY <1>1, <1>2, <1>6 DEF HandlerOpen, OpenRequest, cellVars
  <2>2. valid[to_open] /\ opened = 0
    BY <1>2, <2>1 DEF OpenRequest, Unopened, OwnOpened
  <2>3. OpenRequest' /\ CloseRequest' /\ \A i \in Ids : Asked(i)' <=> Asked(i)
    BY <1>1, <1>2, <2>1 DEF OpenRequest, CloseRequest, Unopened, Asked
  <2>4. Recorded'
    BY <1>1, <1>2, <1>3, <2>1, <2>2, <2>3 DEF Recorded, Numbers
  <2> QED
    BY <1>3, <2>3, <2>4
<1>7. CASE HandlerRecord
  <2>1. /\ master = "record" /\ master' = "opened" /\ to_open \in Ids /\ open_id = to_open
        /\ opened' = 0 /\ fake' = [fake EXCEPT ![to_open] = opened]
        /\ UNCHANGED <<to_open, to_close, signal, open_id, close_id, readers>>
    BY <1>1, <1>2, <1>7 DEF HandlerRecord, OpenRequest, cellVars
  <2>2. OpenRequest' /\ CloseRequest' /\ \A i \in Ids : ~Asked(i)'
    BY <1>1, <1>2, <2>1 DEF OpenRequest, CloseRequest, Unopened, Asked
  <2>3. /\ fake'[to_open] = opened
        /\ \A i \in Ids \ {to_open} : fake'[i] = fake[i] /\ ~Asked(i)
    BY <1>3, <2>1 DEF Numbers, Asked
  <2>4. fake[to_open] \notin FIFOs
    BY <1>2, <2>1 DEF Recorded, Asked
  <2>5. \A f \in FIFOs : f \in readers <=> \E i \in Ids : fake'[i] = f
    BY <1>2, <2>1, <2>3, <2>4 DEF Recorded
  <2>6. \A i \in Ids : IF valid[i] THEN fake'[i] = fifo[i]
                       ELSE fake'[i] \in FIFOs => i = to_close
    BY <1>1, <1>2, <2>1, <2>3 DEF Recorded, CloseRequest
  <2>7. 0 \notin FIFOs
    BY <1>3 DEF Numbers
  <2>8. Recorded'
    BY <1>1, <1>2, <2>1, <2>2, <2>5, <2>6, <2>7 DEF Recorded
  <2> QED
    BY <1>3, <2>2, <2>8
<1>8. CASE HandlerOpened
  <2>1. /\ master = "opened" /\ master' = "idle" /\ to_open' = None
        /\ UNCHANGED <<to_close, signal, close_id, fake, readers, opened>>
    BY <1>2, <1>8 DEF HandlerOpened, OpenRequest
  <2>2. OpenRequest' /\ CloseRequest' /\ \A i \in Ids : ~Asked(i)' /\ ~Asked(i)
    BY <1>1, <1>2, <2>1 DEF OpenRequest, CloseRequest, Unopened, Asked
  <2>3. Recorded'
    BY <1>1, <1>2, <2>1, <2>2 DEF Recorded
  <2> QED
    BY <1>3, <2>2, <2>3
<1>9. CASE HandlerClose
  <2>1. /\ master = "close" /\ master' = "closed" /\ to_open = None
        /\ close_id \in Ids /\ close_id = to_close
        /\ UNCHANGED <<to_open, to_close, signal, open_id, close_id, fake, opened>>
        /\ \E S \in ClosedBy(fake[close_id]) : readers' = readers \ S
    BY <1>1, <1>2, <1>9 DEF HandlerClose, OpenRequest, CloseRequest, cellVars
  <2>2. readers' = readers \ {fake[close_id]} /\ opened = 0
    BY <1>2, <2>1 DEF ClosedBy, Served, Known, OwnOpened
  <2>3. OpenRequest' /\ CloseRequest' /\ \A i \in Ids : ~Asked(i)' /\ ~Asked(i)
    BY <1>1, <1>2, <2>1 DEF OpenRequest, CloseRequest, Unopened, Asked
  <2>4. \A i \in Ids : fake[i] \in FIFOs /\ fake[i] = fake[close_id] => i = close_id
    BY <1>2, <2>1 DEF FakeInv, OwnReader
  <2>5. \A f \in FIFOs : f \in readers' <=>
          f = opened \/ \E i \in Ids : fake[i] = f /\ i # close_id
    BY <1>2, <1>3, <2>1, <2>2, <2>4 DEF Recorded, Numbers
  <2>6. Recorded'
    BY <1>1, <1>2, <2>1, <2>3, <2>5 DEF Recorded
  <2> QED
    BY <1>3, <2>3, <2>6
<1>10. CASE HandlerForget
  <2>1. /\ master = "closed" /\ master' = "forgotten" /\ to_open = None
        /\ close_id \in Ids /\ close_id = to_close /\ fake' = [fake EXCEPT ![close_id] = 0]
        /\ UNCHANGED <<to_open, to_close, signal, open_id, close_id, readers, opened>>
    BY <1>1, <1>2, <1>10 DEF HandlerForget, OpenRequest, CloseRequest, cellVars
  <2>2. OpenRequest' /\ CloseRequest' /\ \A i \in Ids : ~Asked(i)' /\ ~Asked(i)
    BY <1>1, <1>2, <2>1 DEF OpenRequest, CloseRequest, Unopened, Asked
  <2>3. fake'[close_id] = 0 /\ \A i \in Ids \ {close_id} : fake'[i] = fake[i]
    BY <1>3, <2>1 DEF Numbers
  <2>4. \A f \in FIFOs : f \in readers <=> f = opened \/ \E i \in Ids : fake'[i] = f
    BY <1>2, <1>3, <2>1, <2>3 DEF Recorded, Numbers
  <2>5. ~valid[close_id] /\ 0 \notin FIFOs
    BY <1>1, <1>2, <1>3, <2>1 DEF CloseRequest, Numbers
  <2>6. \A i \in Ids : IF valid[i] THEN fake'[i] = fifo[i] ELSE fake'[i] \notin FIFOs
    BY <1>2, <2>1, <2>2, <2>3, <2>5 DEF Recorded
  <2>7. Recorded'
    BY <1>1, <1>2, <2>1, <2>2, <2>3, <2>4, <2>5, <2>6 DEF Recorded
  <2> QED
    BY <1>3, <2>2, <2>7
<1>11. CASE HandlerClosed
  <2>1. /\ master = "forgotten" /\ master' = "idle" /\ to_open = None
        /\ to_close' = None /\ UNCHANGED <<to_open, signal, fake, readers, opened>>
    BY <1>1, <1>2, <1>11 DEF HandlerClosed, OpenRequest
  <2>2. OpenRequest' /\ CloseRequest' /\ \A i \in Ids : ~Asked(i)' /\ ~Asked(i)
    BY <1>1, <1>2, <2>1 DEF OpenRequest, CloseRequest, Unopened, Asked
  <2>3. to_close \in Ids => fake[to_close] \notin FIFOs
    BY <1>2, <2>1 DEF Recorded, CloseRequest
  <2>4. Recorded'
    BY <1>1, <1>2, <2>1, <2>2, <2>3 DEF Recorded, CloseRequest
  <2> QED
    BY <1>3, <2>2, <2>4
<1> QED
  BY <1>4, <1>5, <1>6, <1>7, <1>8, <1>9, <1>10, <1>11 DEF HandlerStep

LEMMA MatchInvStep ==
  ASSUME ~Overlap
  PROVE  MatchInv /\ [PipeNext]_pipeVars => MatchInv'
<1> SUFFICES ASSUME MatchInv, [PipeNext]_pipeVars, ending' # "gone" PROVE Orderly'
  BY FakeInvStep DEF MatchInv
<1>1. ending # "gone"
  BY DEF PipeNext, pipeVars, MasterStep, HandlerStep, HandlerStart, HandlerRead, HandlerOpen,
         HandlerRecord, HandlerOpened, HandlerClose, HandlerForget, HandlerClosed, HandlerAt,
         ClearAll, Interrupt, Start, SessionStep, Lock, CreateFails, Create,
         OpenWrite, OpenRead, OpenReadFails, Run, Unknown, Clear, masterVars
<1>2. CASE Interrupt \/ UNCHANGED pipeVars
  <2>1. UNCHANGED <<handlerVars, cellVars, sessionVars, fifoVars>>
    BY <1>2 DEF Interrupt, pipeVars, masterVars
  <2> QED
    BY <1>1, <2>1 DEF MatchInv, Orderly, OneActive, OpenRequest, CloseRequest, Recorded, Asked,
                      Unopened, handlerVars, cellVars, sessionVars, ioVars, fifoVars
<1>3. CASE MasterStep
  BY <1>3, HandlerMatches DEF MasterStep, ClearAll
<1>4. ASSUME NEW p \in Procs, Start(p) \/ SessionStep(p) PROVE Orderly'
  BY <1>1, <1>4, StartMatches, SessionMatches, CreateMatches, ClearMatches DEF SessionStep
<1> QED
  BY <1>2, <1>3, <1>4 DEF PipeNext

LEMMA MatchInvHolds == ~Overlap => (PipeSpec => []MatchInv)
<1> SUFFICES ASSUME ~Overlap PROVE PipeSpec => []MatchInv
  OBVIOUS
<1> QED
  BY MatchInvInit, MatchInvStep, PTL DEF PipeSpec

(* Once its requests are served the master has a reader of every pipe in   *)
(* use and no other (v2/pub_pipe_mgmt.hpp:164-193), for any stages, also   *)
(* after it was interrupted, as long as sessions take turns.               *)
THEOREM ReadersSettle == ~Overlap => (PipeSpec => []ReadersMatch)
<1> SUFFICES ASSUME ~Overlap PROVE PipeSpec => []ReadersMatch
  OBVIOUS
<1>1. MatchInv => ReadersMatch
  <2> SUFFICES ASSUME MatchInv, master = "idle", ~signal, ending # "gone"
               PROVE  readers = {fifo[i] : i \in {j \in Ids : valid[j]}}
    BY DEF ReadersMatch
  <2>1. to_open = None /\ to_close = None
    BY DEF MatchInv, Orderly, OpenRequest, CloseRequest
  <2>2. opened = 0 /\ readers \subseteq FIFOs /\ 0 \notin FIFOs
    BY NumbersOK DEF MatchInv, FakeInv, OwnOpened, TypeInv, PipeTypeOK, MasterTypes, Numbers
  <2>3. \A i \in Ids : /\ valid[i] => fake[i] = fifo[i] /\ fifo[i] \in FIFOs
                       /\ fake[i] \in FIFOs => valid[i]
    <3>1. \A i \in Ids : fifo[i] \in 0 .. MaxFifo /\ MaxFifo \in Nat
      BY PipeAssumption DEF MatchInv, FakeInv, TypeInv, PipeTypeOK, EntryTypes
    <3> QED
      BY <2>1, <3>1, PipeAssumption DEF MatchInv, Orderly, Recorded, Asked, FIFOs
  <2>4. \A f \in FIFOs : f \in readers <=> \E i \in Ids : fake[i] = f
    BY <2>2 DEF MatchInv, Orderly, Recorded
  <2> QED
    BY <2>2, <2>3, <2>4
<1> QED
  BY <1>1, MatchInvHolds, PTL

-----------------------------------------------------------------------------
(* Lines whose first stage reads, and never the pipe it makes. *)
PlainLines == \A s \in Stages : s.in # None => s.first /\ s.out # s.in

(* A stage has open what it names, and only then. *)
Writing(p) == stage[p].out # None /\ pc[p] \in {"rlock", "run"}
Reading(p) == stage[p].in # None /\ pc[p] = "run"

Descriptors ==
  \A p \in Procs :
    /\ pc[p] = "opening" \/ Writing(p) => stage[p].out \in Ids /\ valid[stage[p].out]
    /\ wfd[p] = IF Writing(p) THEN fifo[stage[p].out] ELSE 0
    /\ Reading(p) => stage[p].in \in Ids /\ valid[stage[p].in]
    /\ rfd[p] = IF Reading(p) THEN fifo[stage[p].in] ELSE 0

(* A pipe that is not written yet, or was just read. *)
Blank(i) ==
  \E p \in Procs :
    \/ pc[p] \in {"opening", "rlock", "run"} /\ i = stage[p].out
    \/ pc[p] = "clock" /\ i = stage[p].in

(* At most one output in a FIFO, of a pipe in use, and one that nobody has. *)
Contents ==
  /\ \A f \in FIFOs : buffer[f] # {} => \E i \in Ids : fifo[i] = f /\ valid[i] /\ ~Blank(i)
  /\ \A f \in FIFOs : buffer[f] \cap got = {} /\ \A m, n \in buffer[f] : m = n
  /\ \A f, g \in FIFOs : f # g => buffer[f] \cap buffer[g] = {}

DataInv == ending # "gone" => Descriptors /\ Contents

(* What Pipes makes of the state. *)
Box == [i \in Ids |-> IF valid[i] THEN buffer[fifo[i]] ELSE {0}]

LEMMA SameBox ==
  ASSUME UNCHANGED <<valid, sent, got>>, ending # "gone", ending' # "gone",
         \A i \in Ids : valid[i] => buffer'[fifo'[i]] = buffer[fifo[i]]
  PROVE  UNCHANGED Pipes!boxVars
<1>1. Box' = Box
  BY DEF Box
<1> QED
  BY <1>1 DEF Box, Pipes!boxVars

LEMMA SameData ==
  ASSUME ending # "gone", ending' # "gone", UNCHANGED <<sent, got>>,
         \A i \in Ids : \/ Box'[i] = Box[i]
                        \/ Box[i] = {0} /\ Box'[i] = {}
                        \/ Box[i] = {} /\ Box'[i] = {0}
  PROVE  Pipes!BoxNext
<1>1. \A i \in Ids : ~Pipes!Fill(i) /\ ~Pipes!Take(i)
  BY DEF Pipes!Fill, Pipes!Take
<1>2. \A i \in Ids : \/ Box'[i] = Box[i]
                     \/ Pipes!Make(i) \/ Pipes!Remove(i)
  BY DEF Pipes!Make, Pipes!Remove, Box
<1> QED
  BY <1>1, <1>2 DEF Pipes!BoxNext, Pipes!Moves, Box

LEMMA InBuffer ==
  ASSUME MatchInv, ending # "gone", NEW i \in Ids, valid[i]
  PROVE  fifo[i] \in FIFOs
<1>1. fifo[i] \in 0 .. MaxFifo /\ fifo[i] # 0 /\ MaxFifo \in Nat
  BY PipeAssumption
  DEF MatchInv, Orderly, Recorded, FakeInv, TypeInv, PipeTypeOK, EntryTypes
<1> QED
  BY <1>1 DEF FIFOs

(* While a session is on turn, the others are at their prompts. *)
LEMMA OthersIdle ==
  ASSUME MatchInv, DataInv, ending # "gone", NEW p \in Procs, pc[p] # "idle"
  PROVE  \A q \in Procs \ {p} : pc[q] = "idle" /\ wfd[q] = 0 /\ rfd[q] = 0
<1>1. \A q \in Procs \ {p} : pc[q] = "idle"
  BY DEF MatchInv, Orderly, OneActive
<1> QED
  BY <1>1 DEF DataInv, Descriptors, Writing, Reading

LEMMA SessionKeeps ==
  ASSUME PlainLines, MatchInv, DataInv, ~Overlap, ending # "gone", NEW p \in Procs,
         \/ Start(p) \/ Lock(p) \/ CreateFails(p) \/ OpenWrite(p) \/ OpenRead(p)
         \/ OpenReadFails(p)
  PROVE  DataInv' /\ UNCHANGED Pipes!boxVars
<1> USE DEF Goto, Ends
<1>1. /\ UNCHANGED <<valid, fifo, dataVars, ending>>
      /\ \A q \in Procs \ {p} : /\ pc'[q] = pc[q] /\ stage'[q] = stage[q]
                                /\ wfd'[q] = wfd[q] /\ rfd'[q] = rfd[q]
  BY DEF Start, Lock, CreateFails, OpenWrite, OpenRead, OpenReadFails, fifoVars, masterVars,
         ioVars, MatchInv, FakeInv, TypeInv, PipeTypeOK, SessionTypes
<1>2. Descriptors /\ Contents
  BY DEF DataInv
<1>3. \A q \in Procs \ {p} : pc[q] = "idle"
  BY OthersIdle DEF Start, Lock, CreateFails, OpenWrite, OpenRead, OpenReadFails, Quiet
<1>4. Redirected' /\ None \notin Ids
  BY StartTypes, LockTypes, CreateFailsTypes, OpenWriteTypes, OpenReadTypes,
     OpenReadFailsTypes, PipeAssumption DEF MatchInv, FakeInv, TypeInv
<1>5. /\ pc \in [Procs -> PCs] /\ stage \in [Procs -> Stages \cup {NoStage}]
      /\ wfd \in [Procs -> 0 .. MaxFifo] /\ rfd \in [Procs -> 0 .. MaxFifo]
      /\ Redirected
  BY DEF MatchInv, FakeInv, TypeInv, PipeTypeOK, SessionTypes
<1>6. stage[p].in # None => stage[p].first
  BY <1>5 DEF PlainLines, NoStage
<1>7. Descriptors'
  <2> SUFFICES /\ pc'[p] = "opening" \/ Writing(p)' =>
                    stage'[p].out \in Ids /\ valid[stage'[p].out]
               /\ wfd'[p] = IF Writing(p)' THEN fifo[stage'[p].out] ELSE 0
               /\ Reading(p)' => stage'[p].in \in Ids /\ valid[stage'[p].in]
               /\ rfd'[p] = IF Reading(p)' THEN fifo[stage'[p].in] ELSE 0
    BY <1>1, <1>2 DEF Descriptors, Writing, Reading
  <2> USE <1>2, <1>4, <1>5, <1>6 DEF Descriptors, Writing, Reading, ioVars
  <2>1. CASE Start(p)
    <3>1. PICK s \in Stages :
            /\ stage' = [stage EXCEPT ![p] = s]
            /\ pc' = [pc EXCEPT ![p] = IF s.out # None THEN "wlock" ELSE AtInput(s)]
      BY <2>1 DEF Start
    <3>2. /\ stage'[p] = s /\ pc'[p] \in {"wlock", "rlock", "run"}
          /\ s.out # None => pc'[p] = "wlock"
          /\ s.in # None => pc'[p] # "run"
      BY <3>1 DEF AtInput, PlainLines
    <3>3. pc[p] = "idle" /\ wfd' = wfd /\ rfd' = rfd
      BY <2>1 DEF Start
    <3> QED
      BY <3>2, <3>3
  <2>2. CASE Lock(p)
    BY <2>2 DEF Lock
  <2>3. CASE CreateFails(p)
    BY <2>3 DEF CreateFails
  <2>4. CASE OpenWrite(p)
    <3>1. /\ pc[p] = "opening" /\ pc'[p] \in {"rlock", "run"} /\ stage' = stage
          /\ stage[p].in # None => pc'[p] = "rlock"
          /\ wfd'[p] = fifo[stage[p].out] /\ rfd' = rfd
      BY <2>4 DEF OpenWrite, AtInput
    <3> QED
      BY <3>1
  <2>5. CASE OpenRead(p)
    <3>1. /\ pc[p] = "rlock" /\ pc'[p] = "run" /\ stage' = stage /\ valid[stage[p].in]
          /\ stage[p].in \in Ids /\ rfd'[p] = fifo[stage[p].in] /\ wfd' = wfd
      BY <2>5 DEF OpenRead, Redirected
    <3> QED
      BY <3>1
  <2>6. CASE OpenReadFails(p)
    <3>1. /\ pc[p] = "rlock" /\ pc'[p] = "idle" /\ wfd'[p] = 0 /\ rfd' = rfd
      BY <2>6 DEF OpenReadFails
    <3> QED
      BY <3>1
  <2> QED
    BY <2>1, <2>2, <2>3, <2>4, <2>5, <2>6
<1>8. \A i \in Ids : Blank(i)' => Blank(i)
  <2> SUFFICES ASSUME NEW i \in Ids, Blank(i)' PROVE Blank(i)
    OBVIOUS
  <2>1. \/ pc'[p] \in {"opening", "rlock", "run"} /\ i = stage'[p].out
        \/ pc'[p] = "clock" /\ i = stage'[p].in
    BY <1>1, <1>3 DEF Blank
  <2>2. ~Start(p)
    BY <1>4, <1>5, <2>1 DEF Start, AtInput
  <2>3. pc'[p] # "idle" /\ ~CreateFails(p) /\ ~OpenReadFails(p)
    BY <1>5, <2>1 DEF CreateFails, OpenReadFails
  <2>4. ~Lock(p)
    BY <1>5, <2>1 DEF Lock
  <2>5. stage'[p] = stage[p] /\ pc'[p] # "clock" /\ pc[p] \in {"opening", "rlock"}
    BY <1>5, <2>1, <2>2, <2>3, <2>4 DEF OpenWrite, OpenRead, AtInput
  <2> QED
    BY <2>1, <2>5 DEF Blank
<1>9. Contents'
  BY <1>1, <1>2, <1>8 DEF Contents, dataVars
<1> QED
  BY <1>1, <1>7, <1>9, SameBox DEF DataInv, dataVars

LEMMA CreateKeeps ==
  ASSUME MatchInv, DataInv, ending # "gone", NEW p \in Procs, Create(p)
  PROVE  DataInv' /\ Pipes!BoxNext
<1> DEFINE o == stage[p].out
<1>1. /\ pc[p] = "create" /\ pc' = [pc EXCEPT ![p] = "opening"] /\ stage' = stage
      /\ o \in Ids /\ ~valid[o] /\ valid' = [valid EXCEPT ![o] = TRUE]
      /\ UNCHANGED <<wfd, rfd, buffer, sent, got, ending>>
      /\ \/ fifo[o] # 0 /\ UNCHANGED <<last, fifo>>
         \/ last' = last + 1 /\ fifo' = [fifo EXCEPT ![o] = last + 1]
  BY DEF Create, Goto, Existed, ioVars, dataVars, masterVars, MatchInv, FakeInv, TypeInv,
         Redirected
<1>2. Descriptors /\ Contents
  BY DEF DataInv
<1>3. /\ valid \in [Ids -> BOOLEAN] /\ fifo \in [Ids -> 0 .. MaxFifo] /\ last \in Nat
      /\ pc \in [Procs -> PCs] /\ fifo' \in [Ids -> 0 .. MaxFifo] /\ OwnFile'
      /\ \A i \in Ids : valid'[i] => fifo'[i] # 0
  <2>1. TypeInv' /\ TypeInv
    BY CreateTypes DEF MatchInv, FakeInv
  <2>2. OwnFile' /\ Orderly'
    <3>1. [PipeNext]_pipeVars
      BY DEF PipeNext, SessionStep
    <3>2. FakeInv'
      BY <3>1, FakeInvStep DEF MatchInv
    <3> QED
      BY <3>2, CreateMatches DEF FakeInv
  <2> QED
    BY <2>1, <2>2, PipeAssumption
    DEF TypeInv, PipeTypeOK, EntryTypes, SessionTypes, Orderly, Recorded
<1>4. valid'[o] /\ fifo'[o] \in FIFOs
  BY <1>1, <1>3, PipeAssumption DEF FIFOs
<1>5. \A i \in Ids \ {o} : valid'[i] = valid[i] /\ fifo'[i] = fifo[i] /\ fifo'[i] # fifo'[o]
  <2>1. \A i \in Ids \ {o} : valid'[i] = valid[i] /\ fifo'[i] = fifo[i]
    BY <1>1, <1>3
  <2>2. \A i \in Ids \ {o} : fifo'[i] # fifo'[o]
    BY <1>1, <1>3, <1>4 DEF OwnFile, FIFOs
  <2> QED
    BY <2>1, <2>2
<1>6. buffer[fifo'[o]] = {}
  <2> SUFFICES ASSUME buffer[fifo'[o]] # {} PROVE FALSE
    OBVIOUS
  <2>1. PICK i \in Ids : fifo[i] = fifo'[o] /\ valid[i]
    BY <1>2, <1>4 DEF Contents
  <2> QED
    BY <1>1, <1>5, <2>1
<1>7. pc'[p] = "opening" /\ \A q \in Procs \ {p} : pc'[q] = pc[q] /\ pc[q] = "idle"
  BY <1>1, <1>3, OthersIdle
<1>8. Descriptors'
  BY <1>1, <1>2, <1>4, <1>7 DEF Descriptors, Writing, Reading
<1>9. Contents'
  <2>1. ASSUME NEW f \in FIFOs, buffer[f] # {}
        PROVE  \E i \in Ids : fifo'[i] = f /\ valid'[i] /\ ~Blank(i)'
    <3>1. PICK i \in Ids : fifo[i] = f /\ valid[i]
      BY <1>2, <2>1 DEF Contents
    <3>2. i # o
      BY <1>1, <3>1
    <3>3. ~Blank(i)'
      BY <1>1, <1>7, <3>2 DEF Blank
    <3> QED
      BY <1>5, <3>1, <3>2, <3>3
  <2> QED
    BY <1>1, <1>2, <2>1 DEF Contents
<1>10. Pipes!BoxNext
  <2>1. \A i \in Ids \ {o} : Box'[i] = Box[i]
    BY <1>1, <1>5 DEF Box
  <2>2. Box[o] = {0} /\ Box'[o] = {}
    BY <1>1, <1>4, <1>6 DEF Box
  <2> QED
    BY <1>1, <2>1, <2>2, SameData
<1> QED
  BY <1>8, <1>9, <1>10 DEF DataInv

LEMMA ClearKeeps ==
  ASSUME MatchInv, DataInv, ending # "gone", NEW p \in Procs, Clear(p)
  PROVE  DataInv' /\ Pipes!BoxNext
<1> DEFINE c == stage[p].in
<1>1. /\ pc[p] = "clock" /\ pc' = [pc EXCEPT ![p] = "idle"] /\ c \in Ids
      /\ stage' = [stage EXCEPT ![p] = NoStage]
      /\ UNCHANGED <<wfd, rfd, buffer, sent, got, ending>>
      /\ \/ /\ valid[c] /\ valid' = [valid EXCEPT ![c] = FALSE]
            /\ fifo' = [fifo EXCEPT ![c] = 0]
         \/ ~valid[c] /\ UNCHANGED <<valid, fifo>>
  BY DEF Clear, Ends, ioVars, dataVars, masterVars, MatchInv, FakeInv, TypeInv, Redirected
<1>2. Descriptors /\ Contents
  BY DEF DataInv
<1>3. /\ valid \in [Ids -> BOOLEAN] /\ fifo \in [Ids -> 0 .. MaxFifo]
      /\ pc \in [Procs -> PCs] /\ OwnFile
  BY DEF MatchInv, FakeInv, TypeInv, PipeTypeOK, EntryTypes, SessionTypes
<1>4. \A q \in Procs : pc'[q] = "idle" /\ wfd'[q] = 0 /\ rfd'[q] = 0
  BY <1>1, <1>2, <1>3, OthersIdle DEF Descriptors, Writing, Reading
<1>5. Descriptors'
  BY <1>4 DEF Descriptors, Writing, Reading
<1>6. ~valid'[c] /\ \A i \in Ids \ {c} : valid'[i] = valid[i] /\ fifo'[i] = fifo[i]
  BY <1>1, <1>3
<1>7. \A i \in Ids : ~Blank(i)'
  BY <1>4 DEF Blank
<1>8. Blank(c)
  BY <1>1 DEF Blank
<1>9. Contents'
  BY <1>1, <1>2, <1>6, <1>7, <1>8 DEF Contents
<1>10. \A i \in Ids \ {c} : Box'[i] = Box[i]
  BY <1>1, <1>6 DEF Box
<1>11. Box'[c] = {0} /\ (Box[c] = {0} \/ Box[c] = {})
  <2>1. Box'[c] = {0}
    BY <1>1, <1>6 DEF Box
  <2>2. ASSUME valid[c]
        PROVE  buffer[fifo[c]] = {}
    <3>1. fifo[c] \in FIFOs /\ fifo[c] # 0
      BY <1>1, <2>2, InBuffer, PipeAssumption DEF FIFOs
    <3>2. \A i \in Ids : fifo[i] = fifo[c] => i = c
      BY <1>1, <1>3, <3>1 DEF OwnFile
    <3> QED
      BY <1>2, <1>8, <3>1, <3>2 DEF Contents
  <2> QED
    BY <1>1, <2>1, <2>2 DEF Box
<1>12. Pipes!BoxNext
  BY <1>1, <1>10, <1>11, SameData
<1> QED
  BY <1>5, <1>9, <1>12 DEF DataInv

(* The FIFO files with an output in them are those of pipes in use, of     *)
(* which the master has a reader, or is about to open it.                  *)
LEMMA HeldOutputs ==
  ASSUME MatchInv, DataInv, ending # "gone", NEW f \in FIFOs, buffer[f] # {}
  PROVE  /\ f \in readers
         /\ \E i \in Ids : fifo[i] = f /\ valid[i] /\ (fake[i] = f \/ master = "record")
<1>1. PICK i \in Ids : fifo[i] = f /\ valid[i] /\ ~Blank(i)
  BY DEF DataInv, Contents
<1>2. ~Unopened(i) /\ i # to_close
  BY <1>1, PipeAssumption DEF MatchInv, Orderly, OpenRequest, CloseRequest, Blank
<1>3. CASE Asked(i)
  <2>1. master = "record" /\ to_open = i
    BY <1>2, <1>3 DEF Asked, Unopened
  <2> QED
    BY <1>1, <1>2, <2>1 DEF MatchInv, Orderly, Recorded
<1>4. CASE ~Asked(i)
  <2>1. fake[i] = f
    BY <1>1, <1>4 DEF MatchInv, Orderly, Recorded
  <2>2. ~(master = "closed" /\ close_id = i)
    BY <1>2 DEF MatchInv, Orderly, CloseRequest
  <2> QED
    BY <1>1, <2>1, <2>2 DEF MatchInv, Orderly, Recorded
<1> QED
  BY <1>3, <1>4

LEMMA UnknownKeeps ==
  ASSUME MatchInv, DataInv, ending # "gone", NEW p \in Procs, Unknown(p)
  PROVE  DataInv' /\ UNCHANGED Pipes!boxVars
<1>1. /\ pc[p] = "run" /\ pc' = [pc EXCEPT ![p] = "idle"]
      /\ wfd' = [wfd EXCEPT ![p] = 0] /\ rfd' = [rfd EXCEPT ![p] = 0]
      /\ buffer' = Held({f \in FIFOs : f \in readers \/ ReadBy(f) \ {p} # {}})
      /\ UNCHANGED <<valid, fifo, sent, got, ending>>
  BY DEF Unknown, Ends, fifoVars, masterVars
<1>2. Descriptors /\ Contents
  BY DEF DataInv
<1>3. /\ pc \in [Procs -> PCs] /\ wfd \in [Procs -> 0 .. MaxFifo]
      /\ rfd \in [Procs -> 0 .. MaxFifo] /\ buffer \in [FIFOs -> SUBSET (1 .. sent)]
  BY DEF MatchInv, FakeInv, TypeInv, PipeTypeOK, SessionTypes, DataTypes
<1>4. \A q \in Procs : pc'[q] = "idle" /\ wfd'[q] = 0 /\ rfd'[q] = 0
  BY <1>1, <1>3, OthersIdle
<1>5. Descriptors'
  BY <1>4 DEF Descriptors, Writing, Reading
<1>6. buffer' = buffer
  BY <1>1, <1>3, HeldOutputs DEF Held
<1>7. \A i \in Ids : ~Blank(i)'
  BY <1>4 DEF Blank
<1>8. Contents'
  BY <1>1, <1>2, <1>6, <1>7 DEF Contents
<1> QED
  BY <1>1, <1>5, <1>6, <1>8, SameBox DEF DataInv

(* The handler closes no reader of a FIFO with an output in it. *)
LEMMA HandlerKeeps ==
  ASSUME MatchInv, DataInv, HandlerStep
  PROVE  DataInv' /\ UNCHANGED Pipes!boxVars
<1>1. /\ ending # "gone" /\ ending' # "gone"
      /\ UNCHANGED <<valid, fifo, pc, stage, wfd, rfd, sent, got>>
  BY DEF HandlerStep, HandlerStart, HandlerRead, HandlerOpen, HandlerRecord, HandlerOpened,
         HandlerClose, HandlerForget, HandlerClosed, HandlerAt, sessionVars, ioVars, fifoVars,
         dataVars
<1>2. Descriptors /\ Contents
  BY <1>1 DEF DataInv
<1>3. buffer' = buffer
  <2>1. CASE HandlerClose
    <3>1. /\ master = "close" /\ close_id \in Ids /\ close_id = to_close /\ ~valid[close_id]
          /\ buffer \in [FIFOs -> SUBSET (1 .. sent)] /\ fake[close_id] # Unset
      BY <1>1, <2>1
      DEF HandlerClose, HandlerAt, MatchInv, Orderly, CloseRequest, FakeInv, Served, Known, TypeInv,
          HandlerIds, PipeTypeOK, DataTypes
    <3>4. \E S \in {{fake[close_id]}} : buffer' = Held({f \in FIFOs : f \notin S \/ ReadBy(f) # {}})
      BY <2>1, <3>1 DEF HandlerClose, ClosedBy
    <3>2. ASSUME NEW f \in FIFOs, buffer[f] # {}
          PROVE  f # fake[close_id]
      <4>1. PICK i \in Ids : valid[i] /\ fake[i] = f
        BY <1>1, <3>1, <3>2, HeldOutputs
      <4>2. f # 0
        BY PipeAssumption DEF FIFOs
      <4> QED
        BY <3>1, <4>1, <4>2 DEF MatchInv, FakeInv, OwnReader
    <3> QED
      BY <3>1, <3>2, <3>4 DEF Held
  <2>2. CASE ~HandlerClose
    BY <2>2 DEF HandlerStep, HandlerStart, HandlerRead, HandlerOpen, HandlerRecord, HandlerOpened,
                HandlerForget, HandlerClosed, dataVars
  <2> QED
    BY <2>1, <2>2
<1>4. Descriptors'
  BY <1>1, <1>2 DEF Descriptors, Writing, Reading
<1>5. \A i \in Ids : Blank(i)' <=> Blank(i)
  BY <1>1 DEF Blank
<1>6. Contents'
  BY <1>1, <1>2, <1>3, <1>5 DEF Contents
<1> QED
  BY <1>1, <1>3, <1>4, <1>6, SameBox DEF DataInv

(* The command takes what is in its "<in" and fills the blank ">out".      *)
RunMoves(o, c, w, r) ==
  /\ UNCHANGED <<valid, fifo, ending>> /\ Descriptors'
  /\ \A i \in Ids : Blank(i)' => i = c
  /\ w # 0 => /\ o \in Ids /\ valid[o] /\ w = fifo[o]
              /\ w \in FIFOs /\ buffer[w] = {} /\ buffer'[w] = {sent'}
  /\ r # 0 => /\ c \in Ids /\ valid[c] /\ r = fifo[c]
              /\ r \in FIFOs /\ buffer'[r] = {}
  /\ c # None => r # 0
  /\ o # None => w # 0
  /\ w # 0 => w # r
  /\ o \in Ids => o # c
  /\ \A f \in FIFOs : f # w /\ f # r => buffer'[f] = buffer[f]
  /\ sent' = (IF w = 0 THEN sent ELSE sent + 1)
  /\ got' = got \cup (IF r = 0 THEN {} ELSE buffer[r])
  /\ buffer' = [f \in FIFOs |-> buffer'[f]]

LEMMA RunData ==
  ASSUME PlainLines, MatchInv, DataInv, ending # "gone", NEW p \in Procs, Run(p)
  PROVE  RunMoves(stage[p].out, stage[p].in, wfd[p], rfd[p])
<1> DEFINE o == stage[p].out
           c == stage[p].in
           w == wfd[p]
           r == rfd[p]
<1>1. /\ pc[p] = "run" /\ UNCHANGED <<valid, fifo, ending>>
      /\ (pc' = [pc EXCEPT ![p] = "clock"] /\ stage' = stage) \/ pc' = [pc EXCEPT ![p] = "idle"]
      /\ sent' = (IF w = 0 THEN sent ELSE sent + 1)
      /\ got' = got \cup UNION {buffer[f] : f \in {r} \ {0}}
      /\ buffer' = [f \in FIFOs |-> (IF f = r THEN {} ELSE buffer[f])
                                     \cup (IF f = w /\ HasReader(f) THEN {sent'} ELSE {})]
      /\ wfd' = [wfd EXCEPT ![p] = 0] /\ rfd' = [rfd EXCEPT ![p] = 0]
  BY DEF Run, Goto, Ends, fifoVars, masterVars
<1>2. Descriptors /\ Contents
  BY DEF DataInv
<1>3. /\ pc \in [Procs -> PCs] /\ wfd \in [Procs -> 0 .. MaxFifo]
      /\ rfd \in [Procs -> 0 .. MaxFifo] /\ stage \in [Procs -> Stages \cup {NoStage}]
      /\ OwnFile /\ None \notin Ids
  BY PipeAssumption DEF MatchInv, FakeInv, TypeInv, PipeTypeOK, SessionTypes
<1>4. /\ \A q \in Procs : wfd'[q] = 0 /\ rfd'[q] = 0 /\ (pc'[q] = "idle" \/ pc'[q] = "clock")
      /\ \A q \in Procs : pc'[q] = "clock" => q = p /\ stage' = stage
  BY <1>1, <1>3, OthersIdle
<1>5. /\ o # None => o \in Ids /\ valid[o] /\ w = fifo[o]
      /\ o = None => w = 0
      /\ c # None => c \in Ids /\ valid[c] /\ r = fifo[c]
      /\ c = None => r = 0
      /\ c # None => c # o
  BY <1>1, <1>2, <1>3 DEF Descriptors, Writing, Reading, PlainLines, NoStage
<1>6. /\ o # None => w \in FIFOs /\ w # 0
      /\ c # None => r \in FIFOs /\ r # 0
  BY <1>5, InBuffer, PipeAssumption DEF FIFOs
<1>7. w # 0 => w # r
  BY <1>3, <1>5, <1>6 DEF OwnFile
<1>8. ASSUME w # 0
      PROVE  HasReader(w)
  <2>1. ~Unopened(o) /\ to_close = None
    BY <1>1, <1>5, <1>8 DEF MatchInv, Orderly, OneActive, OpenRequest, CloseRequest
  <2>2. CASE Asked(o)
    <3>1. master = "record" /\ to_open = o
      BY <2>1, <2>2 DEF Asked, Unopened
    <3>2. opened = w
      BY <1>3, <1>5, <1>8, <2>1, <3>1 DEF MatchInv, Orderly, Recorded
    <3> QED
      BY <1>5, <1>6, <1>8, <3>2 DEF MatchInv, Orderly, Recorded, HasReader
  <2>3. CASE ~Asked(o)
    <3>1. fake[o] = w /\ master # "closed"
      BY <1>3, <1>5, <1>8, <2>1, <2>3 DEF MatchInv, Orderly, Recorded, CloseRequest
    <3> QED
      BY <1>5, <1>6, <1>8, <3>1 DEF MatchInv, Orderly, Recorded, HasReader
  <2> QED
    BY <2>2, <2>3
<1>9. w # 0 => buffer[w] = {}
  <2> SUFFICES ASSUME w # 0, buffer[w] # {} PROVE FALSE
    OBVIOUS
  <2>1. PICK i \in Ids : fifo[i] = w /\ valid[i] /\ ~Blank(i)
    BY <1>2, <1>5, <1>6 DEF Contents
  <2>2. i = o
    BY <1>3, <1>5, <2>1 DEF OwnFile
  <2> QED
    BY <1>1, <2>1, <2>2 DEF Blank
<1>10. got' = got \cup (IF r = 0 THEN {} ELSE buffer[r])
  BY <1>1
<1>11. /\ w # 0 => buffer'[w] = {sent'}
       /\ r # 0 => buffer'[r] = {}
       /\ \A f \in FIFOs : f # w /\ f # r => buffer'[f] = buffer[f]
  BY <1>1, <1>5, <1>6, <1>7, <1>8, <1>9
<1>12. buffer' = [f \in FIFOs |-> buffer'[f]]
  BY <1>1
<1>13. o \in Ids => o # c
  BY <1>3, <1>5
<1>14. Descriptors' /\ \A i \in Ids : Blank(i)' => i = c
  BY <1>4 DEF Descriptors, Writing, Reading, Blank
<1> QED
  BY <1>1, <1>14, <1>5, <1>6, <1>7, <1>9, <1>10, <1>11, <1>12, <1>13 DEF RunMoves

LEMMA RunKeeps ==
  ASSUME PlainLines, MatchInv, DataInv, ending # "gone", NEW p \in Procs, Run(p)
  PROVE  DataInv' /\ Pipes!BoxNext
<1>1. Descriptors /\ Contents /\ OwnFile /\ DataTypes
  BY DEF DataInv, MatchInv, FakeInv, TypeInv, PipeTypeOK
<1> SUFFICES ASSUME NEW o, NEW c, NEW w, NEW r, RunMoves(o, c, w, r)
             PROVE  DataInv' /\ Pipes!BoxNext
  BY RunData
<1>2. RunMoves(o, c, w, r)
  OBVIOUS
<1> USE <1>2 DEF RunMoves
<1>3. sent' \in Nat /\ sent \in Nat /\ 1 .. sent \subseteq 1 .. sent' /\ got' \subseteq 1 .. sent'
  BY <1>1 DEF DataTypes
<1>4. \A f \in FIFOs : \/ f = w /\ w # 0 /\ buffer'[f] = {sent'}
                       \/ f # w /\ buffer'[f] \subseteq buffer[f] /\ buffer'[f] \cap got' = {}
  <2> SUFFICES ASSUME NEW f \in FIFOs, f # w
               PROVE  buffer'[f] \subseteq buffer[f] /\ buffer'[f] \cap got' = {}
    BY DEF FIFOs
  <2>1. CASE f = r
    BY <2>1 DEF FIFOs
  <2>2. CASE f # r
    BY <1>1, <2>2 DEF Contents
  <2> QED
    BY <2>1, <2>2
<1>5. \A f \in FIFOs : buffer[f] \subseteq 1 .. sent
  BY <1>1 DEF DataTypes
<1>6. w # 0 => sent' = sent + 1 /\ sent' \notin 1 .. sent /\ sent' \notin got'
                 /\ sent' \in 1 .. sent'
  BY <1>1, <1>3, <1>5 DEF DataTypes
<1>7. Contents'
  <2>2. \A f \in FIFOs : buffer'[f] # {} => \E i \in Ids : fifo'[i] = f /\ valid'[i] /\ ~Blank(i)'
    <3> SUFFICES ASSUME NEW f \in FIFOs, buffer'[f] # {}
                 PROVE  \E i \in Ids : fifo[i] = f /\ valid[i] /\ i # c
      BY DEF Blank
    <3>1. CASE f = w
      BY <3>1 DEF FIFOs
    <3>2. CASE f # w
      <4>1. buffer[f] # {} /\ f # r
        BY <1>4, <3>2 DEF FIFOs
      <4>2. PICK i \in Ids : fifo[i] = f /\ valid[i]
        BY <1>1, <4>1 DEF Contents
      <4>3. None \notin Ids
        BY PipeAssumption
      <4> QED
        BY <4>1, <4>2, <4>3
    <3> QED
      BY <3>1, <3>2
  <2>3. \A f \in FIFOs : buffer'[f] \cap got' = {} /\ \A m, n \in buffer'[f] : m = n
    BY <1>1, <1>4, <1>6 DEF Contents
  <2>4. \A f, g \in FIFOs : f # g => buffer'[f] \cap buffer'[g] = {}
    BY <1>1, <1>4, <1>5, <1>6 DEF Contents
  <2> QED
    BY <2>2, <2>3, <2>4 DEF Contents
<1>8. Pipes!BoxNext
  <2> DEFINE outputs(n) == {{k} : k \in n}
  <2>1. \A i \in Ids :
          /\ Pipes!Fill(i) <=> Box[i] = {} /\ Box'[i] \in outputs(1 .. sent') \ outputs(1 .. sent)
          /\ Pipes!Take(i) <=> /\ Box[i] \in outputs(1 .. sent) /\ Box'[i] = {}
                              /\ Box[i] \in outputs(got') \ outputs(got)
    BY DEF Pipes!Fill, Pipes!Take, Box
  <2>2. w # 0 => o \in Ids /\ Box[o] = {} /\ Box'[o] = {sent'}
    BY DEF Box
  <2>3. r # 0 => c \in Ids /\ Box[c] = buffer[r] /\ Box'[c] = {}
    BY DEF Box
  <2>4. \A i \in Ids : (i = o /\ w # 0) \/ (i = c /\ r # 0) \/ Box'[i] = Box[i]
    <3> SUFFICES ASSUME NEW i \in Ids, valid[i]
                 PROVE  (i = o /\ w # 0) \/ (i = c /\ r # 0) \/ Box'[i] = Box[i]
      BY DEF Box
    <3>1. fifo[i] \in FIFOs
      BY InBuffer
    <3>2. CASE fifo[i] = w
      BY <1>1, <3>1, <3>2 DEF OwnFile, FIFOs
    <3>3. CASE fifo[i] = r
      BY <1>1, <3>1, <3>3 DEF OwnFile, FIFOs
    <3>4. CASE fifo[i] # w /\ fifo[i] # r
      BY <3>1, <3>4 DEF Box
    <3> QED
      BY <3>2, <3>3, <3>4
  <2>6. w # 0 => {sent'} \in outputs(1 .. sent') \ outputs(1 .. sent)
    BY <1>6
  <2>7. \A i \in Ids : Pipes!Fill(i) <=> i = o /\ w # 0
    BY <2>1, <2>2, <2>3, <2>4, <2>6
  <2>8. r # 0 /\ buffer[r] # {} =>
          buffer[r] \in outputs(1 .. sent) /\ buffer[r] \in outputs(got') \ outputs(got)
    <3> SUFFICES ASSUME r # 0, NEW n \in buffer[r]
                 PROVE  /\ buffer[r] \in outputs(1 .. sent)
                        /\ buffer[r] \in outputs(got') \ outputs(got)
      OBVIOUS
    <3>1. buffer[r] = {n} /\ n \notin got /\ n \in 1 .. sent
      BY <1>1, <1>5 DEF Contents
    <3>2. n \in got'
      OBVIOUS
    <3> QED
      BY <3>1, <3>2
  <2>9. \A i \in Ids : Pipes!Take(i) <=> i = c /\ r # 0 /\ buffer[r] # {}
    <3> SUFFICES ASSUME NEW i \in Ids
                 PROVE  Pipes!Take(i) <=> i = c /\ r # 0 /\ buffer[r] # {}
      OBVIOUS
    <3>1. i = c /\ r # 0 /\ buffer[r] # {} => Pipes!Take(i)
      BY <2>1, <2>3, <2>8
    <3>2. ASSUME Pipes!Take(i)
          PROVE  i = c /\ r # 0 /\ buffer[r] # {}
      <4>1. Box[i] # {} /\ Box'[i] = {}
        BY <2>1, <3>2
      <4> QED
        BY <2>2, <2>3, <2>4, <4>1
    <3> QED
      BY <3>1, <3>2
  <2>10. \A i \in Ids : Box'[i] = Box[i] \/ Pipes!Fill(i) \/ Pipes!Take(i)
    BY <2>3, <2>4, <2>7, <2>9
  <2>11. outputs(1 .. sent') = outputs(1 .. sent) \cup {Box'[i] : i \in {j \in Ids : Pipes!Fill(j)}}
    <3>1. CASE w = 0
      BY <2>7, <3>1
    <3>2. CASE w # 0
      <4>1. {Box'[i] : i \in {j \in Ids : Pipes!Fill(j)}} = {{sent'}}
        <5>1. {j \in Ids : Pipes!Fill(j)} = {o}
          BY <2>2, <2>7, <3>2
        <5>2. Box'[o] = {sent'}
          BY <2>2, <3>2
        <5> QED
          BY ONLY <5>1, <5>2
      <4>2. 1 .. sent' = (1 .. sent) \cup {sent'}
        BY <1>3, <1>6, <3>2
      <4> QED
        BY <4>1, <4>2
    <3> QED
      BY <3>1, <3>2
  <2>12. outputs(got') = outputs(got) \cup {Box[i] : i \in {j \in Ids : Pipes!Take(j)}}
    <3>1. CASE r # 0 /\ buffer[r] # {}
      <4>1. {Box[i] : i \in {j \in Ids : Pipes!Take(j)}} = {buffer[r]}
        BY <2>3, <2>9, <3>1
      <4>2. PICK n \in buffer[r] : buffer[r] = {n}
        BY <1>1, <3>1 DEF Contents
      <4>3. got' = got \cup {n}
        BY <3>1, <4>2
      <4> QED
        BY <4>1, <4>2, <4>3
    <3>2. CASE r = 0 \/ buffer[r] = {}
      BY <2>9, <3>2
    <3> QED
      BY <3>1, <3>2
  <2>13. /\ \A i, j \in Ids : i # j /\ Pipes!Fill(i) /\ Pipes!Fill(j) => Box'[i] # Box'[j]
         /\ ending # "gone" /\ ending' # "gone"
    BY <2>7
  <2> QED
    BY <2>10, <2>11, <2>12, <2>13 DEF Pipes!BoxNext, Pipes!Moves, Box
<1> QED
  BY <1>2, <1>7, <1>8 DEF DataInv


LEMMA DataInvInit == PipeInit => DataInv /\ Pipes!BoxInit
<1> SUFFICES ASSUME PipeInit PROVE DataInv /\ Pipes!BoxInit
  OBVIOUS
<1>1. Descriptors
  BY DEF PipeInit, Descriptors, Writing, Reading
<1>2. Contents
  BY DEF PipeInit, Contents
<1>3. [i \in Ids |-> IF valid[i] THEN buffer[fifo[i]] ELSE {0}] = [i \in Ids |-> {0}]
  BY DEF PipeInit
<1>4. {{n} : n \in 1 .. sent} = {} /\ {{n} : n \in got} = {} /\ (ending = "gone") = FALSE
  BY DEF PipeInit
<1> QED
  BY <1>1, <1>2, <1>3, <1>4 DEF DataInv, Pipes!BoxInit

LEMMA StepKeeps ==
  ASSUME PlainLines, ~Overlap, MatchInv, DataInv, [PipeNext]_pipeVars
  PROVE  DataInv' /\ [Pipes!BoxNext]_(Pipes!boxVars)
<1>1. CASE ending = "gone"
  <2>1. ending' = "gone"
    BY <1>1 DEF PipeNext, pipeVars, MasterStep, HandlerStep, HandlerStart, HandlerRead, HandlerOpen,
                HandlerRecord, HandlerOpened, HandlerClose, HandlerForget, HandlerClosed,
                HandlerAt, ClearAll, Interrupt, Start, SessionStep, Lock,
                CreateFails, Create, OpenWrite, OpenRead, OpenReadFails, Run, Unknown, Clear,
                masterVars
  <2> QED
    BY <2>1 DEF DataInv, Pipes!BoxNext
<1>2. CASE ending # "gone" /\ (Interrupt \/ UNCHANGED pipeVars)
  <2>1. /\ UNCHANGED <<sessionVars, fifoVars, dataVars>>
        /\ ending' # "gone"
    BY <1>2 DEF Interrupt, pipeVars, masterVars
  <2>2. DataInv'
    BY <1>2, <2>1 DEF sessionVars, ioVars, fifoVars, dataVars, DataInv, Descriptors, Writing,
                      Reading, Contents, Blank
  <2> QED
    BY <1>2, <2>1, <2>2, SameBox DEF fifoVars, dataVars
<1>3. CASE ClearAll
  BY <1>3 DEF ClearAll, DataInv, Pipes!BoxNext
<1>4. ASSUME ending # "gone", NEW p \in Procs, Start(p) \/ SessionStep(p)
      PROVE  DataInv' /\ [Pipes!BoxNext]_(Pipes!boxVars)
  BY <1>4, SessionKeeps, CreateKeeps, RunKeeps, UnknownKeeps, ClearKeeps DEF SessionStep
<1> QED
  BY <1>1, <1>2, <1>3, <1>4, HandlerKeeps DEF PipeNext, MasterStep

(* What is written to a pipe waits there until it is read                  *)
(* (v2/shell.hpp:325-358, v2/pub_pipe_mgmt.hpp): sessions that take turns, *)
(* with lines that open the pipe they read and not the one they make, see  *)
(* PublicPipes, whenever the master is interrupted.                        *)
THEOREM OutputsAreKept == PlainLines /\ ~Overlap => (PipeSpec => KeepsOutputs)
<1> SUFFICES ASSUME PlainLines, ~Overlap PROVE PipeSpec => KeepsOutputs
  OBVIOUS
<1>1. PipeInit => DataInv /\ Pipes!BoxInit
  BY DataInvInit
<1>2. MatchInv /\ DataInv /\ [PipeNext]_pipeVars => DataInv' /\ [Pipes!BoxNext]_(Pipes!boxVars)
  BY StepKeeps
<1> QED
  BY <1>1, <1>2, MatchInvHolds, PTL DEF PipeSpec, KeepsOutputs, Pipes!BoxSpec
=============================================================================
