------------------------- MODULE ServerPipesProofs -------------------------
(***************************************************************************)
(* Proofs about ServerPipes, for any finite set of pipes and any stages.   *)
(*                                                                         *)
(* Settled says nothing of the moments in between.  SettleInv does: which  *)
(* request is under way where the server is, and that the server holds a   *)
(* reader of every pipe in use but the one just asked for, and still one   *)
(* of the pipe it is about to close.  DataInv adds what is in the FIFO     *)
(* files: under it every step is a step of PublicPipes.                    *)
(***************************************************************************)
EXTENDS ServerPipes, FiniteSetTheorems, TLAPS

PCs == {"next", "write", "open", "read", "exec", "run", "clear", "kill", "gone"}

Types ==
  /\ valid \in [Ids -> BOOLEAN] /\ fifo \in [Ids -> 0 .. MaxFifo] /\ last \in 0 .. MaxFifo
  /\ fake \in [Ids -> {Unset} \cup 0 .. MaxFifo] /\ signal \in BOOLEAN
  /\ stage \in Stages /\ pc \in PCs

(* A FIFO file belongs to one name; a pipe in use has one. *)
Files ==
  /\ \A i, j \in Ids : fifo[i] = fifo[j] /\ fifo[i] # 0 => i = j
  /\ \A i \in Ids : fifo[i] <= last /\ (valid[i] => fifo[i] # 0)

Opening(i) == pc = "open" /\ signal /\ i = stage.out
Closing(i) == pc = "kill" /\ signal /\ i = stage.in

(* The pipes the server has a reader of. *)
Watched == {i \in Ids : (valid[i] /\ ~Opening(i)) \/ Closing(i)}

Recorded ==
  /\ \A i \in Ids : IF i \in Watched THEN fake[i] = fifo[i] ELSE fake[i] \in {0, Unset}
  /\ readers = {fifo[i] : i \in Watched}

Requests ==
  /\ signal => pc \in {"open", "kill"}
  /\ to_open = IF pc = "open" /\ signal THEN stage.out ELSE None
  /\ to_close = IF pc = "kill" /\ signal THEN stage.in ELSE None

Places ==
  /\ pc = "write" => stage.out # None /\ last < MaxFifo
  /\ pc = "open" => stage.out \in Ids /\ valid[stage.out]
  /\ pc \in {"read", "clear"} => stage.in # None
  /\ pc = "kill" => stage.in \in Ids /\ ~valid[stage.in] /\ fifo[stage.in] # 0

SettleInv == Types /\ Files /\ Places /\ (pc # "gone" => Requests /\ Recorded)

LEMMA Left ==
  ASSUME NEW f \in LeftBehind
  PROVE  /\ f \in [Ids -> 0 .. MaxFifo]
         /\ Cardinality({i \in Ids : f[i] # 0}) \in 0 .. MaxFifo
         /\ \A i \in Ids : f[i] <= Cardinality({j \in Ids : f[j] # 0})
         /\ \A i, j \in Ids : f[i] = f[j] /\ f[i] # 0 => i = j
<1>1. PICK S \in SUBSET Ids : /\ f \in [Ids -> 0 .. Cardinality(S)]
                              /\ \A i \in Ids : f[i] # 0 <=> i \in S
                              /\ \A i, j \in S : f[i] = f[j] => i = j
  BY DEF LeftBehind
<1>2. S = {i \in Ids : f[i] # 0}
  BY <1>1
<1>3. Cardinality(S) \in Nat /\ Cardinality(S) <= Cardinality(Ids) /\ Cardinality(Ids) \in Nat
  BY ServerPipeAssumption, FS_Subset, FS_CardinalityType
<1>4. Cardinality(S) \in 0 .. MaxFifo
  BY <1>3, ServerPipeAssumption
<1>5. f \in [Ids -> 0 .. MaxFifo]
  BY <1>1, <1>3, ServerPipeAssumption
<1> QED
  BY <1>1, <1>2, <1>4, <1>5

LEMMA SettleInvInit == ServerPipeInit => SettleInv
<1> SUFFICES ASSUME ServerPipeInit PROVE SettleInv
  OBVIOUS
<1>1. /\ fifo \in [Ids -> 0 .. MaxFifo] /\ last \in 0 .. MaxFifo
      /\ \A i \in Ids : fifo[i] <= last
      /\ \A i, j \in Ids : fifo[i] = fifo[j] /\ fifo[i] # 0 => i = j
  BY Left DEF ServerPipeInit
<1>2. Types
  <2>1. fake = [i \in Ids |-> Unset]
    BY DEF ServerPipeInit
  <2>2. fake \in [Ids -> {Unset} \cup 0 .. MaxFifo]
    BY <2>1
  <2>3. /\ valid \in [Ids -> BOOLEAN] /\ signal \in BOOLEAN
        /\ stage \in Stages /\ pc \in PCs
    BY DEF ServerPipeInit, PCs
  <2> QED
    BY <1>1, <2>2, <2>3 DEF Types
<1>5. Files
  BY <1>1 DEF ServerPipeInit, Files
<1>3. Places /\ Requests
  BY DEF ServerPipeInit, Places, Requests
<1>4. Recorded
  BY DEF ServerPipeInit, Recorded, Watched, Opening, Closing
<1> QED
  BY <1>2, <1>3, <1>4, <1>5 DEF SettleInv

(* Steps that only move the server or its child, with no request under way. *)
LEMMA QuietStep ==
  ASSUME SettleInv, UNCHANGED <<entryVars, cellVars, heldVars>>, ~signal,
         stage' \in Stages, pc' \in PCs, Places', pc # "gone"
  PROVE  SettleInv'
<1>1. Types' /\ Files'
  BY DEF SettleInv, Types, Files, entryVars, cellVars, heldVars
<1>2. Requests'
  BY DEF SettleInv, Requests, cellVars
<1>3. Watched' = {i \in Ids : valid[i]} /\ Watched = {i \in Ids : valid[i]}
  BY DEF SettleInv, Watched, Opening, Closing, entryVars, cellVars
<1>4. Recorded'
  BY <1>3 DEF SettleInv, Recorded, entryVars, heldVars
<1> QED
  BY <1>1, <1>2, <1>4 DEF SettleInv

LEMMA StageType ==
  ASSUME NEW s \in Stages
  PROVE  s.out \in Numbers \cup {None} /\ s.in \in Numbers \cup {None}
<1>1. s \in [out : Numbers \cup {None}, in : Numbers \cup {None}, first : BOOLEAN]
  BY ServerPipeAssumption
<1> QED
  BY <1>1

LEMMA QuietSteps ==
  ASSUME SettleInv,
         ForkStage \/ WriteFails \/ OpenWrite \/ OpenRead \/ ReadFails \/ Unknown \/ Exec \/ Run
  PROVE  SettleInv'
<1> USE DEF Goto, AtInput
<1>1. UNCHANGED <<entryVars, cellVars, heldVars>>
  BY DEF ForkStage, WriteFails, OpenWrite, OpenRead, ReadFails, Unknown, Exec, Run
<1>2. ~signal
  <2>1. CASE OpenWrite
    <3>1. pc = "open" /\ fifo[stage.out] \in readers /\ stage.out \in Ids /\ valid[stage.out]
      BY <2>1 DEF OpenWrite, SettleInv, Places
    <3>2. PICK i \in Watched : fifo[i] = fifo[stage.out]
      BY <3>1 DEF SettleInv, Recorded
    <3>3. i = stage.out
      BY <3>1, <3>2 DEF SettleInv, Files, Watched
    <3> QED
      BY <3>1, <3>2, <3>3 DEF Watched, Opening, Closing
  <2> QED
    BY <2>1 DEF ForkStage, WriteFails, OpenRead, ReadFails, Unknown, Exec, Run, SettleInv, Requests
<1>3. stage' \in Stages /\ pc' \in PCs /\ pc # "gone"
  BY DEF ForkStage, WriteFails, OpenWrite, OpenRead, ReadFails, Unknown, Exec, Run, SettleInv,
         Types, PCs
<1>4. Places'
  BY <1>1 DEF ForkStage, WriteFails, OpenWrite, OpenRead, ReadFails, Unknown, Exec, Run, SettleInv,
              Places, Usable, entryVars
<1> QED
  BY <1>1, <1>2, <1>3, <1>4, QuietStep

LEMMA CreateSettles ==
  ASSUME SettleInv, Create
  PROVE  SettleInv'
<1>1. /\ pc = "write" /\ pc' = "open" /\ stage' = stage /\ stage.out \in Ids /\ ~valid[stage.out]
      /\ valid' = [valid EXCEPT ![stage.out] = TRUE]
      /\ to_open' = stage.out /\ signal' = TRUE /\ to_close' = None /\ UNCHANGED heldVars
  BY DEF Create, AskOpen, Goto, Existed, SettleInv, Requests
<1>2. /\ fifo' \in [Ids -> 0 .. MaxFifo] /\ last' \in 0 .. MaxFifo /\ Files'
      /\ \A i \in Ids \ {stage.out} : fifo'[i] = fifo[i]
  <2>1. last \in 0 .. MaxFifo /\ last < MaxFifo /\ MaxFifo \in Nat
    BY <1>1, ServerPipeAssumption DEF SettleInv, Types, Places
  <2>2. CASE fifo[stage.out] # 0 /\ UNCHANGED <<last, fifo>>
    BY <1>1, <2>1, <2>2 DEF SettleInv, Types, Files
  <2>3. CASE last' = last + 1 /\ fifo' = [fifo EXCEPT ![stage.out] = last + 1]
    <3>1. last' \in 0 .. MaxFifo /\ last + 1 # 0
      BY <2>1, <2>3
    <3>2. fifo' \in [Ids -> 0 .. MaxFifo]
      BY <2>3, <3>1 DEF SettleInv, Types
    <3>3. \A i \in Ids : fifo'[i] = IF i = stage.out THEN last + 1 ELSE fifo[i]
      BY <2>3 DEF SettleInv, Types
    <3>4. \A i \in Ids : fifo[i] \in Nat /\ fifo[i] <= last
      BY <2>1 DEF SettleInv, Types, Files
    <3>5. \A i, j \in Ids : fifo'[i] = fifo'[j] /\ fifo'[i] # 0 => i = j
      BY <2>1, <3>3, <3>4 DEF SettleInv, Files
    <3>6. \A i \in Ids : fifo'[i] <= last' /\ (valid'[i] => fifo'[i] # 0)
      BY <1>1, <2>1, <2>3, <3>3, <3>4 DEF SettleInv, Types, Files
    <3> QED
      BY <3>1, <3>2, <3>3, <3>5, <3>6 DEF Files
  <2> QED
    BY <2>2, <2>3 DEF Create
<1>3. Types'
  BY <1>1, <1>2 DEF SettleInv, Types, PCs, heldVars
<1>4. Places' /\ Requests'
  BY <1>1, <1>3 DEF Places, Requests, Types
<1>5. stage.out \notin Watched /\ Watched' = Watched
  BY <1>1 DEF SettleInv, Watched, Opening, Closing, Types
<1>6. Recorded'
  BY <1>1, <1>2, <1>5 DEF SettleInv, Recorded, Watched, heldVars
<1> QED
  BY <1>2, <1>3, <1>4, <1>6 DEF SettleInv

LEMMA ClearSettles ==
  ASSUME SettleInv, Clear
  PROVE  SettleInv'
<1>1. CASE Usable(stage.in)
  <2>1. /\ pc = "clear" /\ pc' = "kill" /\ stage' = stage /\ stage.in \in Ids /\ valid[stage.in]
        /\ valid' = [valid EXCEPT ![stage.in] = FALSE]
        /\ to_close' = stage.in /\ signal' = TRUE /\ to_open' = None
        /\ UNCHANGED <<fifo, last, fake, readers>>
    BY <1>1 DEF Clear, Usable, Forget, Goto, SettleInv, Requests, heldVars
  <2>2. Types' /\ Files' /\ Places' /\ Requests'
    BY <2>1 DEF SettleInv, Types, Files, Places, Requests, PCs
  <2>3. Watched' = Watched
    BY <2>1 DEF SettleInv, Watched, Opening, Closing, Types
  <2> QED
    BY <2>1, <2>2, <2>3 DEF SettleInv, Recorded
<1>2. CASE ~Usable(stage.in)
  <2>1. UNCHANGED <<entryVars, cellVars, heldVars>> /\ pc' = "next" /\ stage' = stage /\ pc = "clear"
    BY <1>2 DEF Clear, Goto, entryVars, cellVars
  <2>2. Places' /\ ~signal /\ stage' \in Stages
    BY <2>1 DEF SettleInv, Types, Places, Requests
  <2> QED
    BY <2>1, <2>2, QuietStep DEF PCs
<1> QED
  BY <1>1, <1>2

LEMMA UnlinkSettles ==
  ASSUME SettleInv, Unlink
  PROVE  SettleInv'
<1>1. /\ pc = "kill" /\ ~signal /\ pc' = "next" /\ stage' = stage
      /\ fifo' = [fifo EXCEPT ![stage.in] = 0]
      /\ UNCHANGED <<valid, last, cellVars, heldVars>>
      /\ stage.in \in Ids /\ ~valid[stage.in]
  BY DEF Unlink, Goto, SettleInv, Places
<1>2. Types' /\ Files' /\ Places' /\ Requests'
  BY <1>1, ServerPipeAssumption DEF SettleInv, Types, Files, Places, Requests, PCs, cellVars, heldVars
<1>3. Watched' = Watched /\ stage.in \notin Watched
  BY <1>1 DEF SettleInv, Watched, Opening, Closing, cellVars
<1> QED
  BY <1>1, <1>2, <1>3 DEF SettleInv, Recorded, heldVars, Watched, Types

LEMMA HandleSettles ==
  ASSUME SettleInv, Handle
  PROVE  SettleInv'
<1>1. /\ signal /\ pc # "gone" /\ ~signal' /\ signal' \in BOOLEAN /\ to_open' = None /\ to_close' = None
      /\ UNCHANGED <<valid, fifo, last, pc, stage>>
  BY DEF Handle, entryVars
<1>2. Files' /\ Places' /\ Requests'
  BY <1>1 DEF SettleInv, Files, Places, Requests
<1>3. CASE pc = "open"
  <2> DEFINE o == stage.out
  <2>1. o \in Ids /\ o # None /\ valid[o] /\ to_open = o /\ to_close = None
    BY <1>1, <1>3, ServerPipeAssumption DEF SettleInv, Places, Requests
  <2>2. fake' = [fake EXCEPT ![o] = fifo[o]] /\ readers' = readers \cup ({fifo[o]} \ {0})
    BY <2>1 DEF Handle
  <2>3. Watched' = Watched \cup {o} /\ o \notin Watched
    BY <1>1, <1>3, <2>1 DEF Watched, Opening, Closing
  <2>4. fake' \in [Ids -> {Unset} \cup 0 .. MaxFifo] /\ fifo[o] # 0
    BY <2>1, <2>2 DEF SettleInv, Types, Files
  <2>5. \A i \in Ids : IF i \in Watched' THEN fake'[i] = fifo'[i] ELSE fake'[i] \in {0, Unset}
    BY <1>1, <2>1, <2>2, <2>3 DEF SettleInv, Types, Recorded
  <2>6. readers' = {fifo'[i] : i \in Watched'}
    BY <1>1, <2>1, <2>2, <2>3, <2>4 DEF SettleInv, Recorded
  <2> QED
    BY <1>1, <1>2, <2>4, <2>5, <2>6 DEF SettleInv, Types, Recorded
<1>4. CASE pc = "kill"
  <2> DEFINE c == stage.in
  <2>1. c \in Ids /\ c # None /\ ~valid[c] /\ fifo[c] # 0 /\ to_open = None /\ to_close = c
    BY <1>1, <1>4, ServerPipeAssumption DEF SettleInv, Places, Requests
  <2>3. Watched' = Watched \ {c} /\ c \in Watched
    BY <1>1, <1>4, <2>1 DEF Watched, Opening, Closing
  <2>6. fake[c] = fifo[c] /\ fake[c] # Unset
    <3>1. fake[c] = fifo[c] /\ fifo[c] \in 0 .. MaxFifo
      BY <1>1, <2>1, <2>3 DEF SettleInv, Types, Recorded
    <3> QED
      BY <3>1, ServerPipeAssumption DEF Unset
  <2>2. fake' = [fake EXCEPT ![c] = 0] /\ readers' = readers \ {fake[c]}
    BY <2>1, <2>6 DEF Handle, ClosedBy
  <2>4. fake' \in [Ids -> {Unset} \cup 0 .. MaxFifo]
    BY <2>1, <2>2, ServerPipeAssumption DEF SettleInv, Types
  <2>5. \A i \in Ids : IF i \in Watched' THEN fake'[i] = fifo'[i] ELSE fake'[i] \in {0, Unset}
    BY <1>1, <2>1, <2>2, <2>3 DEF SettleInv, Types, Recorded
  <2>7. \A i \in Ids : fifo[i] = fifo[c] => i = c
    BY <2>1 DEF SettleInv, Files
  <2>8. Watched \subseteq Ids
    BY DEF Watched
  <2>9. readers' = {fifo'[i] : i \in Watched'}
    BY <1>1, <2>1, <2>2, <2>3, <2>6, <2>7, <2>8 DEF SettleInv, Recorded
  <2> QED
    BY <1>1, <1>2, <2>4, <2>5, <2>9 DEF SettleInv, Types, Recorded
<1> QED
  BY <1>1, <1>3, <1>4 DEF SettleInv, Requests

LEMMA CleanUpSettles ==
  ASSUME SettleInv, CleanUp
  PROVE  SettleInv'
<1>1. /\ pc' = "gone" /\ stage' = stage /\ last' = last /\ signal' = signal
      /\ valid' = [i \in Ids |-> FALSE]
      /\ fifo' = [i \in Ids |-> IF valid[i] THEN 0 ELSE fifo[i]]
      /\ fake' = [i \in Ids |-> IF valid[i] THEN 0 ELSE fake[i]]
  BY DEF CleanUp, Goto, SettleInv, Requests
<1>2. Types' /\ Files'
  <2>1. 0 \in 0 .. MaxFifo /\ \A n \in 0 .. MaxFifo : 0 <= n
    BY ServerPipeAssumption
  <2>2. fifo' \in [Ids -> 0 .. MaxFifo] /\ fake' \in [Ids -> {Unset} \cup 0 .. MaxFifo]
    BY <1>1, <2>1 DEF SettleInv, Types
  <2> QED
    BY <1>1, <2>1, <2>2 DEF SettleInv, Types, Files, PCs
<1>3. Places'
  BY <1>1 DEF Places
<1> QED
  BY <1>1, <1>2, <1>3 DEF SettleInv

LEMMA SettleInvStep == SettleInv /\ [ServerPipeNext]_serverPipeVars => SettleInv'
<1> SUFFICES ASSUME SettleInv, [ServerPipeNext]_serverPipeVars PROVE SettleInv'
  OBVIOUS
<1>1. CASE UNCHANGED serverPipeVars
  BY <1>1 DEF serverPipeVars, entryVars, cellVars, heldVars, SettleInv, Types, Files, Places,
              Requests, Recorded, Watched, Opening, Closing
<1> QED
  BY <1>1, QuietSteps, CreateSettles, ClearSettles, UnlinkSettles, HandleSettles, CleanUpSettles
  DEF ServerPipeNext, ChildStep, ServerStep

LEMMA SettleInvHolds == ServerPipeSpec => []SettleInv
  BY SettleInvInit, SettleInvStep, PTL DEF ServerPipeSpec

(* Between two stages the server holds the readers of the pipes in use and *)
(* no other, and has served every request (signal_pipe_handler).           *)
THEOREM PipesSettle == ServerPipeSpec => []Settled
<1>1. SettleInv => Settled
  <2> SUFFICES ASSUME SettleInv, pc = "next" PROVE Settled
    BY DEF Settled
  <2>1. ~signal /\ to_open = None /\ to_close = None
    BY DEF SettleInv, Requests
  <2>2. Watched = {i \in Ids : valid[i]}
    BY DEF Watched, Opening, Closing
  <2> QED
    BY <2>1, <2>2 DEF Settled, SettleInv, Recorded, Files
<1> QED
  BY <1>1, SettleInvHolds, PTL

-----------------------------------------------------------------------------
(* The child has open what its stage names, and only then. *)
Writing == stage.out # None /\ pc \in {"read", "exec", "run"}
Reading == stage.in # None /\ pc \in {"exec", "run"}

Descriptors ==
  /\ Writing => stage.out \in Ids /\ valid[stage.out]
  /\ wfd = IF Writing THEN fifo[stage.out] ELSE 0
  /\ Reading => stage.in \in Ids /\ valid[stage.in]
  /\ rfd = IF Reading THEN fifo[stage.in] ELSE 0

(* A pipe that is not written yet, or was just read. *)
Blank(i) ==
  \/ pc \in {"open", "read", "exec", "run"} /\ i = stage.out
  \/ pc = "clear" /\ i = stage.in

(* At most one output in a FIFO, of a pipe in use, and one that nobody has. *)
Contents ==
  /\ sent \in Nat /\ got \subseteq 1 .. sent /\ buffer \in [FIFOs -> SUBSET (1 .. sent)]
  /\ \A f \in FIFOs : buffer[f] # {} => \E i \in Ids : fifo[i] = f /\ valid[i] /\ ~Blank(i)
  /\ \A f \in FIFOs : buffer[f] \cap got = {} /\ \A m, n \in buffer[f] : m = n
  /\ \A f, g \in FIFOs : f # g => buffer[f] \cap buffer[g] = {}

DataInv == pc # "gone" => Descriptors /\ Contents

(* What Pipes makes of the state. *)
Box == [i \in Ids |-> IF valid[i] THEN buffer[fifo[i]] ELSE {0}]

LEMMA InBuffer ==
  ASSUME SettleInv, NEW i \in Ids, valid[i]
  PROVE  fifo[i] \in FIFOs
<1>1. fifo[i] \in 0 .. MaxFifo /\ fifo[i] # 0 /\ MaxFifo \in Nat
  BY ServerPipeAssumption DEF SettleInv, Types, Files
<1> QED
  BY <1>1 DEF FIFOs

LEMMA SameBox ==
  ASSUME UNCHANGED <<valid, sent, got>>, pc # "gone", pc' # "gone",
         \A i \in Ids : valid[i] => buffer'[fifo'[i]] = buffer[fifo[i]]
  PROVE  UNCHANGED Pipes!boxVars
<1>1. Box' = Box
  BY DEF Box
<1> QED
  BY <1>1 DEF Box, Pipes!boxVars

LEMMA QuietKeeps ==
  ASSUME PlainLines, SettleInv, DataInv,
         ForkStage \/ WriteFails \/ OpenWrite \/ OpenRead \/ ReadFails \/ Unknown \/ Exec
  PROVE  DataInv' /\ UNCHANGED Pipes!boxVars
<1> USE DEF Goto, AtInput
<1>1. UNCHANGED <<entryVars, cellVars, heldVars, dataVars>> /\ pc # "gone" /\ pc' # "gone"
  BY DEF ForkStage, WriteFails, OpenWrite, OpenRead, ReadFails, Unknown, Exec
<1>2. Descriptors /\ Contents
  BY <1>1 DEF DataInv
<1>3. stage \in Stages /\ stage' \in Stages /\ None \notin Ids
  BY ServerPipeAssumption
  DEF SettleInv, Types, ForkStage, WriteFails, OpenWrite, OpenRead, ReadFails, Unknown, Exec
<1>4. /\ stage.in # None => stage.first
      /\ stage'.in # None => stage'.first
  BY <1>3 DEF PlainLines
<1>5. Descriptors'
  <2> USE <1>1, <1>2, <1>4 DEF Descriptors, Writing, Reading, entryVars, childVars
  <2>1. CASE ForkStage
    BY <2>1 DEF ForkStage
  <2>2. CASE WriteFails
    BY <2>2 DEF WriteFails
  <2>3. CASE OpenWrite
    <3>1. /\ pc = "open" /\ stage' = stage /\ pc' \in {"read", "exec"}
          /\ stage.in # None => pc' = "read"
          /\ wfd' = fifo[stage.out] /\ rfd' = rfd /\ fifo' = fifo /\ valid' = valid
      BY <2>3 DEF OpenWrite
    <3>2. stage.out \in Ids /\ valid[stage.out] /\ stage.out # None
      BY <1>3, <3>1 DEF SettleInv, Places
    <3> QED
      BY <3>1, <3>2
  <2>4. CASE OpenRead
    <3>1. /\ pc = "read" /\ stage' = stage /\ pc' = "exec" /\ stage.in \in Ids /\ valid[stage.in]
          /\ rfd' = fifo[stage.in] /\ wfd' = wfd /\ fifo' = fifo /\ valid' = valid
      BY <2>4 DEF OpenRead, Usable
    <3> QED
      BY <1>3, <3>1
  <2>5. CASE ReadFails
    BY <2>5 DEF ReadFails
  <2>6. CASE Unknown
    BY <2>6 DEF Unknown
  <2>7. CASE Exec
    BY <2>7 DEF Exec
  <2> QED
    BY <2>1, <2>2, <2>3, <2>4, <2>5, <2>6, <2>7
<1>6. \A i \in Ids : valid[i] /\ Blank(i)' => Blank(i)
  BY <1>3 DEF ForkStage, WriteFails, OpenWrite, OpenRead, ReadFails, Unknown, Exec, Blank
<1>7. Contents'
  BY <1>1, <1>2, <1>6 DEF Contents, entryVars, dataVars
<1> QED
  BY <1>1, <1>5, <1>7, SameBox DEF DataInv, entryVars, dataVars

LEMMA SameData ==
  ASSUME pc # "gone", pc' # "gone", UNCHANGED <<sent, got>>,
         \A i \in Ids : \/ Box'[i] = Box[i]
                        \/ Box[i] = {0} /\ Box'[i] = {}
                        \/ Box[i] = {} /\ Box'[i] = {0}
  PROVE  Pipes!BoxNext
<1>1. \A i \in Ids : ~Pipes!Fill(i) /\ ~Pipes!Take(i)
  BY DEF Pipes!Fill, Pipes!Take
<1>2. \A i \in Ids : \/ Box'[i] = Box[i]
                     \/ Pipes!Make(i) \/ Pipes!Remove(i)
  BY DEF Pipes!Make, Pipes!Remove, Box
<1> QED
  BY <1>1, <1>2 DEF Pipes!BoxNext, Pipes!Moves, Box

LEMMA CreateKeeps ==
  ASSUME SettleInv, DataInv, Create
  PROVE  DataInv' /\ Pipes!BoxNext
<1> DEFINE o == stage.out
<1>1. /\ pc = "write" /\ pc' = "open" /\ stage' = stage /\ o \in Ids /\ ~valid[o]
      /\ valid' = [valid EXCEPT ![o] = TRUE] /\ UNCHANGED <<childVars, dataVars>>
      /\ \/ fifo[o] # 0 /\ UNCHANGED <<last, fifo>>
         \/ last' = last + 1 /\ fifo' = [fifo EXCEPT ![o] = last + 1]
  BY DEF Create, Goto, Existed
<1>2. Descriptors /\ Contents
  BY <1>1 DEF DataInv
<1>3. SettleInv'
  BY CreateSettles
<1>4. valid'[o] /\ fifo'[o] \in FIFOs
  <2>1. valid'[o]
    BY <1>1 DEF SettleInv, Types
  <2>2. fifo'[o] \in 0 .. MaxFifo /\ fifo'[o] # 0
    BY <1>1, <1>3, <2>1 DEF SettleInv, Types, Files
  <2> QED
    BY <2>1, <2>2, ServerPipeAssumption DEF FIFOs
<1>5. \A i \in Ids \ {o} : valid'[i] = valid[i] /\ fifo'[i] = fifo[i] /\ fifo'[i] # fifo'[o]
  <2>1. \A i \in Ids \ {o} : valid'[i] = valid[i] /\ fifo'[i] = fifo[i]
    BY <1>1 DEF SettleInv, Types
  <2>2. \A i \in Ids \ {o} : fifo'[i] # fifo'[o]
    BY <1>1, <1>3, <1>4 DEF SettleInv, Files, FIFOs
  <2> QED
    BY <2>1, <2>2
<1>6. buffer[fifo'[o]] = {}
  <2> SUFFICES ASSUME buffer[fifo'[o]] # {} PROVE FALSE
    OBVIOUS
  <2>1. PICK i \in Ids : fifo[i] = fifo'[o] /\ valid[i]
    BY <1>2, <1>4 DEF Contents
  <2> QED
    BY <1>1, <1>5, <2>1
<1>7. Descriptors'
  BY <1>1, <1>2 DEF Descriptors, Writing, Reading, childVars
<1>8. Contents'
  <2>1. ASSUME NEW f \in FIFOs, buffer[f] # {}
        PROVE  \E i \in Ids : fifo'[i] = f /\ valid'[i] /\ ~Blank(i)'
    <3>1. PICK i \in Ids : fifo[i] = f /\ valid[i]
      BY <1>2, <2>1 DEF Contents
    <3>2. i # o
      BY <1>1, <3>1
    <3> QED
      BY <1>1, <1>5, <3>1, <3>2 DEF Blank
  <2>2. UNCHANGED <<buffer, sent, got>>
    BY <1>1 DEF dataVars
  <2> QED
    BY <1>2, <2>1, <2>2 DEF Contents
<1>9. Pipes!BoxNext
  <2>1. \A i \in Ids \ {o} : Box'[i] = Box[i]
    BY <1>1, <1>5 DEF Box, dataVars
  <2>2. Box[o] = {0} /\ Box'[o] = {}
    BY <1>1, <1>4, <1>6 DEF Box, dataVars
  <2> QED
    BY <1>1, <2>1, <2>2, SameData DEF dataVars
<1> QED
  BY <1>7, <1>8, <1>9 DEF DataInv

LEMMA ClearKeeps ==
  ASSUME SettleInv, DataInv, Clear
  PROVE  DataInv' /\ Pipes!BoxNext
<1> DEFINE c == stage.in
<1>1. /\ pc = "clear" /\ pc' \in {"kill", "next"} /\ stage' = stage
      /\ UNCHANGED <<fifo, childVars, dataVars>>
      /\ \/ c \in Ids /\ valid[c] /\ valid' = [valid EXCEPT ![c] = FALSE]
         \/ valid' = valid
  BY DEF Clear, Goto, Usable, Forget
<1>2. Descriptors /\ Contents
  BY <1>1 DEF DataInv
<1>3. Descriptors'
  BY <1>1, <1>2 DEF Descriptors, Writing, Reading, childVars
<1>4. \A i \in Ids \ {c} : valid'[i] = valid[i]
  BY <1>1 DEF SettleInv, Types
<1>5. Contents'
  BY <1>1, <1>2, <1>4 DEF Contents, Blank, dataVars
<1>6. \A i \in Ids : Box'[i] = Box[i] \/ (Box[i] = {} /\ Box'[i] = {0})
  <2>1. \A i \in Ids \ {c} : Box'[i] = Box[i]
    BY <1>1, <1>4 DEF Box, dataVars
  <2>2. ASSUME c \in Ids, valid[c]
        PROVE  Box[c] = {}
    <3>1. fifo[c] \in FIFOs
      BY <2>2, InBuffer
    <3>2. \A i \in Ids : fifo[i] = fifo[c] => i = c
      BY <2>2 DEF SettleInv, Files
    <3> QED
      BY <1>1, <1>2, <2>2, <3>1, <3>2 DEF Contents, Blank, Box
  <2>3. ASSUME c \in Ids, valid' = valid
        PROVE  Box'[c] = Box[c]
    BY <1>1, <2>3 DEF Box, dataVars
  <2>4. ASSUME c \in Ids, valid' = [valid EXCEPT ![c] = FALSE]
        PROVE  Box'[c] = {0}
    BY <2>4 DEF Box, SettleInv, Types
  <2> QED
    BY <1>1, <2>1, <2>2, <2>3, <2>4
<1>7. Pipes!BoxNext
  BY <1>1, <1>6, SameData DEF dataVars
<1> QED
  BY <1>3, <1>5, <1>7 DEF DataInv

LEMMA UnlinkKeeps ==
  ASSUME SettleInv, DataInv, Unlink
  PROVE  DataInv' /\ UNCHANGED Pipes!boxVars
<1>1. /\ pc = "kill" /\ pc' = "next" /\ stage' = stage /\ ~valid[stage.in]
      /\ fifo' = [fifo EXCEPT ![stage.in] = 0] /\ UNCHANGED <<valid, childVars, dataVars>>
  BY DEF Unlink, Goto, SettleInv, Places
<1>2. Descriptors /\ Contents
  BY <1>1 DEF DataInv
<1>3. \A i \in Ids : valid[i] => fifo'[i] = fifo[i]
  BY <1>1 DEF SettleInv, Types
<1>4. Descriptors'
  BY <1>1, <1>2 DEF Descriptors, Writing, Reading, childVars
<1>5. Contents'
  BY <1>1, <1>2, <1>3 DEF Contents, Blank, dataVars
<1> QED
  BY <1>1, <1>3, <1>4, <1>5, SameBox DEF DataInv, dataVars

(* The handler closes no reader of a FIFO with an output in it. *)
LEMMA HandleKeeps ==
  ASSUME SettleInv, DataInv, Handle
  PROVE  DataInv' /\ UNCHANGED Pipes!boxVars
<1>1. /\ ~signal' /\ pc # "gone" /\ UNCHANGED <<valid, fifo, pc, stage, wfd, rfd, sent, got>>
      /\ buffer' = Held(readers' \cup {rfd})
  <2>1. wfd' = wfd /\ rfd' = rfd
    BY DEF Handle, childVars
  <2> QED
    BY <2>1 DEF Handle, entryVars
<1>2. Descriptors /\ Contents /\ Recorded'
  BY <1>1, HandleSettles DEF DataInv, SettleInv
<1>3. ASSUME NEW f \in FIFOs, buffer[f] # {}
      PROVE  f \in readers'
  <2>1. PICK i \in Ids : fifo[i] = f /\ valid[i]
    BY <1>2, <1>3 DEF Contents
  <2>2. i \in Watched'
    BY <1>1, <2>1 DEF Watched, Opening
  <2> QED
    BY <1>1, <1>2, <2>1, <2>2 DEF Recorded
<1>4. buffer' = buffer
  BY <1>1, <1>2, <1>3 DEF Held, Contents
<1>5. Descriptors'
  BY <1>1, <1>2 DEF Descriptors, Writing, Reading
<1>6. \A i \in Ids : Blank(i)' <=> Blank(i)
  BY <1>1 DEF Blank
<1>7. Contents'
  BY <1>1, <1>2, <1>4, <1>6 DEF Contents
<1> QED
  BY <1>1, <1>4, <1>5, <1>7, SameBox DEF DataInv

(* The command takes what is in its "<in" and fills the blank ">out".      *)
LEMMA RunData ==
  ASSUME PlainLines, SettleInv, DataInv, Run
  PROVE  /\ pc = "run" /\ pc' = (IF stage.in # None THEN "clear" ELSE "next") /\ stage' = stage
         /\ UNCHANGED <<valid, fifo>> /\ wfd' = 0 /\ rfd' = 0
         /\ wfd # 0 => /\ stage.out \in Ids /\ valid[stage.out] /\ wfd = fifo[stage.out]
                       /\ wfd \in FIFOs /\ buffer[wfd] = {} /\ buffer'[wfd] = {sent'}
         /\ rfd # 0 => /\ stage.in \in Ids /\ valid[stage.in] /\ rfd = fifo[stage.in]
                       /\ rfd \in FIFOs /\ buffer'[rfd] = {}
         /\ stage.in # None => rfd # 0
         /\ stage.out # None => wfd # 0
         /\ wfd # 0 => wfd # rfd
         /\ stage.out \in Ids => stage.out # stage.in
         /\ \A f \in FIFOs : f # wfd /\ f # rfd => buffer'[f] = buffer[f]
         /\ sent' = (IF wfd = 0 THEN sent ELSE sent + 1)
         /\ got' = got \cup (IF rfd = 0 THEN {} ELSE buffer[rfd])
         /\ buffer' = [f \in FIFOs |-> buffer'[f]]
<1> DEFINE o == stage.out
           c == stage.in
<1>1. /\ pc = "run" /\ pc' = (IF c # None THEN "clear" ELSE "next") /\ stage' = stage
      /\ UNCHANGED <<valid, fifo>> /\ wfd' = 0 /\ rfd' = 0
      /\ sent' = (IF wfd = 0 THEN sent ELSE sent + 1)
      /\ got' = got \cup UNION {buffer[f] : f \in {rfd} \ {0}}
      /\ buffer' = [f \in FIFOs |-> (IF f = rfd THEN {} ELSE buffer[f])
                                     \cup (IF f = wfd /\ f \in readers THEN {sent'} ELSE {})]
  BY DEF Run, Goto, entryVars
<1>2. Descriptors /\ Contents
  BY <1>1 DEF DataInv
<1>3. /\ o # None => o \in Ids /\ valid[o] /\ wfd = fifo[o]
      /\ o = None => wfd = 0
      /\ c # None => c \in Ids /\ valid[c] /\ rfd = fifo[c]
      /\ c = None => rfd = 0
      /\ c # None => c # o
  BY <1>1, <1>2 DEF Descriptors, Writing, Reading, PlainLines, SettleInv, Types
<1>4. /\ o # None => wfd \in FIFOs /\ wfd # 0
      /\ c # None => rfd \in FIFOs /\ rfd # 0
  BY <1>3, InBuffer DEF SettleInv, Files
<1>5. wfd # 0 => wfd # rfd
  BY <1>3, <1>4 DEF SettleInv, Files
<1>6. wfd # 0 => wfd \in readers
  <2>1. o # None => o \in Watched
    BY <1>1, <1>3 DEF Watched, Opening
  <2> QED
    BY <1>1, <1>3, <2>1 DEF SettleInv, Recorded
<1>7. wfd # 0 => buffer[wfd] = {}
  <2> SUFFICES ASSUME wfd # 0, buffer[wfd] # {} PROVE FALSE
    OBVIOUS
  <2>1. PICK i \in Ids : fifo[i] = wfd /\ valid[i] /\ ~Blank(i)
    BY <1>2, <1>3, <1>4 DEF Contents
  <2>2. i = o
    BY <1>3, <2>1 DEF SettleInv, Files
  <2> QED
    BY <1>1, <2>1, <2>2 DEF Blank
<1>8. got' = got \cup (IF rfd = 0 THEN {} ELSE buffer[rfd])
  BY <1>1
<1>9. /\ wfd # 0 => buffer'[wfd] = {sent'}
      /\ rfd # 0 => buffer'[rfd] = {}
      /\ \A f \in FIFOs : f # wfd /\ f # rfd => buffer'[f] = buffer[f]
  BY <1>1, <1>3, <1>4, <1>5, <1>6, <1>7
<1>10. buffer' = [f \in FIFOs |-> buffer'[f]]
  BY <1>1
<1>11. o \in Ids => o # c
  BY <1>3, ServerPipeAssumption
<1> QED
  BY <1>1, <1>3, <1>4, <1>5, <1>7, <1>8, <1>9, <1>10, <1>11

LEMMA RunKeeps ==
  ASSUME PlainLines, SettleInv, DataInv, Run
  PROVE  DataInv' /\ Pipes!BoxNext
<1> DEFINE o == stage.out
           c == stage.in
<1> USE RunData
<1>1. Descriptors /\ Contents
  BY DEF DataInv
<1>2. Descriptors'
  BY DEF Descriptors, Writing, Reading
<1>3. sent' \in Nat /\ sent \in Nat /\ 1 .. sent \subseteq 1 .. sent' /\ got' \subseteq 1 .. sent'
  BY <1>1 DEF Contents
<1>4. \A f \in FIFOs : \/ f = wfd /\ wfd # 0 /\ buffer'[f] = {sent'}
                       \/ f # wfd /\ buffer'[f] \subseteq buffer[f] /\ buffer'[f] \cap got' = {}
  <2> SUFFICES ASSUME NEW f \in FIFOs, f # wfd
               PROVE  buffer'[f] \subseteq buffer[f] /\ buffer'[f] \cap got' = {}
    BY DEF FIFOs
  <2>1. CASE f = rfd
    BY <2>1 DEF FIFOs
  <2>2. CASE f # rfd
    BY <1>1, <2>2 DEF Contents
  <2> QED
    BY <2>1, <2>2
<1>5. \A f \in FIFOs : buffer[f] \subseteq 1 .. sent
  BY <1>1 DEF Contents
<1>6. wfd # 0 => sent' = sent + 1 /\ sent' \notin 1 .. sent /\ sent' \notin got'
                 /\ sent' \in 1 .. sent'
  BY <1>1, <1>3, <1>5 DEF Contents
<1>7. Contents'
  <2>1. buffer' \in [FIFOs -> SUBSET (1 .. sent')]
    BY <1>3, <1>4, <1>5, <1>6
  <2>2. \A f \in FIFOs : buffer'[f] # {} => \E i \in Ids : fifo'[i] = f /\ valid'[i] /\ ~Blank(i)'
    <3> SUFFICES ASSUME NEW f \in FIFOs, buffer'[f] # {}
                 PROVE  \E i \in Ids : fifo[i] = f /\ valid[i] /\ i # c
      BY DEF Blank
    <3>1. CASE f = wfd
      BY <3>1 DEF FIFOs
    <3>2. CASE f # wfd
      <4>1. buffer[f] # {} /\ f # rfd
        BY <1>4, <3>2 DEF FIFOs
      <4>2. PICK i \in Ids : fifo[i] = f /\ valid[i]
        BY <1>1, <4>1 DEF Contents
      <4>3. None \notin Ids
        BY ServerPipeAssumption
      <4> QED
        BY <4>1, <4>2, <4>3
    <3> QED
      BY <3>1, <3>2
  <2>3. \A f \in FIFOs : buffer'[f] \cap got' = {} /\ \A m, n \in buffer'[f] : m = n
    BY <1>1, <1>4, <1>6 DEF Contents
  <2>4. \A f, g \in FIFOs : f # g => buffer'[f] \cap buffer'[g] = {}
    BY <1>1, <1>4, <1>5, <1>6 DEF Contents
  <2> QED
    BY <1>3, <2>1, <2>2, <2>3, <2>4 DEF Contents
<1>8. Pipes!BoxNext
  <2> DEFINE outputs(n) == {{k} : k \in n}
  <2>1. \A i \in Ids :
          /\ Pipes!Fill(i) <=> Box[i] = {} /\ Box'[i] \in outputs(1 .. sent') \ outputs(1 .. sent)
          /\ Pipes!Take(i) <=> /\ Box[i] \in outputs(1 .. sent) /\ Box'[i] = {}
                              /\ Box[i] \in outputs(got') \ outputs(got)
    BY DEF Pipes!Fill, Pipes!Take, Box
  <2>2. wfd # 0 => o \in Ids /\ Box[o] = {} /\ Box'[o] = {sent'}
    BY DEF Box
  <2>3. rfd # 0 => c \in Ids /\ Box[c] = buffer[rfd] /\ Box'[c] = {}
    BY DEF Box
  <2>4. \A i \in Ids : (i = o /\ wfd # 0) \/ (i = c /\ rfd # 0) \/ Box'[i] = Box[i]
    <3> SUFFICES ASSUME NEW i \in Ids, valid[i]
                 PROVE  (i = o /\ wfd # 0) \/ (i = c /\ rfd # 0) \/ Box'[i] = Box[i]
      BY DEF Box
    <3>1. fifo[i] \in FIFOs
      BY InBuffer
    <3>2. CASE fifo[i] = wfd
      BY <3>1, <3>2 DEF SettleInv, Files, FIFOs
    <3>3. CASE fifo[i] = rfd
      BY <3>1, <3>3 DEF SettleInv, Files, FIFOs
    <3>4. CASE fifo[i] # wfd /\ fifo[i] # rfd
      BY <3>1, <3>4 DEF Box
    <3> QED
      BY <3>2, <3>3, <3>4
  <2>6. wfd # 0 => {sent'} \in outputs(1 .. sent') \ outputs(1 .. sent)
    BY <1>6
  <2>7. \A i \in Ids : Pipes!Fill(i) <=> i = o /\ wfd # 0
    BY <2>1, <2>2, <2>3, <2>4, <2>6
  <2>8. rfd # 0 /\ buffer[rfd] # {} =>
          buffer[rfd] \in outputs(1 .. sent) /\ buffer[rfd] \in outputs(got') \ outputs(got)
    <3> SUFFICES ASSUME rfd # 0, NEW n \in buffer[rfd]
                 PROVE  /\ buffer[rfd] \in outputs(1 .. sent)
                        /\ buffer[rfd] \in outputs(got') \ outputs(got)
      OBVIOUS
    <3>1. buffer[rfd] = {n} /\ n \notin got /\ n \in 1 .. sent
      BY <1>1, <1>5 DEF Contents
    <3>2. n \in got'
      OBVIOUS
    <3> QED
      BY <3>1, <3>2
  <2>9. \A i \in Ids : Pipes!Take(i) <=> i = c /\ rfd # 0 /\ buffer[rfd] # {}
    <3> SUFFICES ASSUME NEW i \in Ids
                 PROVE  Pipes!Take(i) <=> i = c /\ rfd # 0 /\ buffer[rfd] # {}
      OBVIOUS
    <3>1. i = c /\ rfd # 0 /\ buffer[rfd] # {} => Pipes!Take(i)
      BY <2>1, <2>3, <2>8
    <3>2. ASSUME Pipes!Take(i)
          PROVE  i = c /\ rfd # 0 /\ buffer[rfd] # {}
      <4>1. Box[i] # {} /\ Box'[i] = {}
        BY <2>1, <3>2
      <4> QED
        BY <2>2, <2>3, <2>4, <4>1
    <3> QED
      BY <3>1, <3>2
  <2>10. \A i \in Ids : Box'[i] = Box[i] \/ Pipes!Fill(i) \/ Pipes!Take(i)
    BY <2>3, <2>4, <2>7, <2>9
  <2>11. outputs(1 .. sent') = outputs(1 .. sent) \cup {Box'[i] : i \in {j \in Ids : Pipes!Fill(j)}}
    <3>1. CASE wfd = 0
      BY <2>7, <3>1
    <3>2. CASE wfd # 0
      <4>1. {Box'[i] : i \in {j \in Ids : Pipes!Fill(j)}} = {{sent'}}
        <5>1. {j \in Ids : Pipes!Fill(j)} = {o}
          BY <2>2, <2>7, <3>2
        <5>2. Box'[o] = {sent'}
          BY <2>2, <3>2
        <5> HIDE RunData
        <5> QED
          BY <5>1, <5>2
      <4>2. 1 .. sent' = (1 .. sent) \cup {sent'}
        BY <1>3, <1>6, <3>2
      <4> QED
        BY <4>1, <4>2
    <3> QED
      BY <3>1, <3>2
  <2>12. outputs(got') = outputs(got) \cup {Box[i] : i \in {j \in Ids : Pipes!Take(j)}}
    <3>1. CASE rfd # 0 /\ buffer[rfd] # {}
      <4>1. {Box[i] : i \in {j \in Ids : Pipes!Take(j)}} = {buffer[rfd]}
        BY <2>3, <2>9, <3>1
      <4>2. PICK n \in buffer[rfd] : buffer[rfd] = {n}
        BY <1>1, <3>1 DEF Contents
      <4>3. got' = got \cup {n}
        BY <3>1, <4>2
      <4> QED
        BY <4>1, <4>2, <4>3
    <3>2. CASE rfd = 0 \/ buffer[rfd] = {}
      BY <2>9, <3>2
    <3> QED
      BY <3>1, <3>2
  <2>13. /\ \A i, j \in Ids : i # j /\ Pipes!Fill(i) /\ Pipes!Fill(j) => Box'[i] # Box'[j]
         /\ pc # "gone" /\ pc' # "gone"
    BY <2>7
  <2> QED
    BY <2>10, <2>11, <2>12, <2>13 DEF Pipes!BoxNext, Pipes!Moves, Box
<1> QED
  BY <1>2, <1>7, <1>8 DEF DataInv

LEMMA DataInvInit == ServerPipeInit => DataInv /\ Pipes!BoxInit
<1> SUFFICES ASSUME ServerPipeInit PROVE DataInv /\ Pipes!BoxInit
  OBVIOUS
<1>1. Descriptors
  BY DEF ServerPipeInit, Descriptors, Writing, Reading
<1>2. Contents
  BY DEF ServerPipeInit, Contents
<1>3. [i \in Ids |-> IF valid[i] THEN buffer[fifo[i]] ELSE {0}] = [i \in Ids |-> {0}]
  BY DEF ServerPipeInit
<1>4. {{n} : n \in 1 .. sent} = {} /\ {{n} : n \in got} = {} /\ (pc = "gone") = FALSE
  BY DEF ServerPipeInit
<1> QED
  BY <1>1, <1>2, <1>3, <1>4 DEF DataInv, Pipes!BoxInit

LEMMA StepKeeps ==
  ASSUME PlainLines, SettleInv, DataInv, [ServerPipeNext]_serverPipeVars
  PROVE  DataInv' /\ [Pipes!BoxNext]_(Pipes!boxVars)
<1>1. CASE UNCHANGED serverPipeVars
  <2>1. DataInv'
    BY <1>1 DEF serverPipeVars, entryVars, childVars, dataVars, DataInv, Descriptors, Writing,
                Reading, Contents, Blank
  <2>2. UNCHANGED Pipes!boxVars
    BY <1>1 DEF serverPipeVars, entryVars, dataVars, Pipes!boxVars
  <2> QED
    BY <2>1, <2>2
<1>2. CASE CleanUp
  BY <1>2 DEF CleanUp, Goto, DataInv, Pipes!BoxNext
<1> QED
  BY <1>1, <1>2, QuietKeeps, CreateKeeps, RunKeeps, ClearKeeps, UnlinkKeeps, HandleKeeps
  DEF ServerPipeNext, ChildStep, ServerStep

(* With lines that read no pipe of their own and name none they leave      *)
(* unopened, an output waits in its pipe until it is read, whatever        *)
(* clients do in turn: the one server, which runs a stage to its end before*)
(* the next (v1/shell.hpp), implements PublicPipes.                        *)
THEOREM OutputsAreKept == PlainLines => (ServerPipeSpec => KeepsOutputs)
<1> SUFFICES ASSUME PlainLines PROVE ServerPipeSpec => KeepsOutputs
  OBVIOUS
<1>1. ServerPipeInit => DataInv /\ Pipes!BoxInit
  BY DataInvInit
<1>2. SettleInv /\ DataInv /\ [ServerPipeNext]_serverPipeVars
        => DataInv' /\ [Pipes!BoxNext]_(Pipes!boxVars)
  BY StepKeeps
<1> QED
  BY <1>1, <1>2, SettleInvHolds, PTL DEF ServerPipeSpec, KeepsOutputs, Pipes!BoxSpec
=============================================================================
