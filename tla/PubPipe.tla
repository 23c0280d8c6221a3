------------------------------ MODULE PubPipe ------------------------------
(***************************************************************************)
(* Public pipes of the multi-process server (v2/pub_pipe_mgmt.hpp, and its *)
(* callers in v2/shell.hpp): "cmd >i" leaves the output of cmd in a FIFO,  *)
(* "cmd <i" of any session reads and removes it.  In between the master    *)
(* keeps a reader open, which it opens and closes in its SIGUSR2           *)
(* (L_SIGPIPE) handler when asked through two cells of shared memory.      *)
(*                                                                         *)
(* A session stands for the child that runs one stage of a command line    *)
(* and the shell that waits for it.  pipe_lock is taken to exclude: no     *)
(* signal reaches the children that hold it, and it is taken as got in     *)
(* the shell too.  A FIFO file is an incarnation 1, 2, ...; its buffer     *)
(* lives as long as somebody has it open.  The output of a command fits in *)
(* the buffer.  The master may end: it clears all pipes and removes the    *)
(* lock, and the sessions go on without either.                            *)
(*                                                                         *)
(* The handler takes no lock: it has one action for each access to the     *)
(* shared memory and for each of its calls, and SIGINT may come between    *)
(* any two.  What a session does under pipe_lock to make or remove a pipe, *)
(* and clear_all, are one action each.                                     *)
(***************************************************************************)
EXTENDS Integers, FiniteSets

CONSTANTS
  Procs,      \* sessions
  Ids,        \* numbers of public pipes that are used
  Stages,     \* the stages run: [out, in, first], ">out", "<in", first of its line
  MaxFifo,    \* bound: FIFO files ever made
  Overlap,    \* may sessions use public pipes at the same time?
  MasterEnds, \* may the master be interrupted (SIGINT)?
  None

ASSUME PipeAssumption ==
  /\ IsFiniteSet(Ids) /\ MaxFifo \in Nat /\ Cardinality(Ids) <= MaxFifo
  /\ Overlap \in BOOLEAN /\ MasterEnds \in BOOLEAN
  /\ None \notin Ids /\ None \notin Procs
  /\ Stages \subseteq [out : Ids \cup {None}, in : Ids \cup {None}, first : BOOLEAN]

VARIABLES
  valid,      \* valid[i]
  fifo,       \* fifo[i]: the FIFO file under the name of pipe i, 0 for none
  last,       \* the last FIFO file made
  to_open, to_close,  \* PubPipeMgmt::pipe_to_open and pipe_to_close
  fake,       \* fake[i]: the FIFO behind fake_read_fd of entry i, 0 for -1, or Unset
  readers,    \* the FIFO files the master has open for reading
  signal,     \* SIGUSR2 is pending for the master
  master,     \* where the master's handler is
  open_id, close_id,  \* the handler's copies of the cells, None after their use
  opened,     \* the FIFO the handler has opened but not recorded, 0 for none
  ending,     \* how far clean_up of the master has come
  lock,       \* the session inside pipe_lock
  pc, stage,  \* where session p is, and the stage it runs
  wfd, rfd,           \* the FIFO it has open as stdout and as stdin, 0 for none
  buffer,     \* buffer[f]: the outputs in the FIFO file f
  sent, got   \* history: the number of outputs, and those that were read

cellVars    == <<to_open, to_close, signal>>
handlerVars == <<fake, readers, master, open_id, close_id, opened>>
masterVars  == <<handlerVars, ending>>
ioVars      == <<wfd, rfd>>
sessionVars == <<lock, pc, stage, ioVars>>
fifoVars    == <<valid, fifo, last>>
dataVars    == <<buffer, sent, got>>
pipeVars    == <<cellVars, masterVars, sessionVars, fifoVars, dataVars>>

(* "idle" at the prompt                  "wlock" pipe_lock before open_write*)
(* "create" inside, before create        "opening" in open(name, O_WRONLY)  *)
(* "rlock" pipe_lock before open_read    "run" the command runs             *)
(* "clock" pipe_lock before clear_pipe                                      *)
PCs == {"idle", "wlock", "create", "opening", "rlock", "run", "clock"}

FIFOs == 1 .. MaxFifo

(* A fake_read_fd that this master has not written: no constructor sets it.*)
(* It is 0 in new shared memory, or what a killed server left, and may be  *)
(* the number of anything that is open by now, or of nothing.              *)
Unset == -1

NoStage == [out |-> None, in |-> None, first |-> FALSE]

(* FIFO files a server that was killed has left behind. *)
LeftBehind ==
  UNION {{f \in [Ids -> 0 .. Cardinality(S)] :
            /\ \A i \in Ids : f[i] # 0 <=> i \in S
            /\ \A i, j \in S : f[i] = f[j] => i = j} : S \in SUBSET Ids}

PipeInit ==
  /\ valid = [i \in Ids |-> FALSE]
  /\ fifo \in LeftBehind /\ last = Cardinality({i \in Ids : fifo[i] # 0})
  /\ to_open = None /\ to_close = None /\ signal = FALSE
  /\ fake = [i \in Ids |-> Unset] /\ readers = {} /\ opened = 0
  /\ master = "idle" /\ open_id = None /\ close_id = None /\ ending = "no"
  /\ lock = None
  /\ pc = [p \in Procs |-> "idle"]
  /\ stage = [p \in Procs |-> NoStage]
  /\ wfd = [p \in Procs |-> 0] /\ rfd = [p \in Procs |-> 0]
  /\ buffer = [f \in FIFOs |-> {}] /\ sent = 0 /\ got = {}

Goto(p, l) == pc' = [pc EXCEPT ![p] = l] /\ UNCHANGED stage

Ends(p) ==
  /\ pc' = [pc EXCEPT ![p] = "idle"]
  /\ stage' = [stage EXCEPT ![p] = NoStage]

(* Sessions that have the FIFO f open for reading. *)
ReadBy(f) == {p \in Procs : rfd[p] = f}
HasReader(f) == f # 0 /\ (f \in readers \/ ReadBy(f) # {})

(* A buffer goes with the last descriptor of its FIFO: those of S stay.    *)
Held(S) == [f \in FIFOs |-> IF f \in S THEN buffer[f] ELSE {}]

-----------------------------------------------------------------------------
(* Sessions.                                                               *)

Quiet(p) ==
  /\ \A q \in Procs \ {p} : pc[q] = "idle"
  /\ master = "idle" /\ ~signal

(* Where a stage goes on that has its output.  Only the first stage of a   *)
(* line opens its "<in".                                                   *)
AtInput(s) == IF s.first /\ s.in # None THEN "rlock" ELSE "run"

(* A stage is forked. *)
Start(p) ==
  /\ pc[p] = "idle" /\ (Overlap \/ Quiet(p))
  /\ \E s \in Stages :
       /\ stage' = [stage EXCEPT ![p] = s]
       /\ pc' = [pc EXCEPT ![p] = IF s.out # None THEN "wlock" ELSE AtInput(s)]
  /\ UNCHANGED <<lock, ioVars, cellVars, masterVars, fifoVars, dataVars>>

(* pipe_lock; a removed semaphore holds nobody up (err_sys). *)
LockFree == lock = None

Lock(p) ==
  /\ pc[p] = "wlock" /\ LockFree
  /\ lock' = (IF ending = "gone" THEN None ELSE p) /\ Goto(p, "create")
  /\ UNCHANGED <<ioVars, cellVars, masterVars, fifoVars, dataVars>>

(* Seeded fault: an existing pipe is taken over. *)
BugExisted(p) == FALSE

Existed(p) == valid[stage[p].out]

(* create() fails: the pipe existed, or mknod failed, other than by EEXIST. *)
NotCreated(p) == Existed(p) \/ fifo[stage[p].out] = 0

(* Seeded fault: returns with pipe_lock. *)
BugCreateFails(p) ==
  /\ pc[p] = "create" /\ NotCreated(p)
  /\ Ends(p)
  /\ UNCHANGED <<lock, ioVars, cellVars, masterVars, fifoVars, dataVars>>

(* open_write returns -1, and the child exits.                             *)
CreateFails(p) ==
  /\ pc[p] = "create" /\ NotCreated(p)
  /\ lock' = None /\ Ends(p)
  /\ UNCHANGED <<ioVars, cellVars, masterVars, fifoVars, dataVars>>

(* Seeded fault: the writer does not signal the master. *)
BugAskOpen(p) == to_open' = stage[p].out /\ UNCHANGED signal

AskOpen(p) == to_open' = stage[p].out /\ signal' = TRUE

(* mknod, or a file left behind (EEXIST); ask the master for a reader, then *)
(* open for writing.                                                       *)
Create(p) ==
  /\ pc[p] = "create" /\ ~Existed(p)
  /\ \/ /\ fifo[stage[p].out] = 0 /\ last < MaxFifo
        /\ last' = last + 1
        /\ fifo' = [fifo EXCEPT ![stage[p].out] = last + 1]
     \/ fifo[stage[p].out] # 0 /\ UNCHANGED <<last, fifo>>
  /\ valid' = [valid EXCEPT ![stage[p].out] = TRUE]
  /\ AskOpen(p)
  /\ Goto(p, "opening")
  /\ UNCHANGED <<lock, ioVars, to_close, masterVars, dataVars>>

(* open(name, O_WRONLY) returns once somebody has the FIFO open to read;   *)
(* then pipe_unlock, and on to the input.                                  *)
OpenWrite(p) ==
  /\ pc[p] = "opening" /\ HasReader(fifo[stage[p].out])
  /\ wfd' = [wfd EXCEPT ![p] = fifo[stage[p].out]]
  /\ lock' = None /\ Goto(p, AtInput(stage[p]))
  /\ UNCHANGED <<rfd, cellVars, masterVars, fifoVars, dataVars>>

(* open_read under pipe_lock, O_NONBLOCK.                                  *)
OpenRead(p) ==
  /\ pc[p] = "rlock" /\ LockFree /\ valid[stage[p].in]
  /\ rfd' = [rfd EXCEPT ![p] = fifo[stage[p].in]]
  /\ Goto(p, "run")
  /\ UNCHANGED <<lock, wfd, cellVars, masterVars, fifoVars, dataVars>>

(* "pipe not exist": the child exits, with what it has open.               *)
OpenReadFails(p) ==
  /\ pc[p] = "rlock" /\ LockFree /\ ~valid[stage[p].in]
  /\ wfd' = [wfd EXCEPT ![p] = 0]
  /\ Ends(p)
  /\ UNCHANGED <<lock, rfd, cellVars, masterVars, fifoVars, dataVars>>

(* The command reads what there is, EOF or EAGAIN (a writer has the FIFO   *)
(* open) ends its input, writes - or dies of SIGPIPE without a reader -    *)
(* and ends.  The shell has waited for it.                                 *)
Run(p) ==
  /\ pc[p] = "run" /\ (IF stage[p].in # None THEN Goto(p, "clock") ELSE Ends(p))
  /\ got' = got \cup UNION {buffer[f] : f \in {rfd[p]} \ {0}}
  /\ sent' = IF wfd[p] = 0 THEN sent ELSE sent + 1
  /\ buffer' = [f \in FIFOs |-> (IF f = rfd[p] THEN {} ELSE buffer[f])
                                  \cup (IF f = wfd[p] /\ HasReader(f) THEN {sent'} ELSE {})]
  /\ rfd' = [rfd EXCEPT ![p] = 0] /\ wfd' = [wfd EXCEPT ![p] = 0]
  /\ UNCHANGED <<lock, cellVars, masterVars, fifoVars>>

(* exec fails: the child exits, and the shell skips clear_pipe.             *)
Unknown(p) ==
  /\ pc[p] = "run" /\ Ends(p)
  /\ buffer' = Held({f \in FIFOs : f \in readers \/ ReadBy(f) \ {p} # {}})
  /\ rfd' = [rfd EXCEPT ![p] = 0] /\ wfd' = [wfd EXCEPT ![p] = 0]
  /\ UNCHANGED <<lock, cellVars, masterVars, fifoVars, sent, got>>

(* Seeded fault: the reader does not ask the master to close. *)
BugAskClose(p) == UNCHANGED <<to_close, signal>>

AskClose(p) == to_close' = stage[p].in /\ signal' = TRUE

(* The shell: clear_pipe under pipe_lock. *)
Clear(p) ==
  /\ pc[p] = "clock" /\ LockFree /\ Ends(p)
  /\ \/ /\ valid[stage[p].in]
        /\ valid' = [valid EXCEPT ![stage[p].in] = FALSE]
        /\ AskClose(p)
        /\ fifo' = [fifo EXCEPT ![stage[p].in] = 0]
     \/ ~valid[stage[p].in] /\ UNCHANGED <<valid, fifo, to_close, signal>>
  /\ UNCHANGED <<last, to_open, lock, ioVars, masterVars, dataVars>>

-----------------------------------------------------------------------------
(* signal_pipe_handler of the master; SIGUSR2 is blocked while it runs.    *)
(* It interrupts a wait for pipe_lock, which is then taken for got.        *)

HandlerStart ==
  /\ master = "idle" /\ signal /\ ending \in {"no", "wait", "clear"}
  /\ ending' = IF ending = "wait" THEN "clear" ELSE ending
  /\ signal' = FALSE
  /\ open_id' = to_open /\ master' = "read"
  /\ UNCHANGED <<to_open, to_close, fake, readers, close_id, opened>>
  /\ UNCHANGED <<sessionVars, fifoVars, dataVars>>

(* The handler is at l, and nothing has interrupted it. *)
HandlerAt(l) == master = l /\ ending \in {"no", "clear"} /\ UNCHANGED ending

HandlerRead ==
  /\ HandlerAt("read")
  /\ close_id' = to_close
  /\ master' = IF open_id # None THEN "open" ELSE IF to_close # None THEN "close" ELSE "idle"
  /\ UNCHANGED <<open_id, opened, fake, readers, cellVars, sessionVars, fifoVars, dataVars>>

(* open(ent.name, O_RDONLY | O_NONBLOCK); it fails without a FIFO ...      *)
HandlerOpen ==
  /\ HandlerAt("open") /\ master' = "record"
  /\ readers' = readers \cup ({fifo[open_id]} \ {0})
  /\ opened' = fifo[open_id]
  /\ UNCHANGED <<open_id, close_id, fake, cellVars, sessionVars, fifoVars, dataVars>>

(* ... and either way fake_read_fd is what it returned.                    *)
HandlerRecord ==
  /\ HandlerAt("record") /\ master' = "opened"
  /\ fake' = [fake EXCEPT ![open_id] = opened] /\ opened' = 0
  /\ UNCHANGED <<open_id, close_id, readers, cellVars, sessionVars, fifoVars, dataVars>>

HandlerOpened ==
  /\ HandlerAt("opened") /\ master' = IF close_id # None THEN "close" ELSE "idle"
  /\ to_open' = None /\ open_id' = None
  /\ UNCHANGED <<to_close, signal, close_id, opened, fake, readers>>
  /\ UNCHANGED <<sessionVars, fifoVars, dataVars>>

(* What close(v) closes of the readers: an unset number is that of any, or *)
(* of none.                                                                *)
ClosedBy(v) == IF v = Unset THEN {{}} \cup {{f} : f \in readers} ELSE {{v}}

HandlerClose ==
  /\ HandlerAt("close") /\ master' = "closed"
  /\ \E S \in ClosedBy(fake[close_id]) :
       /\ readers' = readers \ S
       /\ buffer' = Held({f \in FIFOs : f \notin S \/ ReadBy(f) # {}})
  /\ UNCHANGED <<open_id, close_id, opened, fake, cellVars, sessionVars, fifoVars, sent, got>>

(* Seeded fault: the closed fd stays recorded. *)
BugHandlerForget ==
  /\ HandlerAt("closed") /\ master' = "forgotten"
  /\ UNCHANGED <<open_id, close_id, opened, fake, readers>>
  /\ UNCHANGED <<cellVars, sessionVars, fifoVars, dataVars>>

HandlerForget ==
  /\ HandlerAt("closed") /\ master' = "forgotten"
  /\ fake' = [fake EXCEPT ![close_id] = 0]
  /\ UNCHANGED <<open_id, close_id, opened, readers>>
  /\ UNCHANGED <<cellVars, sessionVars, fifoVars, dataVars>>

HandlerClosed ==
  /\ HandlerAt("forgotten") /\ master' = "idle"
  /\ to_close' = None /\ close_id' = None
  /\ UNCHANGED <<to_open, signal, open_id, opened, fake, readers>>
  /\ UNCHANGED <<sessionVars, fifoVars, dataVars>>

HandlerStep ==
  \/ HandlerStart \/ HandlerRead \/ HandlerOpen \/ HandlerRecord \/ HandlerOpened
  \/ HandlerClose \/ HandlerForget \/ HandlerClosed

(* SIGINT, at any time; what it interrupts is never resumed.               *)
Interrupt ==
  /\ MasterEnds /\ ending = "no"
  /\ ending' = IF master = "idle" THEN "wait" ELSE "masked"
  /\ UNCHANGED <<handlerVars, cellVars, sessionVars, fifoVars, dataVars>>

(* pipe_lock in clear_all returns: got, or interrupted by the handler.     *)
MayClear ==
  \/ ending \in {"wait", "masked"} /\ lock = None
  \/ ending = "clear" /\ master = "idle"

(* clear_all; then the lock goes, and the master with all it has open,     *)
(* whatever clear_all has closed.                                          *)
ClearAll ==
  /\ MayClear
  /\ ending' = "gone" /\ readers' = {} /\ to_open' = None
  /\ buffer' = Held({f \in FIFOs : ReadBy(f) # {}})
  /\ valid' = [i \in Ids |-> FALSE]
  /\ fake' = [i \in Ids |-> IF valid[i] THEN 0 ELSE fake[i]]
  /\ fifo' = [i \in Ids |-> IF valid[i] THEN 0 ELSE fifo[i]]
  /\ lock' = None
  /\ UNCHANGED <<to_close, signal, master, open_id, close_id, opened, last>>
  /\ UNCHANGED <<pc, stage, ioVars, sent, got>>

SessionStep(p) ==
  \/ Lock(p) \/ CreateFails(p) \/ Create(p) \/ OpenWrite(p)
  \/ OpenRead(p) \/ OpenReadFails(p) \/ Run(p) \/ Unknown(p) \/ Clear(p)

MasterStep == HandlerStep \/ ClearAll

PipeNext == MasterStep \/ Interrupt \/ \E p \in Procs : Start(p) \/ SessionStep(p)

PipeSpec == PipeInit /\ [][PipeNext]_pipeVars

(* The master and the commands run on; waiters for the lock are served.    *)
PipeFairness ==
  /\ WF_pipeVars(MasterStep)
  /\ \A p \in Procs : WF_pipeVars(SessionStep(p)) /\ SF_pipeVars(Lock(p))

FairPipeSpec == PipeSpec /\ PipeFairness

-----------------------------------------------------------------------------
EntryTypes ==
  valid \in [Ids -> BOOLEAN] /\ fifo \in [Ids -> 0 .. MaxFifo] /\ last \in 0 .. MaxFifo

CellTypes ==
  to_open \in Ids \cup {None} /\ to_close \in Ids \cup {None} /\ signal \in BOOLEAN

MasterTypes ==
  /\ fake \in [Ids -> {Unset} \cup 0 .. MaxFifo]
  /\ readers \subseteq FIFOs /\ opened \in 0 .. MaxFifo
  /\ master \in {"idle", "read", "open", "record", "opened", "close", "closed", "forgotten"}
  /\ open_id \in Ids \cup {None} /\ close_id \in Ids \cup {None}
  /\ ending \in {"no", "wait", "masked", "clear", "gone"}

SessionTypes ==
  /\ pc \in [Procs -> PCs] /\ stage \in [Procs -> Stages \cup {NoStage}]
  /\ wfd \in [Procs -> 0 .. MaxFifo] /\ rfd \in [Procs -> 0 .. MaxFifo]
  /\ lock \in Procs \cup {None}

DataTypes ==
  sent \in Nat /\ got \subseteq 1 .. sent /\ buffer \in [FIFOs -> SUBSET (1 .. sent)]

(* pipe_lock is held exactly by a writer that creates its pipe. *)
LockHeld ==
  ending # "gone" => \A p \in Procs : lock = p <=> pc[p] \in {"create", "opening"}

(* Types, and the use of the lock. *)
PipeTypeOK ==
  EntryTypes /\ CellTypes /\ MasterTypes /\ SessionTypes /\ DataTypes /\ LockHeld

(* Public pipes as users know them: no output is lost. *)
Pipes == INSTANCE PublicPipes WITH
  Absent <- {0}, Empty <- {},
  box <- [i \in Ids |-> IF valid[i] THEN buffer[fifo[i]] ELSE {0}],
  made <- {{n} : n \in 1 .. sent}, taken <- {{n} : n \in got}, closed <- ending = "gone"

(* What is written to a pipe waits there until it is read: for sessions    *)
(* that take turns and name each pipe once, the two cells, the signal and  *)
(* the master's descriptors keep what PublicPipes promises.                *)
KeepsOutputs == Pipes!BoxSpec

(* Once the requests are served the master holds exactly the readers of    *)
(* the pipes in use: it neither runs out of descriptors nor lets a buffer  *)
(* go.                                                                     *)
ReadersMatch ==
  master = "idle" /\ ~signal /\ ending # "gone" => readers = {fifo[i] : i \in {j \in Ids : valid[j]}}

(* The handler closes nothing but a reader it has opened itself and still  *)
(* has open: a recorded fd is open but between its close and the store of  *)
(* -1, and none is closed before one was recorded.                         *)
(*                                                                         *)
(* This rests on pipe_lock: a pipe can only be cleared when its writer has *)
(* got a reader.  clear_all does not keep to it: ClearsOwn in MCPubPipe.    *)
ClosesOwn ==
  ending # "gone" => \A i \in Ids :
    /\ fake[i] \in FIFOs => fake[i] \in readers \/ (master = "closed" /\ close_id = i)
    /\ master = "close" /\ close_id = i => fake[i] # Unset

(* The master, once interrupted, ends. *)
MasterReturns == ending # "no" ~> ending = "gone"

(* "cmd >i" does not hang in its open, if sessions take turns and the      *)
(* master goes on.                                                         *)
WriterReturns == \A p \in Procs : pc[p] = "opening" ~> wfd[p] # 0
=============================================================================
