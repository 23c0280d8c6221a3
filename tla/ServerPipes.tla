----------------------------- MODULE ServerPipes -----------------------------
(***************************************************************************)
(* Public pipes of the first version (v1/pub_pipe_mgmt.hpp, and its callers*)
(* in v1/shell.hpp).  One process serves all clients, one stage of a line  *)
(* at a time, and keeps the readers of the pipes in use open: the child of *)
(* a ">i" asks for one with a signal while the server waits for it in      *)
(* error_pipe.getline, and the server signals itself to close one.         *)
(*                                                                         *)
(* FIFO files are numbered 1, 2, ... as they are made.  What one command   *)
(* prints fits in a pipe.  Announcing a pipe is left to SelectServer.      *)
(***************************************************************************)
EXTENDS Integers, FiniteSets

CONSTANTS
  Ids,        \* numbers of pipes that are used, 0 .. MAX_PUB_PIPE-1 at most
  Numbers,    \* numbers that occur in lines
  Stages,     \* the stages run: [out, in, first], ">out", "<in", first of its line
  MaxFifo,    \* bound: FIFO files ever made
  None

ASSUME ServerPipeAssumption ==
  /\ IsFiniteSet(Ids) /\ MaxFifo \in Nat /\ Cardinality(Ids) <= MaxFifo
  /\ Ids \subseteq Numbers /\ None \notin Numbers
  /\ Stages \subseteq [out : Numbers \cup {None}, in : Numbers \cup {None}, first : BOOLEAN]

VARIABLES
  valid, fifo, last,  \* the entries, the FIFO file under each name, the last made
  to_open, to_close, signal, \* the two cells, and whether L_SIGPIPE is pending
  fake,       \* fake[i]: the FIFO behind fake_read_fd, 0 for -1, or Unset
  readers,    \* the FIFO files the server has open
  pc, stage,  \* where the server and its child are, and with what
  wfd, rfd,   \* the FIFO files the child has open, 0 for none
  buffer,     \* buffer[f]: the outputs in the FIFO file f
  sent, got   \* history: the number of outputs, and those that were read

entryVars == <<valid, fifo, last>>
cellVars  == <<to_open, to_close, signal>>
heldVars  == <<fake, readers>>
childVars == <<wfd, rfd>>
dataVars  == <<buffer, sent, got>>
serverPipeVars == <<entryVars, cellVars, heldVars, pc, stage, childVars, dataVars>>

FIFOs == 1 .. MaxFifo

(* A fake_read_fd that this server has not written: no constructor sets it.*)
(* It may be the number of anything the server has open, or of nothing.    *)
Unset == -1

(* FIFO files a server that was killed has left behind. *)
LeftBehind ==
  UNION {{f \in [Ids -> 0 .. Cardinality(S)] :
            /\ \A i \in Ids : f[i] # 0 <=> i \in S
            /\ \A i, j \in S : f[i] = f[j] => i = j} : S \in SUBSET Ids}

(* "next"  between two stages       "write" the child, before open_write    *)
(* "open"  in open(name, O_WRONLY)  "read"  before open_read                *)
(* "exec"  before exec              "run"   the command runs                *)
(* "clear" the server, before clear_pipe   "kill" in its kill()             *)
(* "gone"  clean_up is done                                                 *)
ServerPipeInit ==
  /\ valid = [i \in Ids |-> FALSE]
  /\ fifo \in LeftBehind /\ last = Cardinality({i \in Ids : fifo[i] # 0})
  /\ to_open = None /\ to_close = None /\ signal = FALSE
  /\ fake = [i \in Ids |-> Unset] /\ readers = {}
  /\ pc = "next" /\ stage \in Stages
  /\ wfd = 0 /\ rfd = 0
  /\ buffer = [f \in FIFOs |-> {}] /\ sent = 0 /\ got = {}

Goto(l) == pc' = l /\ UNCHANGED stage

(* A buffer goes with the last descriptor of its FIFO: those of S stay.    *)
Held(S) == [f \in FIFOs |-> IF f \in S THEN buffer[f] ELSE {}]

-----------------------------------------------------------------------------
(* The child.                                                              *)

(* Where a stage goes on that has its output. *)
AtInput == IF stage.first /\ stage.in # None THEN "read" ELSE "exec"

(* A stage is forked.  Only the first of a line opens its "<in".           *)
ForkStage ==
  /\ pc = "next"
  /\ stage' \in Stages /\ (stage'.out # None => last < MaxFifo)
  /\ pc' = IF stage'.out # None THEN "write" ELSE AtInput'
  /\ UNCHANGED <<entryVars, cellVars, heldVars, childVars, dataVars>>

Usable(i) == i \in Ids /\ valid[i]

(* Seeded fault: an existing pipe is taken over. *)
BugExisted(i) == FALSE

Existed(i) == valid[i]

(* create() fails: the pipe existed, or mknod failed, other than by EEXIST. *)
NotCreated(i) == Existed(i) \/ fifo[i] = 0

(* "pipe existed", also said of a number out of range. *)
WriteFails ==
  /\ pc = "write" /\ (stage.out \in Ids => NotCreated(stage.out))
  /\ Goto("next")
  /\ UNCHANGED <<entryVars, cellVars, heldVars, childVars, dataVars>>

(* Seeded fault: the server is not signalled. *)
BugAskOpen == to_open' = stage.out /\ UNCHANGED <<to_close, signal>>

AskOpen == to_open' = stage.out /\ signal' = TRUE /\ UNCHANGED to_close

(* mknod, or a file left behind (EEXIST); then ask for a reader. *)
Create ==
  /\ pc = "write" /\ stage.out \in Ids /\ ~Existed(stage.out)
  /\ \/ /\ fifo[stage.out] = 0
        /\ last' = last + 1
        /\ fifo' = [fifo EXCEPT ![stage.out] = last + 1]
     \/ fifo[stage.out] # 0 /\ UNCHANGED <<last, fifo>>
  /\ valid' = [valid EXCEPT ![stage.out] = TRUE]
  /\ AskOpen
  /\ Goto("open")
  /\ UNCHANGED <<heldVars, childVars, dataVars>>

(* open(name, O_WRONLY) waits for a reader.                                *)
OpenWrite ==
  /\ pc = "open" /\ fifo[stage.out] \in readers
  /\ wfd' = fifo[stage.out]
  /\ Goto(AtInput)
  /\ UNCHANGED <<entryVars, cellVars, heldVars, rfd, dataVars>>

OpenRead ==
  /\ pc = "read" /\ Usable(stage.in)
  /\ rfd' = fifo[stage.in]
  /\ Goto("exec")
  /\ UNCHANGED <<entryVars, cellVars, heldVars, wfd, dataVars>>

(* "pipe not exist": the pipe the stage has made stays, empty.             *)
ReadFails ==
  /\ pc = "read" /\ ~Usable(stage.in)
  /\ wfd' = 0 /\ Goto("next")
  /\ UNCHANGED <<entryVars, cellVars, heldVars, rfd, dataVars>>

(* An unknown command; here the server does not clear the pipe it names.   *)
Unknown ==
  /\ pc = "exec"
  /\ wfd' = 0 /\ rfd' = 0 /\ Goto("next")
  /\ UNCHANGED <<entryVars, cellVars, heldVars, dataVars>>

Exec ==
  /\ pc = "exec" /\ Goto("run")
  /\ UNCHANGED <<entryVars, cellVars, heldVars, childVars, dataVars>>

(* The command reads what there is and prints; the server waits for it.    *)
Run ==
  /\ pc = "run" /\ Goto(IF stage.in # None THEN "clear" ELSE "next")
  /\ got' = got \cup UNION {buffer[f] : f \in {rfd} \ {0}}
  /\ sent' = IF wfd = 0 THEN sent ELSE sent + 1
  /\ buffer' = [f \in FIFOs |-> (IF f = rfd THEN {} ELSE buffer[f])
                                  \cup (IF f = wfd /\ f \in readers THEN {sent'} ELSE {})]
  /\ wfd' = 0 /\ rfd' = 0
  /\ UNCHANGED <<entryVars, cellVars, heldVars>>

-----------------------------------------------------------------------------
(* The server.                                                             *)

(* Seeded fault: the pipe stays valid. *)
BugForget == UNCHANGED valid

Forget == valid' = [valid EXCEPT ![stage.in] = FALSE]

(* clear_pipe, up to its kill(). *)
Clear ==
  /\ pc = "clear"
  /\ \/ /\ Usable(stage.in)
        /\ Forget
        /\ to_close' = stage.in /\ signal' = TRUE
        /\ Goto("kill")
     \/ /\ ~Usable(stage.in)
        /\ Goto("next")
        /\ UNCHANGED <<valid, to_close, signal>>
  /\ UNCHANGED <<fifo, last, to_open, heldVars, childVars, dataVars>>

(* kill() of oneself returns after the handler; then unlink.               *)
Unlink ==
  /\ pc = "kill" /\ ~signal
  /\ fifo' = [fifo EXCEPT ![stage.in] = 0]
  /\ Goto("next")
  /\ UNCHANGED <<valid, last, cellVars, heldVars, childVars, dataVars>>

(* What close(v) closes of the readers in S: an unset number is that of    *)
(* any, or of none.                                                        *)
ClosedBy(v, S) == IF v = Unset THEN {{}} \cup {{f} : f \in S} ELSE {{v}}

(* signal_pipe_handler: first open, then close.  No child uses what it     *)
(* records, and a SIGINT that comes between ends the server.               *)
Handle ==
  /\ signal /\ pc # "gone"
  /\ LET opened == IF to_open = None THEN <<fake, readers>>
                   ELSE <<[fake EXCEPT ![to_open] = fifo[to_open]],
                          readers \cup ({fifo[to_open]} \ {0})>>
     IN IF to_close = None
        THEN fake' = opened[1] /\ readers' = opened[2]
        ELSE /\ \E closed \in ClosedBy(opened[1][to_close], opened[2]) :
                  readers' = opened[2] \ closed
             /\ fake' = [opened[1] EXCEPT ![to_close] = 0]
  /\ buffer' = Held(readers' \cup {rfd})
  /\ signal' = FALSE /\ to_open' = None /\ to_close' = None
  /\ UNCHANGED <<entryVars, pc, stage, childVars, sent, got>>

(* SIGINT: clear_all, and the server exits, whatever clear_all has closed. *)
CleanUp ==
  /\ pc # "gone" /\ Goto("gone")
  /\ valid' = [i \in Ids |-> FALSE] /\ fifo' = [i \in Ids |-> IF valid[i] THEN 0 ELSE fifo[i]]
  /\ fake' = [i \in Ids |-> IF valid[i] THEN 0 ELSE fake[i]] /\ readers' = {}
  /\ to_open' = None
  /\ buffer' = Held({rfd})
  /\ UNCHANGED <<last, to_close, signal, childVars, sent, got>>

ChildStep ==
  \/ WriteFails \/ Create \/ OpenWrite \/ OpenRead \/ ReadFails \/ Unknown \/ Exec \/ Run

ServerStep == Handle \/ Clear \/ Unlink

ServerPipeNext == ForkStage \/ ChildStep \/ ServerStep \/ CleanUp

ServerPipeSpec == ServerPipeInit /\ [][ServerPipeNext]_serverPipeVars

(* The server and its child run on. *)
FairServerPipeSpec ==
  ServerPipeSpec /\ WF_serverPipeVars(ChildStep) /\ WF_serverPipeVars(ServerStep)

-----------------------------------------------------------------------------
(* No stage reads the pipe it makes, nor names one it does not open. *)
PlainLines == \A s \in Stages : s.in # None => s.first /\ s.in # s.out

(* Public pipes as users know them. *)
Pipes == INSTANCE PublicPipes WITH
  Absent <- {0}, Empty <- {},
  box <- [i \in Ids |-> IF valid[i] THEN buffer[fifo[i]] ELSE {0}],
  made <- {{n} : n \in 1 .. sent}, taken <- {{n} : n \in got}, closed <- pc = "gone"

(* Whatever clients do one after the other, an output waits in its pipe    *)
(* until it is read: without any lock, as there is one server.             *)
KeepsOutputs == Pipes!BoxSpec

(* Whenever the server turns to the next stage it holds exactly the readers *)
(* of the pipes in use, under their entries, and both requests are served.  *)
Settled ==
  pc = "next" =>
    /\ ~signal /\ to_open = None /\ to_close = None
    /\ \A i \in Ids : IF valid[i] THEN fake[i] = fifo[i] ELSE fake[i] \in {0, Unset}
    /\ readers = {fifo[i] : i \in {j \in Ids : valid[j]}} /\ 0 \notin readers

(* The server, which serves nobody else meanwhile, gets over every stage.  *)
ServerReturns == pc \notin {"next", "gone"} ~> pc \in {"next", "gone"}
=============================================================================
