-------------------------------- MODULE Chat --------------------------------
(***************************************************************************)
(* Connection management of the multi-process server (v2/conn_mgmt.hpp and *)
(* the commands of v2/shell.hpp that use it): a table of client slots in   *)
(* shared memory, one message queue per slot, and one process per client.  *)
(* Every operation is a body of ConnLock's critical section, split into    *)
(* what it reads (Lookup) and what it then does (Act), so that a lock that *)
(* does not exclude shows.                                                 *)
(***************************************************************************)
EXTENDS ConnLock, Sequences

CONSTANTS
  MaxClient,   \* MAX_CLIENT, the slots of the table
  MaxUnread,   \* MAX_UNREAD, the messages a queue holds
  Names,       \* what clients type after "name"
  Stored,      \* Stored[n]: n cut to MAX_NICK_LEN-1 characters
  Cmds,        \* the commands clients use
  Crashes,     \* the processes that may end otherwise than through "exit"
  MasterEnds,  \* may the master be told to end (SIGINT) while sessions run?
  Overlap,     \* may clients act while another main program is in conn_lock?
  None

NoName == "(no name)"

ASSUME ChatAssumption ==
  /\ MaxClient \in Nat \ {0} /\ MaxUnread \in Nat \ {0}
  /\ Stored \in [Names -> STRING]
  /\ Cmds \subseteq {"who", "name", "tell", "yell", "piped", "exit"}
  /\ Crashes \subseteq Procs /\ {MasterEnds, Overlap} \subseteq BOOLEAN
  /\ None \notin Procs

VARIABLES
  owner,      \* owner[s]: the pid in slot s; None: fd < 0
  nick,       \* nick[s]
  queue,      \* queue[s]: msgs[0..size-1]
  max_id,     \* ConnMgmt::max_id
  slot,       \* slot[p]: client_p of p, 0 before it is set
  op,         \* op[p]: the operation p is in
  found,      \* found[p]: what the reading half of the operation returned
  seen,       \* seen[p]: messages the handler of p has printed
  overrun     \* history: clients[MAX_CLIENT] has been read

chatVars == <<owner, nick, queue, max_id, slot, op, found, seen, overrun>>
vars == <<lockVars, chatVars>>

Slots == 1 .. MaxClient
NotYet == -1
Texts == {"info", "tell", "yell"}

(* str and from_id of a message; "to" is history: the session that had the *)
(* slot when the message was queued.                                       *)
Message == [text : Texts, from : Procs \cup {None}, to : Procs \cup {None}]

Operation(c, n, s) == [cmd |-> c, name |-> n, to |-> s]
Idle     == Operation("idle", NoName, 0)
Register == Operation("register", NoName, 0)
Exit     == Operation("exit", NoName, 0)

(* A command line; tell takes any number, also one that is no slot. *)
Commands ==
  {Operation(c, NoName, 0) : c \in Cmds \ {"name", "tell"}}
    \cup {Operation("name", n, 0) : n \in IF "name" \in Cmds THEN Names ELSE {}}
    \cup {Operation("tell", NoName, s) :
            s \in IF "tell" \in Cmds THEN 0 .. MaxClient + 1 ELSE {}}

ChatInit ==
  /\ LockInit
  /\ owner = [s \in Slots |-> None]
  /\ nick = [s \in Slots |-> NoName]
  /\ queue = [s \in Slots |-> <<>>]
  /\ max_id = 0
  /\ slot = [p \in Procs |-> 0]
  /\ op = [p \in Procs |-> Idle]
  /\ found = [p \in Procs |-> NotYet]
  /\ seen = [p \in Procs |-> NotYet]
  /\ overrun = FALSE

Valid == {s \in Slots : owner[s] # None}

-----------------------------------------------------------------------------
(* The reading half of the operations.  Both scans of the table go over    *)
(* i = 0 .. max_id inclusive, here 1 .. max_id + 1: with max_id =          *)
(* MAX_CLIENT the last index is outside the table.                         *)

(* Seeded fault: the scan takes any slot. *)
BugFreeSlots == Slots \cap (1 .. max_id + 1)

FreeSlots == {s \in Slots : s <= max_id + 1 /\ owner[s] = None}

(* Seeded fault: the scan stops one slot early. *)
BugNameTaken(n) == \E s \in Valid : s < max_id /\ nick[s] = n

NameTaken(n) == \E s \in Valid : s <= max_id + 1 /\ nick[s] = n

RaiseMaxId(s) == max_id' = IF s > max_id THEN s ELSE max_id

(* find_empty_slot; past the end of the table no slot is returned. *)
FindEmptySlot(p) ==
  \/ /\ \E s \in FreeSlots :
          /\ \A t \in FreeSlots : s <= t
          /\ found' = [found EXCEPT ![p] = s]
          /\ RaiseMaxId(s)
     /\ UNCHANGED overrun
  \/ /\ FreeSlots = {}
     /\ found' = [found EXCEPT ![p] = MaxClient + 1]
     /\ overrun' = TRUE
     /\ UNCHANGED max_id

CheckNameExist(p) ==
  /\ found' = [found EXCEPT ![p] = IF NameTaken(op[p].name) THEN 1 ELSE 0]
  /\ overrun' = (overrun \/ (~NameTaken(op[p].name) /\ max_id = MaxClient))
  /\ UNCHANGED max_id

CheckTarget(p) ==
  /\ found' = [found EXCEPT ![p] = IF op[p].to \in Valid THEN 1 ELSE 0]
  /\ UNCHANGED <<max_id, overrun>>

Lookup(p) ==
  /\ pc[p] = "cs" /\ Proceeds(p) /\ found[p] = NotYet
  /\ \/ op[p].cmd = "register" /\ FindEmptySlot(p)
     \/ op[p].cmd = "name" /\ CheckNameExist(p)
     \/ op[p].cmd = "tell" /\ CheckTarget(p)
     \/ /\ op[p].cmd \notin {"register", "name", "tell"}
        /\ found' = [found EXCEPT ![p] = 0]
        /\ UNCHANGED <<max_id, overrun>>
  /\ UNCHANGED <<lockVars, owner, nick, queue, slot, op, seen>>

-----------------------------------------------------------------------------
(* The acting half.                                                        *)

(* Seeded fault: add_message does not look at size. *)
BugAdded(q, m) == Append(q, m)

(* ConnMsgQueue::add_message; callers ignore that a full queue drops.      *)
Added(q, m) == IF Len(q) >= MaxUnread THEN q ELSE Append(q, m)

(* ConnClientEntry::add_message for every slot of S, when the table is own *)
Post(S, own, text, from) ==
  queue' = [s \in Slots |->
              IF s \in S
              THEN Added(queue[s], [text |-> text, from |-> from, to |-> own[s]])
              ELSE queue[s]]

(* kill(pid): the pid of a slot reset meanwhile is -1, every process.      *)
Pids(S, own) == {q \in Procs : \E s \in S : own[s] \in {q, None}}

(* register_new_client once it has its slot, and client_p = &slot.         *)
ActRegister(p) ==
  /\ found[p] \in Slots
  /\ owner' = [owner EXCEPT ![found[p]] = p]
  /\ slot' = [slot EXCEPT ![p] = found[p]]
  /\ LET S == Valid \cup {found[p]}
     IN Post(S, owner', "info", None) /\ Body(p, Pids(S, owner'))
  /\ UNCHANGED nick

(* change_name, and its failure: only the client itself is told.           *)
ActName(p) ==
  /\ \/ /\ found[p] = 0
        /\ nick' = [nick EXCEPT ![slot[p]] = Stored[op[p].name]]
        /\ Post(Valid, owner, "info", None) /\ Body(p, Pids(Valid, owner))
     \/ found[p] = 1 /\ Body(p, {}) /\ UNCHANGED <<nick, queue>>
  /\ UNCHANGED <<owner, slot>>

(* send_tell_message *)
ActTell(p) ==
  /\ \/ /\ found[p] = 1
        /\ Post({op[p].to}, owner, "tell", p) /\ Body(p, Pids({op[p].to}, owner))
     \/ found[p] = 0 /\ Body(p, {}) /\ UNCHANGED queue
  /\ UNCHANGED <<owner, nick, slot>>

(* send_yell_message, and the broadcast after a public pipe was used       *)
ActSpread(p, text, from) ==
  /\ Post(Valid, owner, text, from) /\ Body(p, Pids(Valid, owner))
  /\ UNCHANGED <<owner, nick, slot>>

ActWho(p) == Body(p, {}) /\ UNCHANGED <<owner, nick, queue, slot>>

(* disconnect: broadcast, then reset_entry, which leaves msg_q alone.      *)
ActDisconnect(p) ==
  /\ Post(Valid, owner, "info", None) /\ Body(p, Pids(Valid, owner))
  /\ owner' = [owner EXCEPT ![slot[p]] = None]
  /\ nick' = [nick EXCEPT ![slot[p]] = NoName]
  /\ UNCHANGED slot

Act(p) ==
  /\ found[p] # NotYet
  /\ \/ op[p].cmd = "register" /\ ActRegister(p)
     \/ op[p].cmd = "name" /\ ActName(p)
     \/ op[p].cmd = "tell" /\ ActTell(p)
     \/ op[p].cmd = "yell" /\ ActSpread(p, "yell", p)
     \/ op[p].cmd = "piped" /\ ActSpread(p, "info", None)
     \/ op[p].cmd = "who" /\ ActWho(p)
     \/ op[p].cmd = "exit" /\ ActDisconnect(p)
  /\ found' = [found EXCEPT ![p] = NotYet]
  /\ op' = [op EXCEPT ![p] = IF @.cmd = "exit" THEN @ ELSE Idle]
  /\ UNCHANGED <<max_id, seen, overrun>>

-----------------------------------------------------------------------------
(* signal_msg_handler: print every message, then size = 0.                 *)

HandlerPrint(p) ==
  /\ hpc[p] = "cs" /\ seen[p] = NotYet /\ slot[p] # 0
  /\ seen' = [seen EXCEPT ![p] = Len(queue[slot[p]])]
  /\ UNCHANGED <<lockVars, owner, nick, queue, max_id, slot, op, found, overrun>>

HandlerClear(p) ==
  /\ seen[p] # NotYet
  /\ HandlerBody(p)
  /\ queue' = [queue EXCEPT ![slot[p]] = <<>>]
  /\ seen' = [seen EXCEPT ![p] = NotYet]
  /\ UNCHANGED <<owner, nick, max_id, slot, op, found, overrun>>

-----------------------------------------------------------------------------
(* The life of a session.                                                  *)

(* What clients do: with Overlap = FALSE they are as patient as the test   *)
(* client delayclient.c, which pauses after every line it sends.           *)
Undisturbed(p) == Overlap \/ \A q \in Procs \ {p} : pc[q] \in {"none", "run", "dead"}

Connect(p) == Fork(p) /\ UNCHANGED chatVars

(* Seeded fault: the new child registers without conn_lock. *)
BugCallRegister(p) ==
  /\ pc[p] = "run" /\ Proceeds(p) /\ slot[p] = 0 /\ op[p] = Idle
  /\ Undisturbed(p)
  /\ pc' = [pc EXCEPT ![p] = "cs"]
  /\ op' = [op EXCEPT ![p] = Register]
  /\ UNCHANGED <<sem, adj, removed, failed, hpc, blocked, pending, allow>>
  /\ UNCHANGED <<owner, nick, queue, max_id, slot, found, seen, overrun>>

CallRegister(p) ==
  /\ slot[p] = 0 /\ op[p] = Idle
  /\ Undisturbed(p)
  /\ LockCall(p)
  /\ op' = [op EXCEPT ![p] = Register]
  /\ UNCHANGED <<owner, nick, queue, max_id, slot, found, seen, overrun>>

(* run_shell, up to its first prompt *)
EnterShell(p) == slot[p] # 0 /\ UnblockSigMsg(p) /\ UNCHANGED chatVars

CallCommand(p) ==
  /\ slot[p] # 0 /\ allow[p] /\ op[p] = Idle
  /\ Undisturbed(p)
  /\ LockCall(p)
  /\ \E c \in Commands : op' = [op EXCEPT ![p] = c]
  /\ UNCHANGED <<owner, nick, queue, max_id, slot, found, seen, overrun>>

Ended(p) ==
  /\ Die(p)
  /\ slot' = [slot EXCEPT ![p] = 0]
  /\ op' = [op EXCEPT ![p] = Idle]
  /\ found' = [found EXCEPT ![p] = NotYet]
  /\ seen' = [seen EXCEPT ![p] = NotYet]
  /\ UNCHANGED <<owner, nick, queue, max_id, overrun>>

(* exit(0) after disconnect(); signals pending when the mask was restored  *)
(* have been handled by then.                                              *)
LeaveShell(p) == pc[p] = "run" /\ op[p] = Exit /\ Proceeds(p) /\ Ended(p)

(* Undefined from here on: a slot past the end of the table, or a handler  *)
(* that runs before client_p is set.  The models end the process.          *)
Doomed(p) == found[p] > MaxClient \/ (hpc[p] = "cs" /\ slot[p] = 0)

(* Any other end: a signal with the default disposition, such as SIGPIPE.  *)
Crash(p) == (p \in Crashes \/ Doomed(p)) /\ Ended(p)

LockStep(p) ==
  /\ \/ SemTake(p) \/ SemSleep(p) \/ SemInterrupted(p) \/ SemGone(p)
     \/ MaskSignal(p) \/ SemSignal(p) \/ UnmaskSignal(p)
     \/ HandlerStart(p) \/ HandlerTake(p) \/ HandlerGone(p)
     \/ HandlerSignal(p) \/ HandlerReturn(p)
  /\ UNCHANGED chatVars

Work(p) == Lookup(p) \/ Act(p) \/ HandlerPrint(p) \/ HandlerClear(p)

ChatNext ==
  \/ \E p \in Procs :
       \/ Connect(p) \/ CallRegister(p) \/ EnterShell(p) \/ CallCommand(p)
       \/ LockStep(p) \/ Work(p) \/ LeaveShell(p) \/ Crash(p)
  \/ MasterEnds /\ MasterExit /\ UNCHANGED chatVars

ChatSpec == ChatInit /\ [][ChatNext]_vars

(* A process that can run does; the kernel serves semaphore waiters in the *)
(* order they came, and ends a process that has no slot to use.  Nothing   *)
(* obliges a client to connect or to type.                                 *)
Fairness ==
  \A p \in Procs :
    /\ WF_vars(CallRegister(p)) /\ WF_vars(EnterShell(p)) /\ WF_vars(LeaveShell(p))
    /\ WF_vars(LockStep(p)) /\ WF_vars(Work(p))
    /\ SF_vars((SemTake(p) \/ HandlerTake(p)) /\ UNCHANGED chatVars)
    /\ WF_vars(Doomed(p) /\ Crash(p))

FairChatSpec == ChatSpec /\ Fairness

-----------------------------------------------------------------------------
(* p has registered, is alive, and has not reset its slot yet. *)
InSession(p) ==
  /\ Alive(p) /\ slot[p] # 0
  /\ ~(op[p] = Exit /\ pc[p] \in {"done", "after", "run"})

(* Types, with the two bounds of the shared table: max_id counts slots and *)
(* a queue never holds more than the MAX_UNREAD entries of its array.      *)
ChatTypeOK ==
  /\ owner \in [Slots -> Procs \cup {None}]
  /\ nick \in [Slots -> {NoName} \cup {Stored[n] : n \in Names}]
  /\ \A s \in Slots : queue[s] \in Seq(Message) /\ Len(queue[s]) <= MaxUnread
  /\ max_id \in 0 .. MaxClient
  /\ slot \in [Procs -> 0 .. MaxClient]
  /\ op \in [Procs -> Commands \cup {Idle, Register, Exit}]
  /\ found \in [Procs -> NotYet .. MaxClient + 1]
  /\ seen \in [Procs -> NotYet .. MaxUnread]
  /\ overrun \in BOOLEAN

(* Every session has its own slot, with its own pid in it: client_p of two *)
(* processes never names the same entry.                                   *)
SlotExclusive == ~failed => \A p \in Procs : InSession(p) => owner[slot[p]] = p

(* SlotKept: only its own session takes a slot out of use, and nobody takes it over. *)
KeepsSlots ==
  ~failed' => \A s \in Slots :
    owner[s] # None /\ owner'[s] # owner[s]
      => owner'[s] = None /\ op[owner[s]] = Exit

SlotKept == [][KeepsSlots]_vars

(* Two users never go by the same chosen name. *)
UniqueNames == \A s, t \in Valid : s # t /\ nick[s] = nick[t] => nick[s] = NoName

(* change_name rejects a name in use, however requests interleave.         *)
NamesUnique == ~failed => UniqueNames

(* Every slot in use lies within the part of the table the scans look at.  *)
ScanCoversTable == ~failed => \A s \in Valid : s <= max_id

(* A message in the queue of a session is on its way to the screen: the    *)
(* signal is pending, or the handler runs and has not emptied the queue.   *)
NoLostWakeup ==
  ~failed => \A p \in Procs :
    InSession(p) /\ queue[slot[p]] # <<>> => pending[p] \/ hpc[p] \in {"wait", "cs"}

(* The handler throws away exactly the messages it has printed. *)
ClearsOnlyPrinted ==
  ~failed => \A p \in Procs :
    hpc[p] = "cs" /\ seen[p] # NotYet => Len(queue[slot[p]]) = seen[p]

(* No scan of the table leaves it. *)
InBounds == ~overrun

(* A message is printed by the session it was sent to. *)
PrintedByAddressee ==
  \A p \in Procs : hpc[p] = "cs" /\ seen[p] # NotYet =>
    \A i \in 1 .. Len(queue[slot[p]]) : queue[slot[p]][i].to = p

(* "yell, not yell to self" *)
YellNotToSelf ==
  \A s \in Slots : \A i \in 1 .. Len(queue[s]) :
    queue[s][i].text = "yell" => queue[s][i].from # queue[s][i].to

(* An operation that asks for the lock finishes. *)
CallsReturn == \A p \in Procs : pc[p] = "wait" ~> pc[p] \in {"run", "dead"}

(* What is queued for a session is printed, or the session ends. *)
MessagesArrive ==
  \A p \in Procs :
    InSession(p) /\ queue[slot[p]] # <<>>
      ~> ~InSession(p) \/ queue[slot[p]] = <<>>
=============================================================================
