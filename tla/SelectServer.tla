---------------------------- MODULE SelectServer ----------------------------
(***************************************************************************)
(* The first version of the server (src/v1): one process, one select()     *)
(* loop (server.cpp), a static table of clients with their streams, names  *)
(* and environments (conn_mgmt.hpp), and the commands that use it          *)
(* (shell.hpp).  Between two steps of the server clients connect, send     *)
(* and close.  The shell's pipes are those of PipePool and PubPipe; here a *)
(* command line is one step, unless it reads from the client.              *)
(***************************************************************************)
EXTENDS Integers, Sequences, FiniteSets

CONSTANTS
  Sessions,    \* connections, each made once
  MaxClient,   \* MAX_CLIENT, the slots of the table
  MaxChange,   \* renames a client has (3)
  Names, Stored,      \* as in Chat: names as typed, and as kept
  Vars, Values,       \* what clients set in their environment
  Packets,     \* what a client sends at a time: sequences of lines
  MaxPackets,  \* bound: packets of a session
  Paced,       \* does a client wait for the prompt before it sends?
  Leaves,      \* may clients close their connection at any time?
  None

Listener == 3
Fds == 4 .. 3 + Cardinality(Sessions)
Closed == -1
Slots == 1 .. MaxClient
NoName == "(no name)"

(* A line of a client, by the branch of run_command it takes: "run" is a   *)
(* pipeline, "cat" one that reads what the client types.                   *)
Line(c, a, v) == [cmd |-> c, arg |-> a, val |-> v]
Plain(c) == Line(c, None, None)
AllLines ==
  {Plain(c) : c \in {"who", "yell", "run", "cat", "exit"}}
    \cup {Line("name", n, None) : n \in Names}
    \cup {Line("tell", n, None) : n \in 0 .. MaxClient + 1}
    \cup {Line("printenv", x, None) : x \in Vars}
    \cup {Line("setenv", x, v) : x \in Vars, v \in Values}

(* The beginning of a line; the next packet brings the rest. *)
Part == Plain("part")

ASSUME SelectAssumption ==
  /\ IsFiniteSet(Sessions) /\ None \notin Sessions
  /\ MaxClient \in Nat \ {0} /\ MaxChange \in Nat /\ MaxPackets \in Nat
  /\ Stored \in [Names -> STRING]
  /\ {Paced, Leaves} \subseteq BOOLEAN
  /\ \A k \in Packets : k \in Seq(AllLines \cup {Part}) /\ k # <<>>

VARIABLES
  pc,                   \* where the main loop is; "down", "killed" when it has ended
  cur,                  \* the slot the scan has come to
  all_set, r_set,       \* the descriptor sets of main
  fd, nick, change_count, env,  \* the members of clients[s]
  buf,                  \* buf[s]: lines in the buffer of clients[s].p_fin
  max_id,
  open,                 \* open[f]: the session behind descriptor f
  backlog,              \* sessions the listening socket holds
  peer,                 \* peer[c]: the other end: "away", "open", "closed", "reset"
  sock,                 \* sock[c]: lines sent and not yet read
  sent,                 \* packets sent
  may_send,             \* has the client a prompt to answer?  An unpaced one always
  told, named, renamed  \* history: the session's own setenv and name commands

table == <<fd, nick, change_count, env, buf, max_id>>
net == <<open, backlog, peer, sock, sent, may_send>>
hist == <<told, named, renamed>>
vars == <<pc, cur, all_set, r_set, table, net, hist>>

Alive == pc \notin {"down", "killed"}
Valid == {s \in Slots : fd[s] # Closed}
SessionOf(s) == open[fd[s]]
Least(S) == CHOOSE n \in S : \A m \in S : n <= m

-----------------------------------------------------------------------------
(* EnvVariables: a vector of key and value.                                *)

ResetEnv == <<[key |-> "PATH", value |-> "bin:."]>>

GetValue(e, k) ==
  LET at == {i \in 1 .. Len(e) : e[i].key = k}
  IN IF at = {} THEN "" ELSE e[Least(at)].value

(* Seeded fault: the key is appended even if it is there. *)
BugSetValue(e, k, v) == Append(e, [key |-> k, value |-> v])

SetValue(e, k, v) ==
  IF \E i \in 1 .. Len(e) : e[i].key = k
  THEN [i \in 1 .. Len(e) |-> IF e[i].key = k THEN [e[i] EXCEPT !.value = v] ELSE e[i]]
  ELSE Append(e, [key |-> k, value |-> v])

SelectInit ==
  /\ pc = "select" /\ cur = 1
  /\ all_set = {Listener} /\ r_set = {}
  /\ fd = [s \in Slots |-> Closed] /\ nick = [s \in Slots |-> NoName]
  /\ change_count = [s \in Slots |-> 0] /\ env = [s \in Slots |-> ResetEnv]
  /\ buf = [s \in Slots |-> <<>>] /\ max_id = 0
  /\ open = [f \in Fds |-> None] /\ backlog = <<>>
  /\ peer = [c \in Sessions |-> "away"] /\ sock = [c \in Sessions |-> <<>>]
  /\ sent = [c \in Sessions |-> 0] /\ may_send = [c \in Sessions |-> ~Paced]
  /\ told = [c \in Sessions |-> [x \in Vars |-> GetValue(ResetEnv, x)]]
  /\ named = [c \in Sessions |-> NoName] /\ renamed = [c \in Sessions |-> 0]

-----------------------------------------------------------------------------
(* Clients and the network.                                                *)

(* A packet that follows the beginning of a line completes it. *)
Joined(q, r) ==
  IF q # <<>> /\ q[Len(q)] = Part /\ r # <<>> THEN SubSeq(q, 1, Len(q) - 1) \o r ELSE q \o r

Connected(c) == \E i \in 1 .. Len(backlog) : backlog[i] = c
Accepted(c) == \E f \in Fds : open[f] = c

Connect(c) ==
  /\ Alive /\ peer[c] = "away"
  /\ peer' = [peer EXCEPT ![c] = "open"]
  /\ backlog' = Append(backlog, c)
  /\ UNCHANGED <<pc, cur, all_set, r_set, table, open, sock, sent, may_send, hist>>

(* write() of whole or half lines on the connection. *)
Write(c, packet) == sock' = [sock EXCEPT ![c] = Joined(@, packet)]

Send(c, packet) ==
  /\ Alive /\ peer[c] = "open" /\ (Connected(c) \/ Accepted(c))
  /\ sent[c] < MaxPackets /\ may_send[c]
  /\ Write(c, packet)
  /\ sent' = [sent EXCEPT ![c] = @ + 1]
  /\ may_send' = [may_send EXCEPT ![c] = ~Paced]
  /\ UNCHANGED <<pc, cur, all_set, r_set, table, open, backlog, peer, hist>>

Close(c) ==
  /\ Leaves /\ Alive /\ peer[c] = "open" /\ (Connected(c) \/ Accepted(c))
  /\ peer' = [peer EXCEPT ![c] = "closed"]
  /\ UNCHANGED <<pc, cur, all_set, r_set, table, open, backlog, sock, sent, may_send, hist>>

(* The server writes to the sessions of D, more than once to those of M.   *)
(* A write to a closed connection is answered by a reset, at once or too   *)
(* late to matter; a write to one that has been reset raises SIGPIPE.      *)
Delivered(D) ==
  /\ \A d \in D : peer[d] # "reset"
  /\ \E R \in SUBSET {d \in D : peer[d] = "closed"} :
       peer' = [d \in Sessions |-> IF d \in R THEN "reset" ELSE peer[d]]

Breaks(D, M) == (\E d \in D : peer[d] = "reset") \/ (\E d \in M : peer[d] = "closed")

(* SIGPIPE has its default action. *)
Killed ==
  /\ pc' = "killed"
  /\ UNCHANGED <<cur, all_set, r_set, table, net, hist>>

-----------------------------------------------------------------------------
(* select() and accept().                                                  *)

Readable(f) ==
  IF f = Listener THEN backlog # <<>>
  ELSE open[f] # None /\ (sock[open[f]] # <<>> \/ peer[open[f]] # "open")

Select ==
  /\ pc = "select" /\ \E f \in all_set : Readable(f)
  /\ r_set' = {f \in all_set : Readable(f)}
  /\ pc' = "accept"
  /\ UNCHANGED <<cur, all_set, table, net, hist>>

FreeSlots == {s \in Slots : s <= max_id + 1 /\ fd[s] = Closed}

(* Seeded fault: the new client is not watched. *)
BugWatched(f) == all_set

Watched(f) == all_set \cup {f}

(* Seeded fault: init_client leaves the environment of the slot. *)
BugInitClient(s, f) ==
  /\ fd' = [fd EXCEPT ![s] = f]
  /\ buf' = [buf EXCEPT ![s] = <<>>]
  /\ UNCHANGED env

InitClient(s, f) ==
  /\ fd' = [fd EXCEPT ![s] = f]
  /\ buf' = [buf EXCEPT ![s] = <<>>]
  /\ env' = [env EXCEPT ![s] = ResetEnv]

(* register_new_client; welcome, broadcast, prompt. *)
Register ==
  /\ pc = "accept" /\ Listener \in r_set /\ FreeSlots # {}
  /\ LET c == Head(backlog)
         f == Least({n \in Fds : open[n] = None})
         s == Least(FreeSlots)
         others == {SessionOf(t) : t \in Valid}
     IN \/ /\ Delivered(others \cup {c})
           /\ all_set' = Watched(f)
           /\ open' = [open EXCEPT ![f] = c] /\ backlog' = Tail(backlog)
           /\ InitClient(s, f)
           /\ max_id' = IF s > max_id THEN s ELSE max_id
           /\ may_send' = [may_send EXCEPT ![c] = TRUE]
           /\ pc' = "scan" /\ cur' = 1
           /\ UNCHANGED <<r_set, nick, change_count, sock, sent, hist>>
        \/ Breaks(others \cup {c}, {c}) /\ Killed

(* find_empty_slot ends without a value: whatever memory it names instead, *)
(* the server is not to be relied on any more.                             *)
Overrun == pc = "accept" /\ Listener \in r_set /\ FreeSlots = {} /\ Killed

NoAccept ==
  /\ pc = "accept" /\ Listener \notin r_set
  /\ pc' = "scan" /\ cur' = 1
  /\ UNCHANGED <<all_set, r_set, table, net, hist>>

-----------------------------------------------------------------------------
(* The scan over the clients and process_client.                           *)

(* Seeded fault: the scan does not look at r_set. *)
BugReady == {s \in Valid : s >= cur}

Ready == {s \in Valid : s >= cur /\ fd[s] \in r_set}

Pick ==
  /\ pc = "scan" /\ Ready # {}
  /\ cur' = Least(Ready) /\ pc' = "getline"
  /\ UNCHANGED <<all_set, r_set, table, net, hist>>

(* r_set is dead until the next select(). *)
EndScan ==
  /\ pc = "scan" /\ Ready = {} /\ pc' = "select"
  /\ cur' = 1 /\ r_set' = {}
  /\ UNCHANGED <<all_set, table, net, hist>>

HasLine(q) == q # <<>> /\ (Head(q) # Part \/ Len(q) > 1)
AtEof == sock[SessionOf(cur)] = <<>> /\ peer[SessionOf(cur)] # "open"

(* read(): all that has arrived goes to the buffer of the stream. *)
Fill ==
  /\ pc = "getline" /\ ~HasLine(buf[cur])
  /\ sock[SessionOf(cur)] # <<>>
  /\ buf' = [buf EXCEPT ![cur] = Joined(@, sock[SessionOf(cur)])]
  /\ sock' = [sock EXCEPT ![SessionOf(cur)] = <<>>]
  /\ UNCHANGED <<pc, cur, all_set, r_set, fd, nick, change_count, env, max_id,
                 open, backlog, peer, sent, may_send, hist>>

(* The line getline returns: at the end of file also half a line. *)
Gets(line) ==
  /\ pc = "getline"
  /\ \/ HasLine(buf[cur]) /\ line = Head(buf[cur])
     \/ ~HasLine(buf[cur]) /\ AtEof /\ buf[cur] # <<>> /\ line = Plain("run")

Everyone == {SessionOf(t) : t \in Valid}

NameTaken(n) == \E s \in Valid : s <= max_id + 1 /\ nick[s] = n

(* change_name *)
MayRename(n) == ~NameTaken(n) /\ change_count[cur] < MaxChange

(* Does a command change the name?  Once every slot has been used the entry *)
(* behind the table is compared as well, and may be anything.               *)
Renames(line) ==
  IF line.cmd = "name" /\ MayRename(line.arg)
  THEN IF max_id < MaxClient THEN {TRUE} ELSE BOOLEAN
  ELSE {FALSE}

(* The sessions that get a message by a command, besides the prompt. *)
Addressed(line, renames) ==
  CASE line.cmd = "yell" \/ renames -> Everyone
    [] line.cmd = "tell" /\ line.arg \in Valid -> {SessionOf(line.arg)}
    [] line.cmd \in {"setenv", "exit", "cat"} -> {}
    [] OTHER -> {SessionOf(cur)}

(* What a command changes in the table; a pipeline changes nothing there.  *)
Effect(line, renames) ==
  /\ \/ /\ renames
        /\ nick' = [nick EXCEPT ![cur] = Stored[line.arg]]
        /\ change_count' = [change_count EXCEPT ![cur] = @ + 1]
        /\ named' = [named EXCEPT ![SessionOf(cur)] = Stored[line.arg]]
        /\ renamed' = [renamed EXCEPT ![SessionOf(cur)] = @ + 1]
     \/ ~renames /\ UNCHANGED <<nick, change_count, named, renamed>>
  /\ \/ /\ line.cmd = "setenv"
        /\ env' = [env EXCEPT ![cur] = SetValue(@, line.arg, line.val)]
        /\ told' = [told EXCEPT ![SessionOf(cur)][line.arg] = line.val]
     \/ line.cmd # "setenv" /\ UNCHANGED <<env, told>>

(* run_command and the prompt after it. *)
Serve(line) ==
  /\ Gets(line) /\ line.cmd \notin {"exit", "cat"}
  /\ \E renames \in Renames(line) :
     LET c == SessionOf(cur)
         to == Addressed(line, renames)
     IN \/ /\ Delivered(to \cup {c})
           /\ Effect(line, renames)
           /\ buf' = [buf EXCEPT ![cur] = Tail(@)]
           /\ may_send' = [may_send EXCEPT ![c] = TRUE]
           /\ pc' = "scan" /\ cur' = cur + 1
           /\ UNCHANGED <<all_set, r_set, fd, max_id, open, backlog, sock, sent>>
        \/ Breaks(to \cup {c}, to \cap {c}) /\ Killed

(* A command that reads from the client: the server waits for it, and it   *)
(* reads until the client has closed.                                      *)
StartCat(line) ==
  /\ Gets(line) /\ line.cmd = "cat" /\ pc' = "child"
  /\ buf' = [buf EXCEPT ![cur] = Tail(@)]
  /\ UNCHANGED <<cur, all_set, r_set, fd, nick, change_count, env, max_id, net, hist>>

EndCat ==
  /\ pc = "child" /\ peer[SessionOf(cur)] # "open"
  /\ \/ /\ Delivered({SessionOf(cur)})
        /\ sock' = [sock EXCEPT ![SessionOf(cur)] = <<>>]
        /\ may_send' = [may_send EXCEPT ![SessionOf(cur)] = TRUE]
        /\ pc' = "scan" /\ cur' = cur + 1
        /\ UNCHANGED <<all_set, r_set, table, open, backlog, sent, hist>>
     \/ Breaks({SessionOf(cur)}, {}) /\ Killed

ResetEntry(S) ==
  /\ fd' = [s \in Slots |-> IF s \in S THEN Closed ELSE fd[s]]
  /\ nick' = [s \in Slots |-> IF s \in S THEN NoName ELSE nick[s]]
  /\ change_count' = [s \in Slots |-> IF s \in S THEN 0 ELSE change_count[s]]

(* Seeded fault: the descriptor is cleared when it has been reset already. *)
BugUnwatched(f) == all_set

Unwatched(f) == all_set \ {f}

(* "exit", or nothing more to read: disconnect().  Everyone is told, the   *)
(* client itself included, before its streams and its entry go.            *)
Disconnect ==
  /\ pc = "getline"
  /\ (\E line \in AllLines : Gets(line) /\ line.cmd = "exit") \/ (AtEof /\ buf[cur] = <<>>)
  /\ \/ /\ Delivered(Everyone \ {SessionOf(cur)})
        /\ peer[SessionOf(cur)] # "reset"
        /\ all_set' = Unwatched(fd[cur])
        /\ ResetEntry({cur})
        /\ open' = [open EXCEPT ![fd[cur]] = None]
        /\ sock' = [sock EXCEPT ![SessionOf(cur)] = <<>>]
        /\ buf' = [buf EXCEPT ![cur] = <<>>]
        /\ pc' = "scan" /\ cur' = cur + 1
        /\ UNCHANGED <<r_set, env, max_id, backlog, sent, may_send, hist>>
     \/ Breaks(Everyone, {}) /\ Killed

(* SIGINT: clean_up() disconnects everyone and the server exits. *)
Interrupt ==
  /\ Alive /\ pc' = "down"
  /\ ResetEntry(Valid)
  /\ open' = [f \in Fds |-> None]
  /\ buf' = [s \in Slots |-> <<>>] /\ sock' = [c \in Sessions |-> <<>>]
  /\ UNCHANGED <<cur, all_set, r_set, env, max_id, backlog, peer, sent, may_send, hist>>

ServerStep ==
  \/ Select \/ Register \/ Overrun \/ NoAccept \/ Pick \/ EndScan \/ Fill
  \/ \E line \in AllLines : Serve(line) \/ StartCat(line)
  \/ EndCat \/ Disconnect

ClientStep(c) == Connect(c) \/ Close(c) \/ \E packet \in Packets : Send(c, packet)

SelectNext == ServerStep \/ Interrupt \/ \E c \in Sessions : ClientStep(c)

SelectSpec == SelectInit /\ [][SelectNext]_vars

(* The server is a running process; clients do as they like. *)
FairSelectSpec == SelectSpec /\ WF_vars(ServerStep)

-----------------------------------------------------------------------------
(* Types of the server's variables; a key is in an environment only once.  *)
SelectTypeOK ==
  /\ pc \in {"select", "accept", "scan", "getline", "child", "down", "killed"}
  /\ cur \in 1 .. MaxClient + 1
  /\ all_set \cup r_set \subseteq Fds \cup {Listener}
  /\ \A s \in Slots :
       /\ fd[s] \in Fds \cup {Closed}
       /\ \A i, j \in 1 .. Len(env[s]) : env[s][i].key = env[s][j].key => i = j
  /\ max_id \in 0 .. MaxClient
  /\ open \in [Fds -> Sessions \cup {None}]

(* Every open connection has exactly one slot, a slot in use has an open   *)
(* connection, and select() watches these descriptors and no other.        *)
WatchedAreValid ==
  Alive =>
    /\ all_set = {Listener} \cup {fd[s] : s \in Valid}
    /\ {fd[s] : s \in Valid} = {f \in Fds : open[f] # None}
    /\ \A s, t \in Valid : fd[s] = fd[t] \/ SessionOf(s) = SessionOf(t) => s = t

(* What a slot keeps belongs to the session that has it now, whoever had   *)
(* the slot before: the name, the number of changes after which a client   *)
(* is called "ugly", and the environment that printenv shows and commands  *)
(* get, which is what this session has set on top of the initial one.      *)
SlotIsOwn ==
  Alive => \A s \in Valid :
             /\ nick[s] = named[SessionOf(s)]
             /\ change_count[s] = renamed[SessionOf(s)]
             /\ \A x \in Vars : GetValue(env[s], x) = told[SessionOf(s)][x]

(* The server never sleeps in a client's getline: it reads where select()  *)
(* has found a line.                                                       *)
NeverWaits ==
  pc = "getline" => HasLine(buf[cur]) \/ AtEof \/ sock[SessionOf(cur)] # <<>>

(* "return false for EOF": clients that close do not end the server.       *)
ServerSurvives == pc # "killed"

(* "read a line from client": every line a client sends is served, unless  *)
(* the session or the server has ended.                                    *)
Waiting(c) == sock[c] # <<>> \/ \E s \in Valid : SessionOf(s) = c /\ buf[s] # <<>>

LinesServed == \A c \in Sessions : Waiting(c) /\ Alive ~> ~Waiting(c) \/ ~Alive
=============================================================================
