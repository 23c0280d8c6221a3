---------------------------- MODULE ServerPools ----------------------------
(***************************************************************************)
(* Numbered pipes of the select server (v1/shell.hpp, v1/conn_mgmt.hpp,    *)
(* v1/pipe.hpp).  One process runs the lines of all clients, one line at a *)
(* time.  Every slot of the client table has a pipe_pool of its own, and   *)
(* all of them name descriptors of the same table, which every command     *)
(* inherits.  The loop over the commands of a line is that of PipePool.    *)
(***************************************************************************)
EXTENDS PipePool

CONSTANT Clients    \* the slots of the client table

VARIABLES
  client,     \* the slot whose pool is pipe_pool now, and whose input is input
  joined,     \* the slots in use
  parked,     \* parked[c]: pool and last input of another slot c
  forgotten   \* history: the descriptors reset_pipe_pool has forgotten

slotVars == <<client, joined, parked, forgotten>>
serverVars == <<poolVars, slotVars>>

PoolOf(c) == IF c = client THEN pool ELSE parked[c].pool
InputOf(c) == IF c = client THEN input ELSE parked[c].input
FdsIn(pl) == UNION {FdsOf(pl[n]) : n \in 1 .. Len(pl)}

EmptyPool == [pool |-> <<NoPipe>>, input |-> <<>>]

ServerInit ==
  /\ PoolInit
  /\ client \in Clients /\ joined = {}
  /\ parked = [c \in Clients |-> EmptyPool]
  /\ forgotten = {}

(* Seeded fault: run_command goes on with the pool it has used last. *)
BugTurnTo(c) ==
  /\ client' = c
  /\ parked' = [parked EXCEPT ![client] = [pool |-> pool, input |-> input]]
  /\ UNCHANGED pool /\ input' = InputOf(c)

(* client.pipe_pool of another client. *)
TurnTo(c) ==
  /\ client' = c
  /\ parked' = [parked EXCEPT ![client] = [pool |-> pool, input |-> input], ![c] = EmptyPool]
  /\ pool' = PoolOf(c) /\ input' = InputOf(c)

(* A line of a client: its own, or that of another one than before.        *)
ServeLine(c) ==
  /\ pc = "prompt" /\ c \in joined /\ pc' = "cut"
  /\ line' \in Lines
  /\ \/ c = client /\ UNCHANGED <<client, parked, pool, input>>
     \/ c # client /\ TurnTo(c)
  /\ UNCHANGED <<joined, forgotten, fds, data, first, localVars>>

(* One round of the loop, in three steps. *)
CutCommand == Cut /\ UNCHANGED slotVars
CreatePipes == MakePipes /\ UNCHANGED slotVars
RunCommand == (Succeed \/ Fail) /\ UNCHANGED slotVars
LineDone == EndLine /\ UNCHANGED slotVars

(* Seeded fault: a session goes on with the pool of the one before. *)
BugResetPipePool(c) == UNCHANGED <<pool, input, parked>>

(* reset_pipe_pool: the entries go, what they name stays open. *)
ResetPipePool(c) ==
  \/ /\ c = client /\ pool' = <<NoPipe>> /\ input' = <<>>
     /\ UNCHANGED parked
  \/ /\ c # client /\ parked' = [parked EXCEPT ![c] = EmptyPool]
     /\ UNCHANGED <<pool, input>>

(* init_client *)
Join(c) ==
  /\ pc = "prompt" /\ c \notin joined /\ joined' = joined \cup {c}
  /\ ResetPipePool(c)
  /\ forgotten' = forgotten \cup FdsIn(PoolOf(c))
  /\ UNCHANGED <<pc, line, fds, data, first, localVars, client>>

(* disconnect: the slot keeps its pool until it is used again.             *)
Leave(c) ==
  /\ pc = "prompt" /\ c \in joined /\ joined' = joined \ {c}
  /\ UNCHANGED <<poolVars, client, parked, forgotten>>

ServerNext ==
  \/ \E c \in Clients : ServeLine(c) \/ Join(c) \/ Leave(c)
  \/ CutCommand \/ CreatePipes \/ RunCommand \/ LineDone

ServerSpec == ServerInit /\ [][ServerNext]_serverVars

-----------------------------------------------------------------------------
AllFds == UNION {FdsIn(PoolOf(c)) : c \in Clients}

(* A client never gets at the pipe of another: no two slots name the same  *)
(* descriptor.                                                             *)
NoPipeShared ==
  \A c, d \in Clients : FdsIn(PoolOf(c)) \cap FdsIn(PoolOf(d)) # {} => c = d

(* Between lines the server has nothing open but what the pools of its     *)
(* slots name, one slot each, and what reset_pipe_pool has forgotten.      *)
PoolsApart ==
  /\ pc = "prompt" => {n \in Fds : fds[n] # Free} = AllFds \cup forgotten
  /\ AllFds \cap forgotten = {}
  /\ NoPipeShared

(* Clients that leave and come back cost the server nothing.               *)
NothingForgotten == forgotten = {}

Promise(c) == INSTANCE NumberedPipes WITH
  todo <- IF c = client THEN line ELSE <<>>,
  fresh <- c # client \/ first \/ line = <<>>,
  due <- LET pl == PoolOf(c)
             shift == IF c = client THEN Shift ELSE 1
         IN [n \in 1 .. MaxCount |->
               IF n + shift <= Len(pl) THEN Content(pl[n + shift]) ELSE <<>>],
  piped <- IF c = client THEN Content(last_pipe) ELSE <<>>,
  input <- InputOf(c)

SessionBegins(c) == c \notin joined /\ c \in joined'

(* Every client is served as if it had a shell of its own, whatever lines  *)
(* the others send, if unknown commands name no number: within a session   *)
(* its pool implements NumberedPipes, and a session begins with nothing    *)
(* due, whoever had its slot before.                                       *)
ServedAlone ==
  /\ \A c \in Clients : Promise(c)!DueInit
  /\ [][\A c \in Clients :
          \/ SessionBegins(c) /\ Promise(c)!DueInit'
          \/ ~SessionBegins(c) /\ (Promise(c)!DueNext \/ UNCHANGED Promise(c)!dueVars)]_serverVars
=============================================================================
