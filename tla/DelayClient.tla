---------------------------- MODULE DelayClient ----------------------------
(***************************************************************************)
(* The test client of the repository (delayclient.c) at work on the first  *)
(* version of the server: one process that drives the connections of       *)
(* several users from a script.  It sends a user's next line only when it  *)
(* has seen a prompt on that user's connection since the last one          *)
(* (write_enable); a line that has to wait is kept in msg_buf (unsend).    *)
(* The replies themselves never look like a prompt here.                   *)
(***************************************************************************)
EXTENDS SelectServer

CONSTANTS
  Users,       \* indices of client_fd that the script uses
  Relogs,      \* does a script log a user in again after a logout?
  PauseSuffices  \* is the sleep(2) before "exit" long enough for the server?

ASSUME DelayAssumption ==
  /\ Users \subseteq Nat /\ {Relogs, PauseSuffices} \subseteq BOOLEAN
  /\ None \notin Users

VARIABLES
  conn,          \* conn[u]: the connection of client_fd[u] in afds, None for none
  write_enable,  \* write_enable[u]
  msg_buf,       \* the script line to be tried again (unsend), or None
  leaving,       \* the user whose connection is read until it ends, or None
  client         \* "loop" of main, "exiting" after the script's exit, "gone"

delayVars == <<conn, write_enable, msg_buf, leaving, client>>
delayAll == <<vars, delayVars>>
serverSide == <<pc, cur, all_set, r_set, table, open, hist>>

(* Lines of a script. *)
Script(c, u, p) == [cmd |-> c, user |-> u, packet |-> p]
ScriptLines ==
  {Script(c, u, <<Plain("exit")>>) : c \in {"login", "logout"}, u \in Users}
    \cup {Script("say", u, p) : u \in Users, p \in Packets}

ASSUME ScriptAssumption == None \notin ScriptLines

DelayInit ==
  /\ SelectInit
  /\ conn = [u \in Users |-> None]
  /\ write_enable = [u \in Users |-> FALSE]
  /\ msg_buf = None /\ leaving = None /\ client = "loop"

(* The end of file has arrived: the server has closed the connection. *)
Ended(c) == ~Connected(c) /\ ~Accepted(c)

(* A line of the script is at hand: the one kept, or else a new one.       *)
(* Scripts name users who are logged in, and log in those who are not.     *)
Hand(l) ==
  /\ client = "loop" /\ leaving = None
  /\ \/ msg_buf = l
     \/ msg_buf = None /\ (l.cmd = "login" <=> conn[l.user] = None)

-----------------------------------------------------------------------------
(* recv_msg: a prompt among the lines read enables the user.               *)
Recv(u) ==
  /\ client # "gone" /\ leaving \in {None, u}
  /\ conn[u] # None /\ may_send[conn[u]]
  /\ write_enable' = [write_enable EXCEPT ![u] = TRUE]
  /\ may_send' = [may_send EXCEPT ![conn[u]] = FALSE]
  /\ UNCHANGED <<serverSide, backlog, peer, sock, sent, conn, msg_buf, leaving, client>>

(* "login u": connect(). *)
Login(l) ==
  /\ Hand(l) /\ l.cmd = "login"
  /\ Relogs \/ ~write_enable[l.user]
  /\ \E c \in Sessions :
       /\ Connect(c)
       /\ conn' = [conn EXCEPT ![l.user] = c]
  /\ UNCHANGED <<write_enable, msg_buf, leaving, client>>

(* The user has no prompt: unsend. *)
HoldBack(l) ==
  /\ Hand(l) /\ l.cmd # "login" /\ ~write_enable[l.user]
  /\ l.cmd = "say" => sent[conn[l.user]] < MaxPackets
  /\ msg_buf' = l
  /\ UNCHANGED <<vars, conn, write_enable, leaving, client>>

(* Seeded fault: write_enable stays set. *)
BugSay(l) ==
  /\ Hand(l) /\ l.cmd = "say" /\ write_enable[l.user]
  /\ Alive /\ sent[conn[l.user]] < MaxPackets
  /\ Write(conn[l.user], l.packet)
  /\ sent' = [sent EXCEPT ![conn[l.user]] = @ + 1]
  /\ msg_buf' = None
  /\ UNCHANGED <<serverSide, backlog, peer, may_send, conn, write_enable, leaving, client>>

(* "u command" *)
Say(l) ==
  /\ Hand(l) /\ l.cmd = "say" /\ write_enable[l.user]
  /\ Alive /\ sent[conn[l.user]] < MaxPackets
  /\ Write(conn[l.user], l.packet)
  /\ sent' = [sent EXCEPT ![conn[l.user]] = @ + 1]
  /\ write_enable' = [write_enable EXCEPT ![l.user] = FALSE]
  /\ msg_buf' = None
  /\ UNCHANGED <<serverSide, backlog, peer, may_send, conn, leaving, client>>

(* write(EXIT_STR), then recv_msg until the end of the connection. *)
WriteExit(u) ==
  /\ Alive /\ Write(conn[u], <<Plain("exit")>>)
  /\ leaving' = u
  /\ UNCHANGED <<serverSide, backlog, peer, sent, may_send, conn, write_enable>>

(* "logout u"; write_enable is not reset. *)
Logout(l) ==
  /\ Hand(l) /\ l.cmd = "logout" /\ write_enable[l.user]
  /\ WriteExit(l.user)
  /\ msg_buf' = None /\ UNCHANGED client

(* "exit": sleep, then each connection in turn, with a prompt or without.  *)
ExitAll ==
  /\ client = "loop" /\ leaving = None /\ msg_buf = None
  /\ PauseSuffices => \A u \in Users : conn[u] # None => Accepted(conn[u]) /\ ~Waiting(conn[u])
  /\ client' = "exiting"
  /\ UNCHANGED <<vars, conn, write_enable, msg_buf, leaving>>

ExitNext ==
  /\ client = "exiting" /\ leaving = None
  /\ LET rest == {u \in Users : conn[u] # None}
     IN \/ rest # {} /\ WriteExit(Least(rest)) /\ UNCHANGED <<client, msg_buf>>
        \/ /\ rest = {} /\ client' = "gone"
           /\ UNCHANGED <<vars, conn, write_enable, msg_buf, leaving>>

(* recv_msg has returned 0: close. *)
Left ==
  /\ leaving # None /\ Ended(conn[leaving])
  /\ peer' = [peer EXCEPT ![conn[leaving]] = "closed"]
  /\ conn' = [conn EXCEPT ![leaving] = None]
  /\ leaving' = None
  /\ UNCHANGED <<serverSide, backlog, sock, sent, may_send, write_enable, msg_buf, client>>

(* What the client does by itself, without a new line of the script. *)
ClientGoesOn ==
  \/ Left \/ ExitNext
  \/ \E l \in ScriptLines : msg_buf = l /\ (Say(l) \/ Logout(l))

DelayNext ==
  \/ (ServerStep \/ Interrupt) /\ UNCHANGED delayVars
  \/ \E u \in Users : Recv(u)
  \/ \E l \in ScriptLines : Login(l) \/ HoldBack(l) \/ Say(l) \/ Logout(l)
  \/ ExitAll \/ ExitNext \/ Left

DelaySpec == DelayInit /\ [][DelayNext]_delayAll

(* The server and the client are running processes; a script may end.      *)
FairDelaySpec ==
  /\ DelaySpec
  /\ WF_delayAll(ServerStep /\ UNCHANGED delayVars)
  /\ WF_delayAll(ClientGoesOn)
  /\ \A u \in Users : WF_delayAll(Recv(u))

-----------------------------------------------------------------------------
(* The script never stands still: a line that waits for its prompt is sent *)
(* and a connection that is to end is ended, unless the server has gone.   *)
(* Client and server would otherwise wait for each other.                  *)
Standing == msg_buf # None \/ leaving # None

ScriptGoesOn == Standing /\ Alive ~> ~Standing \/ ~Alive
=============================================================================
