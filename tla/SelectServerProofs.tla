------------------------- MODULE SelectServerProofs -------------------------
(***************************************************************************)
(* Proofs about SelectServer, for any finite set of sessions and any size  *)
(* of the table.                                                           *)
(*                                                                         *)
(* WatchedAreValid says that sets, table and connections agree; to keep    *)
(* it over accept() and disconnect() one has to know as well that a        *)
(* session waits in the queue once and then never again (Queued), and that *)
(* there is a free descriptor for it; to keep SlotIsOwn, that a free slot  *)
(* holds no name and that a session without a slot has said nothing        *)
(* (Untouched).  TableInv is all of that.                                  *)
(***************************************************************************)
EXTENDS SelectServer, FiniteSetTheorems, WellFoundedInduction, TLAPS

PCs == {"select", "accept", "scan", "getline", "child", "down", "killed"}
Keys == Vars \cup {"PATH"}
EnvValues == Values \cup {"bin:."}
Entries == [key : Keys, value : EnvValues]
Nicks == {Stored[n] : n \in Names} \cup {NoName}
Peers == {"away", "open", "closed", "reset"}

ServerTypes ==
  /\ pc \in PCs /\ cur \in 1 .. MaxClient + 1
  /\ all_set \in SUBSET (Fds \cup {Listener}) /\ r_set \in SUBSET (Fds \cup {Listener})
  /\ fd \in [Slots -> Fds \cup {Closed}]
  /\ nick \in [Slots -> Nicks] /\ change_count \in [Slots -> Nat]
  /\ max_id \in 0 .. MaxClient
  /\ open \in [Fds -> Sessions \cup {None}] /\ backlog \in Seq(Sessions)
  /\ peer \in [Sessions -> Peers]
  /\ named \in [Sessions -> Nicks] /\ renamed \in [Sessions -> Nat]

OneKey(e) == \A i, j \in 1 .. Len(e) : e[i].key = e[j].key => i = j

EnvTypes ==
  /\ env \in [Slots -> Seq(Entries)]
  /\ told \in [Sessions -> [Vars -> EnvValues \cup {""}]]
  /\ \A s \in Slots : OneKey(env[s])

(* What the main loop relies on where it is. *)
Places ==
  /\ pc \in {"getline", "child"} => cur \in Valid
  /\ pc = "accept" /\ Listener \in r_set => backlog # <<>>

(* A descriptor, a slot and a session of a client belong to one another. *)
OneEach ==
  /\ \A f, g \in Fds : open[f] = open[g] /\ open[f] # None => f = g
  /\ \A s, t \in Valid : fd[s] = fd[t] => s = t
  /\ \A s \in Valid : open[fd[s]] # None
  /\ \A f \in Fds : open[f] # None => \E s \in Valid : fd[s] = f
  /\ all_set = {Listener} \cup {fd[s] : s \in Valid}

(* A connection waits once, and not when it has been accepted. *)
Queued ==
  /\ \A i, j \in 1 .. Len(backlog) : backlog[i] = backlog[j] => i = j
  /\ \A c \in Sessions : Connected(c) \/ Accepted(c) => peer[c] # "away"
  /\ \A c \in Sessions : ~ (Connected(c) /\ Accepted(c))

Fresh(c) ==
  /\ named[c] = NoName /\ renamed[c] = 0
  /\ \A x \in Vars : GetValue(ResetEnv, x) = told[c][x]

(* A free slot keeps no name, and a session that has no slot yet has said  *)
(* nothing.                                                                *)
Untouched ==
  /\ \A s \in Slots \ Valid : nick[s] = NoName /\ change_count[s] = 0
  /\ \A c \in Sessions : peer[c] = "away" \/ Connected(c) => Fresh(c)

Own(s) ==
  /\ nick[s] = named[SessionOf(s)]
  /\ change_count[s] = renamed[SessionOf(s)]
  /\ \A x \in Vars : GetValue(env[s], x) = told[SessionOf(s)][x]

TableInv ==
  /\ ServerTypes /\ EnvTypes /\ Places
  /\ Alive => OneEach /\ Queued /\ Untouched /\ SlotIsOwn

LEMMA NatOrder ==
  \E R : IsWellFoundedOn(R, Nat) /\ \A x, y \in Nat : <<y, x>> \in R <=> y < x
<1>1. IsWellFoundedOn(OpToRel(<,Nat), Nat)
  BY NatLessThanWellFounded
<1>2. \A x, y \in Nat : <<y, x>> \in OpToRel(<,Nat) <=> y < x
  BY DEF OpToRel
<1> QED BY <1>1, <1>2, Zenon

LEMMA LeastIn ==
  ASSUME NEW S \in SUBSET Nat, S # {}
  PROVE  Least(S) \in S
<1>1. PICK R : IsWellFoundedOn(R, Nat) /\ \A x, y \in Nat : <<y, x>> \in R <=> y < x
  BY NatOrder
<1>2. PICK x \in S : \A y \in S : ~ (<<y, x>> \in R)
  BY <1>1, WFMin
<1>3. \A y \in S : x <= y
  <2> TAKE y \in S
  <2>1. x \in Nat /\ y \in Nat
    OBVIOUS
  <2>2. <<y, x>> \in R <=> y < x
    BY <1>1, <2>1, Zenon
  <2>3. ~ (y < x)
    BY <1>2, <2>2, Zenon
  <2> QED BY <2>1, <2>3
<1> QED BY <1>3 DEF Least

LEMMA Elements ==
  \A E : \A e \in Seq(E) : Len(e) \in Nat /\ \A i \in 1 .. Len(e) : e[i] \in E
OBVIOUS

(* Where a key is there only once, GetValue gives its value.               *)
LEMMA Got ==
  ASSUME NEW E, NEW e \in Seq(E), OneKey(e), NEW i \in 1 .. Len(e)
  PROVE  GetValue(e, e[i].key) = e[i].value
<1> DEFINE at == {j \in 1 .. Len(e) : e[j].key = e[i].key}
<1>1. at = {i}
  BY DEF OneKey
<1>2. at \in SUBSET Nat /\ at # {}
  BY <1>1
<1>3. Least(at) = i
  BY <1>1, <1>2, LeastIn
<1> QED BY <1>2, <1>3 DEF GetValue

LEMMA GotNone ==
  ASSUME NEW e, NEW y, \A i \in 1 .. Len(e) : e[i].key # y
  PROVE  GetValue(e, y) = ""
BY DEF GetValue

(* A variable set in an environment has the value, and no other changes.   *)
LEMMA ValueSet ==
  ASSUME NEW e \in Seq(Entries), OneKey(e), NEW k \in Keys, NEW v \in EnvValues
  PROVE  /\ SetValue(e, k, v) \in Seq(Entries)
         /\ OneKey(SetValue(e, k, v))
         /\ GetValue(SetValue(e, k, v), k) = v
         /\ \A y : y # k => GetValue(SetValue(e, k, v), y) = GetValue(e, y)
<1> DEFINE d == SetValue(e, k, v)
<1> SUFFICES /\ d \in Seq(Entries) /\ OneKey(d)
             /\ \E i \in 1 .. Len(d) : d[i].key = k /\ d[i].value = v
             /\ \A i \in 1 .. Len(e) : i \in 1 .. Len(d) /\ d[i].key = e[i].key
                                       /\ (e[i].key # k => d[i].value = e[i].value)
             /\ \A i \in 1 .. Len(d) : i \in 1 .. Len(e) \/ d[i].key = k
  <2> HIDE DEF d
  <2>1. PICK i \in 1 .. Len(d) : d[i].key = k /\ d[i].value = v
    OBVIOUS
  <2>2. GetValue(d, k) = v
    BY <2>1, Got
  <2>3. ASSUME NEW y, y # k PROVE GetValue(d, y) = GetValue(e, y)
    <3>1. CASE \E j \in 1 .. Len(e) : e[j].key = y
      <4>1. PICK j \in 1 .. Len(e) : e[j].key = y
        BY <3>1
      <4>2. GetValue(e, y) = e[j].value
        BY <4>1, Got
      <4>3. GetValue(d, y) = d[j].value
        BY <4>1, Got
      <4> QED BY <2>3, <4>1, <4>2, <4>3
    <3>2. CASE \A j \in 1 .. Len(e) : e[j].key # y
      <4>1. \A j \in 1 .. Len(d) : d[j].key # y
        BY <2>3, <3>2
      <4>2. GetValue(d, y) = ""
        BY <4>1, GotNone
      <4>3. GetValue(e, y) = ""
        BY <3>2, GotNone
      <4> QED BY <4>2, <4>3
    <3> QED BY <3>1, <3>2
  <2> QED BY <2>2, <2>3 DEF d
<1>1. CASE \E i \in 1 .. Len(e) : e[i].key = k
  <2>1. d = [i \in 1 .. Len(e) |-> IF e[i].key = k THEN [e[i] EXCEPT !.value = v] ELSE e[i]]
    BY <1>1 DEF SetValue
  <2> HIDE DEF d
  <2>2. \A i \in 1 .. Len(e) : e[i] \in Entries
    BY Elements
  <2>3. \A i \in 1 .. Len(e) :
          /\ d[i] \in Entries /\ d[i].key = e[i].key
          /\ d[i].value = (IF e[i].key = k THEN v ELSE e[i].value)
    BY <2>1, <2>2 DEF Entries
  <2>4. Len(e) \in Nat /\ DOMAIN d = 1 .. Len(e)
    BY <2>1
  <2>5. d \in [1 .. Len(e) -> Entries]
    BY <2>1, <2>3
  <2>6. d \in Seq(Entries)
    BY <2>4, <2>5
  <2>7. Len(d) = Len(e)
    BY <2>4, <2>6
  <2>8. OneKey(d)
    BY <2>3, <2>7 DEF OneKey
  <2> QED BY <1>1, <2>3, <2>6, <2>7, <2>8
<1>2. CASE ~ \E i \in 1 .. Len(e) : e[i].key = k
  <2>1. d = Append(e, [key |-> k, value |-> v])
    BY <1>2 DEF SetValue
  <2>2. d \in Seq(Entries) /\ Len(d) = Len(e) + 1
    BY <2>1 DEF Entries
  <2>3. /\ \A i \in 1 .. Len(e) : d[i] = e[i]
        /\ d[Len(e) + 1] = [key |-> k, value |-> v]
    BY <2>1
  <2> HIDE DEF d
  <2>4. \A i \in 1 .. Len(d) : i \in 1 .. Len(e) \/ i = Len(e) + 1
    BY <2>2
  <2>5. OneKey(d)
    BY <1>2, <2>3, <2>4 DEF OneKey
  <2> QED BY <2>2, <2>3, <2>4, <2>5
<1> QED BY <1>1, <1>2

LEMMA Apart == /\ Closed \notin Fds /\ Listener \notin Fds /\ Fds \in SUBSET Nat
               /\ Slots \in SUBSET Nat /\ MaxClient \in Nat
<1>1. Cardinality(Sessions) \in Nat
  BY SelectAssumption, FS_CardinalityType
<1> QED BY <1>1, SelectAssumption DEF Closed, Listener, Fds, Slots

LEMMA LineParts ==
  ASSUME NEW line \in AllLines
  PROVE  /\ line.cmd = "name" => line.arg \in Names
         /\ line.cmd = "setenv" => line.arg \in Vars /\ line.val \in Values
BY DEF AllLines, Line, Plain

(* Who owns a slot: facts about the sessions that are connected. *)
LEMMA Owners ==
  ASSUME ServerTypes, OneEach, Queued
  PROVE  /\ \A s \in Valid : /\ s \in Slots /\ fd[s] \in Fds /\ SessionOf(s) \in Sessions
                             /\ Accepted(SessionOf(s)) /\ ~ Connected(SessionOf(s))
                             /\ peer[SessionOf(s)] # "away"
         /\ \A s, t \in Valid : SessionOf(s) = SessionOf(t) => s = t
<1>1. \A s \in Valid : s \in Slots /\ fd[s] \in Fds
  BY DEF ServerTypes, Valid
<1>2. \A s \in Valid : SessionOf(s) \in Sessions /\ Accepted(SessionOf(s))
  BY <1>1 DEF ServerTypes, OneEach, SessionOf, Accepted
<1>3. \A s, t \in Valid : SessionOf(s) = SessionOf(t) => s = t
  BY <1>1 DEF OneEach, SessionOf
<1> QED BY <1>1, <1>2, <1>3 DEF Queued

(* A connection that waits finds a descriptor. *)
LEMMA FreeDescriptor ==
  ASSUME ServerTypes, OneEach, Queued, backlog # <<>>
  PROVE  {n \in Fds : open[n] = None} # {}
<1> SUFFICES ASSUME \A n \in Fds : open[n] # None PROVE FALSE
  OBVIOUS
<1> DEFINE c == Head(backlog)
<1>1. c \in Sessions /\ Connected(c)
  BY DEF ServerTypes, Connected
<1>2. \A n \in Fds : open[n] \in Sessions \ {c}
  BY <1>1 DEF ServerTypes, Queued, Accepted
<1>3. open \in Injection(Fds, Sessions \ {c})
  BY <1>2 DEF ServerTypes, OneEach, Injection, IsInjective
<1>4. /\ IsFiniteSet(Sessions \ {c}) /\ Cardinality(Sessions \ {c}) = Cardinality(Sessions) - 1
      /\ Cardinality(Sessions) \in Nat
  BY <1>1, SelectAssumption, FS_RemoveElement, FS_CardinalityType
<1>5. Cardinality(Fds) <= Cardinality(Sessions) - 1
  BY <1>3, <1>4, FS_Injection
<1>6. Cardinality(Fds) = Cardinality(Sessions)
  <2>1. \A n \in Int : Cardinality(4 .. n) = IF 4 > n THEN 0 ELSE n - 4 + 1
    BY FS_Interval
  <2>2. Cardinality(4 .. 3 + Cardinality(Sessions)) = Cardinality(Sessions)
    BY <1>4, <2>1
  <2> QED BY <2>2, <1>4 DEF Fds
<1> QED BY <1>4, <1>5, <1>6

(* What is written to a session does not make it one that never came. *)
LEMMA Delivers ==
  ASSUME peer \in [Sessions -> Peers], NEW D, Delivered(D)
  PROVE  peer' \in [Sessions -> Peers] /\ \A c \in Sessions : peer'[c] = "away" <=> peer[c] = "away"
BY DEF Delivered, Peers

(* The steps that leave the table and the connections as they are. *)
LEMMA Unmoved ==
  ASSUME TableInv, Alive,
         UNCHANGED <<all_set, fd, nick, change_count, env, max_id, open, backlog, hist>>,
         pc' \in PCs, cur' \in 1 .. MaxClient + 1, r_set' \in SUBSET (Fds \cup {Listener}),
         peer' \in [Sessions -> Peers], \A c \in Sessions : peer'[c] = "away" <=> peer[c] = "away",
         pc' \in {"getline", "child"} => cur' \in Valid,
         pc' = "accept" /\ Listener \in r_set' => backlog # <<>>
  PROVE  TableInv'
<1>1. ServerTypes'
  BY DEF TableInv, ServerTypes, hist
<1>2. EnvTypes'
  BY DEF TableInv, EnvTypes, hist
<1>3. Valid' = Valid
  BY DEF Valid
<1>4. Places'
  BY <1>3 DEF Places
<1>5. OneEach' /\ \A c : (Connected(c)' <=> Connected(c)) /\ (Accepted(c)' <=> Accepted(c))
  BY <1>3 DEF TableInv, OneEach, Connected, Accepted
<1>6. Queued'
  BY <1>5 DEF TableInv, Queued
<1>7. Untouched'
  BY <1>3, <1>5 DEF TableInv, Untouched, Fresh, hist
<1>8. SlotIsOwn'
  BY <1>3 DEF TableInv, SlotIsOwn, SessionOf, hist
<1> QED BY <1>1, <1>2, <1>4, <1>5, <1>6, <1>7, <1>8 DEF TableInv

LEMMA EndedKeepsTypes ==
  ASSUME TableInv, Killed
  PROVE  TableInv'
<1>1. ServerTypes' /\ EnvTypes'
  BY DEF TableInv, Killed, ServerTypes, EnvTypes, table, net, hist, PCs
<1> QED BY <1>1 DEF TableInv, Killed, Places, Alive

LEMMA EntryTypes ==
  ASSUME ServerTypes, NEW S, ResetEntry(S)
  PROVE  /\ fd' \in [Slots -> Fds \cup {Closed}]
         /\ nick' \in [Slots -> Nicks] /\ change_count' \in [Slots -> Nat]
<1>1. fd' \in [Slots -> Fds \cup {Closed}]
  BY DEF ServerTypes, ResetEntry
<1>2. nick' \in [Slots -> Nicks]
  <2>1. NoName \in Nicks
    BY DEF Nicks
  <2> QED BY <2>1 DEF ServerTypes, ResetEntry
<1>3. change_count' \in [Slots -> Nat]
  BY DEF ServerTypes, ResetEntry
<1> QED BY <1>1, <1>2, <1>3

LEMMA InterruptKeepsTypes ==
  ASSUME TableInv, Interrupt
  PROVE  TableInv'
<1>1. ServerTypes /\ ResetEntry(Valid)
  BY DEF TableInv, Interrupt
<1>2. /\ fd' \in [Slots -> Fds \cup {Closed}]
      /\ nick' \in [Slots -> Nicks] /\ change_count' \in [Slots -> Nat]
  BY <1>1, EntryTypes
<1>3. ServerTypes' /\ EnvTypes'
  BY <1>1, <1>2 DEF TableInv, Interrupt, ServerTypes, EnvTypes, hist, PCs
<1> QED BY <1>3 DEF TableInv, Interrupt, Places, Alive

LEMMA ConnectKeeps ==
  ASSUME TableInv, NEW c \in Sessions, Connect(c)
  PROVE  TableInv'
<1>0. /\ ServerTypes /\ OneEach /\ Queued /\ Untouched /\ SlotIsOwn
      /\ peer[c] = "away" /\ backlog' = Append(backlog, c) /\ peer' = [peer EXCEPT ![c] = "open"]
      /\ UNCHANGED <<pc, cur, all_set, r_set, table, open, hist>>
  BY DEF TableInv, Connect
<1>1. ServerTypes'
  BY <1>0 DEF ServerTypes, table, hist, Peers
<1>2. EnvTypes'
  BY <1>0 DEF TableInv, EnvTypes, table, hist
<1>3. Valid' = Valid
  BY <1>0 DEF Valid, table
<1>5. OneEach'
  BY <1>0, <1>3 DEF OneEach, table
<1>6. /\ backlog \in Seq(Sessions) /\ Len(backlog) \in Nat /\ Len(backlog') = Len(backlog) + 1
      /\ \A i \in 1 .. Len(backlog) : backlog'[i] = backlog[i]
      /\ backlog'[Len(backlog) + 1] = c
  BY <1>0 DEF ServerTypes
<1>4. Places'
  <2>1. backlog' # <<>>
    BY <1>6
  <2> QED BY <1>0, <1>3, <2>1 DEF TableInv, Places
<1>7. ~ Connected(c) /\ ~ Accepted(c)
  BY <1>0 DEF Queued
<1>8. \A d : (Accepted(d)' <=> Accepted(d)) /\ (Connected(d)' <=> Connected(d) \/ d = c)
  BY <1>0, <1>6 DEF Accepted, Connected
<1>9. Queued'
  <2>1. \A i, j \in 1 .. Len(backlog') : backlog'[i] = backlog'[j] => i = j
    BY <1>0, <1>6, <1>7 DEF Queued, Connected
  <2>2. \A d \in Sessions : Connected(d)' \/ Accepted(d)' => peer'[d] # "away"
    BY <1>0, <1>8 DEF Queued, ServerTypes
  <2> QED BY <1>0, <1>7, <1>8, <2>1, <2>2 DEF Queued
<1>10. Untouched'
  BY <1>0, <1>3, <1>8 DEF Untouched, Fresh, ServerTypes, table, hist
<1>11. SlotIsOwn'
  BY <1>0, <1>3 DEF SlotIsOwn, SessionOf, Alive, table, hist
<1> QED BY <1>1, <1>2, <1>4, <1>5, <1>9, <1>10, <1>11 DEF TableInv

(* A connection c comes in, with the descriptor f and the slot s.          *)
LEMMA Registers ==
  ASSUME ServerTypes, EnvTypes, OneEach, Queued, Untouched, SlotIsOwn, Alive,
         NEW c \in Sessions, NEW f \in Fds, NEW s \in Slots, NEW D,
         c # None, backlog # <<>>, c = Head(backlog), Connected(c), open[f] = None, fd[s] = Closed,
         Delivered(D), all_set' = all_set \cup {f},
         open' = [open EXCEPT ![f] = c], backlog' = Tail(backlog),
         fd' = [fd EXCEPT ![s] = f], env' = [env EXCEPT ![s] = ResetEnv],
         max_id' = IF s > max_id THEN s ELSE max_id, pc' = "scan", cur' = 1,
         UNCHANGED <<r_set, nick, change_count, hist>>
  PROVE  TableInv'
<1>4. peer' \in [Sessions -> Peers] /\ \A d \in Sessions : peer'[d] = "away" <=> peer[d] = "away"
  BY Delivers DEF ServerTypes
<1>6. /\ Len(backlog) \in Nat /\ Len(backlog') = Len(backlog) - 1 /\ backlog' \in Seq(Sessions)
      /\ \A i \in 1 .. Len(backlog') : backlog'[i] = backlog[i + 1]
      /\ backlog[1] = c /\ 1 \in 1 .. Len(backlog)
  BY DEF ServerTypes
<1>7. ServerTypes'
  <2>1. fd' \in [Slots -> Fds \cup {Closed}]
    BY DEF ServerTypes
  <2>2. open' \in [Fds -> Sessions \cup {None}]
    BY DEF ServerTypes
  <2>3. max_id' \in 0 .. MaxClient /\ cur' \in 1 .. MaxClient + 1
    BY Apart DEF ServerTypes, Slots
  <2> QED BY <1>4, <1>6, <2>1, <2>2, <2>3 DEF ServerTypes, PCs, hist
<1>8. EnvTypes'
  <2>1. ResetEnv \in Seq(Entries) /\ OneKey(ResetEnv)
    BY DEF ResetEnv, Entries, Keys, EnvValues, OneKey
  <2> QED BY <2>1 DEF EnvTypes, hist
<1>9. Valid' = Valid \cup {s} /\ s \notin Valid
  BY Apart DEF Valid, ServerTypes
<1>10. Places'
  BY DEF Places
<1>11. OneEach'
  <2>1. \A g, h \in Fds : open'[g] = open'[h] /\ open'[g] # None => g = h
    BY DEF OneEach, ServerTypes, Queued, Accepted
  <2>2. \A t \in Valid : fd'[t] = fd[t] /\ fd[t] # f /\ fd[t] \in Fds
    BY <1>9, Owners DEF OneEach, ServerTypes
  <2>3. fd'[s] = f
    BY DEF ServerTypes
  <2>4. \A t, u \in Valid' : fd'[t] = fd'[u] => t = u
    BY <1>9, <2>2, <2>3 DEF OneEach
  <2>5. \A t \in Valid' : open'[fd'[t]] # None
    BY <1>9, <2>2, <2>3 DEF OneEach, ServerTypes
  <2>6. \A g \in Fds : open'[g] # None => \E t \in Valid' : fd'[t] = g
    <3> SUFFICES ASSUME NEW g \in Fds, open'[g] # None PROVE \E t \in Valid' : fd'[t] = g
      OBVIOUS
    <3>1. CASE g = f
      BY <1>9, <2>3, <3>1
    <3>2. CASE g # f
      BY <1>9, <2>2, <3>2 DEF OneEach, ServerTypes
    <3> QED BY <3>1, <3>2
  <2>7. all_set' = {Listener} \cup {fd'[t] : t \in Valid'}
    BY <1>9, <2>2, <2>3 DEF OneEach
  <2> QED BY <2>1, <2>4, <2>5, <2>6, <2>7 DEF OneEach
<1>12. \A d \in Sessions : /\ Accepted(d)' <=> Accepted(d) \/ d = c
                           /\ Connected(d)' => Connected(d) /\ d # c
  <2>1. \A d \in Sessions : Accepted(d)' <=> Accepted(d) \/ d = c
    BY SelectAssumption DEF Accepted, ServerTypes
  <2>2. \A i \in 1 .. Len(backlog') : i + 1 \in 1 .. Len(backlog) /\ i + 1 # 1
    BY <1>6
  <2>3. \A d \in Sessions : Connected(d)' => Connected(d) /\ d # c
    BY <1>6, <2>2 DEF Connected, Queued
  <2> QED BY <2>1, <2>3
<1>13. Queued'
  <2>1. \A i, j \in 1 .. Len(backlog') : backlog'[i] = backlog'[j] => i = j
    <3>1. \A i \in 1 .. Len(backlog') : i + 1 \in 1 .. Len(backlog)
      BY <1>6
    <3> QED BY <1>6, <3>1 DEF Queued
  <2> QED BY <1>4, <1>12, <2>1 DEF Queued
<1>14. Untouched'
  BY <1>4, <1>9, <1>12 DEF Untouched, Fresh, hist
<1>15. SlotIsOwn'
  <2>1. ASSUME NEW t \in Valid PROVE Own(t)'
    <3>1. SessionOf(t)' = SessionOf(t) /\ SessionOf(t) \in Sessions /\ t # s /\ t \in Slots
      BY <1>9, <2>1, Owners DEF OneEach, ServerTypes, SessionOf
    <3>2. env'[t] = env[t]
      BY <3>1 DEF EnvTypes
    <3> QED BY <2>1, <3>1, <3>2 DEF SlotIsOwn, Own, hist
  <2>2. Own(s)'
    <3>1. SessionOf(s)' = c
      BY DEF SessionOf, ServerTypes
    <3>2. env'[s] = ResetEnv
      BY DEF EnvTypes
    <3>3. Fresh(c) /\ nick[s] = NoName /\ change_count[s] = 0
      BY <1>9 DEF Untouched
    <3> QED BY <3>1, <3>2, <3>3 DEF Own, Fresh, hist
  <2> QED BY <1>9, <2>1, <2>2 DEF SlotIsOwn, Own
<1> QED BY <1>7, <1>8, <1>10, <1>11, <1>13, <1>14, <1>15 DEF TableInv

LEMMA Registered ==
  ASSUME TableInv, Register, pc' # "killed"
  PROVE  \E D : \E c \in Sessions, f \in Fds, s \in Slots :
           /\ c # None /\ backlog # <<>> /\ c = Head(backlog) /\ Connected(c)
           /\ open[f] = None /\ fd[s] = Closed
           /\ Delivered(D) /\ all_set' = all_set \cup {f}
           /\ open' = [open EXCEPT ![f] = c] /\ backlog' = Tail(backlog)
           /\ fd' = [fd EXCEPT ![s] = f] /\ env' = [env EXCEPT ![s] = ResetEnv]
           /\ buf' = [buf EXCEPT ![s] = <<>>]
           /\ max_id' = (IF s > max_id THEN s ELSE max_id) /\ pc' = "scan" /\ cur' = 1
           /\ UNCHANGED <<r_set, nick, change_count, sock, hist>>
<1> DEFINE c == Head(backlog)
           f == Least({n \in Fds : open[n] = None})
           s == Least(FreeSlots)
           others == {SessionOf(t) : t \in Valid}
<1>1. /\ Delivered(others \cup {c})
      /\ all_set' = Watched(f)
      /\ open' = [open EXCEPT ![f] = c] /\ backlog' = Tail(backlog)
      /\ InitClient(s, f)
      /\ max_id' = IF s > max_id THEN s ELSE max_id
      /\ pc' = "scan" /\ cur' = 1
      /\ UNCHANGED <<r_set, nick, change_count, sock, hist>>
  BY DEF Register, Killed
<1>2. /\ ServerTypes /\ OneEach /\ Queued
      /\ backlog # <<>> /\ FreeSlots # {}
  BY DEF TableInv, Register, Places, Alive
<1>3. c \in Sessions /\ Connected(c) /\ c # None
  BY <1>2, SelectAssumption DEF ServerTypes, Connected
<1>4. f \in Fds /\ open[f] = None
  <2>1. {n \in Fds : open[n] = None} \in SUBSET Nat
    BY Apart
  <2> QED BY <1>2, <2>1, FreeDescriptor, LeastIn
<1>5. s \in Slots /\ fd[s] = Closed
  <2>1. FreeSlots \in SUBSET Nat
    BY Apart DEF FreeSlots
  <2>2. s \in FreeSlots
    BY <1>2, <2>1, LeastIn
  <2> QED BY <2>2 DEF FreeSlots
<1>6. /\ fd' = [fd EXCEPT ![s] = f] /\ env' = [env EXCEPT ![s] = ResetEnv]
      /\ buf' = [buf EXCEPT ![s] = <<>>] /\ all_set' = all_set \cup {f}
  BY <1>1 DEF InitClient, Watched
<1>7. c = Head(backlog)
  OBVIOUS
<1> HIDE DEF c, f, s, others
<1> QED BY <1>1, <1>2, <1>3, <1>4, <1>5, <1>6, <1>7

LEMMA RegisterKeeps ==
  ASSUME TableInv, Register
  PROVE  TableInv'
<1>1. CASE pc' = "killed"
  BY <1>1, EndedKeepsTypes DEF Register
<1>2. CASE pc' # "killed"
  <2>1. /\ ServerTypes /\ EnvTypes /\ OneEach /\ Queued /\ Untouched /\ SlotIsOwn /\ Alive
    BY DEF TableInv, Register, Alive
  <2> QED BY <1>2, <2>1, Registered, Registers
<1> QED BY <1>1, <1>2

(* A command of the session c in the slot t. *)
LEMMA Served ==
  ASSUME ServerTypes, EnvTypes, OneEach, Queued, Untouched, SlotIsOwn, Alive,
         NEW line \in AllLines, NEW t \in Valid, t = cur, NEW c \in Sessions, c = SessionOf(t),
         NEW renames \in Renames(line), NEW D, Delivered(D), Effect(line, renames),
         pc' = "scan", cur' = cur + 1,
         UNCHANGED <<all_set, r_set, fd, max_id, open, backlog>>
  PROVE  TableInv'
<1>1. peer' \in [Sessions -> Peers] /\ \A d \in Sessions : peer'[d] = "away" <=> peer[d] = "away"
  BY Delivers DEF ServerTypes
<1>2. /\ t \in Slots /\ ~ Connected(c) /\ peer[c] # "away"
      /\ \A s \in Valid : s # t => SessionOf(s) # c
      /\ \A s \in Valid : SessionOf(s) \in Sessions /\ s \in Slots
  BY Owners
<1>0. renames => line.cmd = "name"
  BY DEF Renames
<1>3. \/ /\ line.arg \in Names
         /\ nick' = [nick EXCEPT ![t] = Stored[line.arg]]
         /\ change_count' = [change_count EXCEPT ![t] = @ + 1]
         /\ named' = [named EXCEPT ![c] = Stored[line.arg]]
         /\ renamed' = [renamed EXCEPT ![c] = @ + 1]
      \/ UNCHANGED <<nick, change_count, named, renamed>>
  BY <1>0, LineParts DEF Effect
<1>4. \/ /\ line.arg \in Vars /\ line.val \in Values
         /\ env' = [env EXCEPT ![t] = SetValue(env[t], line.arg, line.val)]
         /\ told' = [told EXCEPT ![c] = [@ EXCEPT ![line.arg] = line.val]]
      \/ UNCHANGED <<env, told>>
  BY LineParts DEF Effect
<1>5. Valid' = Valid
  BY DEF Valid
<1>6. ServerTypes'
  <2>1. nick' \in [Slots -> Nicks] /\ named' \in [Sessions -> Nicks]
    <3>1. line.arg \in Names => Stored[line.arg] \in Nicks
      BY DEF Nicks
    <3>2. nick' \in [Slots -> Nicks]
      BY <1>2, <1>3, <3>1 DEF ServerTypes
    <3>3. named' \in [Sessions -> Nicks]
      BY <1>3, <3>1 DEF ServerTypes
    <3> QED BY <3>2, <3>3
  <2>2. change_count' \in [Slots -> Nat] /\ renamed' \in [Sessions -> Nat]
    <3>1. change_count' \in [Slots -> Nat]
      <4>1. change_count \in [Slots -> Nat] /\ change_count[t] + 1 \in Nat
        BY <1>2 DEF ServerTypes
      <4> QED BY <1>2, <1>3, <4>1
    <3>2. renamed \in [Sessions -> Nat] /\ renamed[c] + 1 \in Nat
      BY DEF ServerTypes
    <3>3. renamed' \in [Sessions -> Nat]
      BY <1>3, <3>2
    <3> QED BY <3>1, <3>3
  <2>3. cur' \in 1 .. MaxClient + 1
    BY <1>2, Apart DEF Slots
  <2> QED BY <1>1, <2>1, <2>2, <2>3 DEF ServerTypes, PCs
<1>7. ASSUME NEW a, a = line.arg, NEW v, v = line.val, a \in Vars, v \in Values,
             env' = [env EXCEPT ![t] = SetValue(env[t], a, v)],
             told' = [told EXCEPT ![c] = [@ EXCEPT ![a] = v]]
      PROVE  /\ EnvTypes'
             /\ \A x \in Vars : GetValue(env[t], x) = told[c][x] => GetValue(env'[t], x) = told'[c][x]
  <2>1. env[t] \in Seq(Entries) /\ OneKey(env[t]) /\ a \in Keys /\ v \in EnvValues
    BY <1>2, <1>7 DEF EnvTypes, Keys, EnvValues
  <2>2. env'[t] = SetValue(env[t], a, v) /\ \A s \in Slots : s # t => env'[s] = env[s]
    BY <1>2, <1>7 DEF EnvTypes
  <2>3. /\ env'[t] \in Seq(Entries) /\ OneKey(env'[t])
        /\ GetValue(env'[t], a) = v
        /\ \A y : y # a => GetValue(env'[t], y) = GetValue(env[t], y)
    BY <2>1, <2>2, ValueSet
  <2>4. told[c] \in [Vars -> EnvValues \cup {""}]
    BY DEF EnvTypes
  <2>5. told'[c] = [told[c] EXCEPT ![a] = v] /\ told' \in [Sessions -> [Vars -> EnvValues \cup {""}]]
    BY <1>7, <2>1, <2>4 DEF EnvTypes
  <2>6. env' \in [Slots -> Seq(Entries)]
    BY <1>2, <1>7, <2>2, <2>3 DEF EnvTypes
  <2>7. \A s \in Slots : OneKey(env'[s])
    BY <2>2, <2>3 DEF EnvTypes
  <2>8. EnvTypes'
    BY <2>5, <2>6, <2>7 DEF EnvTypes
  <2> QED BY <1>7, <2>3, <2>4, <2>5, <2>8
<1>8. EnvTypes' /\ \A x \in Vars : GetValue(env'[t], x) = told'[c][x]
  <2>1. \A x \in Vars : GetValue(env[t], x) = told[c][x]
    BY DEF SlotIsOwn
  <2>2. UNCHANGED <<env, told>> => EnvTypes'
    BY DEF EnvTypes
  <2> QED BY <1>4, <1>7, <2>1, <2>2
<1>9. \A d \in Sessions \ {c} : named'[d] = named[d] /\ renamed'[d] = renamed[d] /\ told'[d] = told[d]
  BY <1>3, <1>4 DEF ServerTypes, EnvTypes
<1>10. \A s \in Slots \ {t} : nick'[s] = nick[s] /\ change_count'[s] = change_count[s] /\ env'[s] = env[s]
  BY <1>2, <1>3, <1>4 DEF ServerTypes, EnvTypes
<1>11. Places'
  BY DEF Places
<1>12. OneEach' /\ \A d : (Connected(d)' <=> Connected(d)) /\ (Accepted(d)' <=> Accepted(d))
  BY <1>5 DEF OneEach, Connected, Accepted
<1>13. Queued'
  BY <1>1, <1>12 DEF Queued
<1>14. Untouched'
  BY <1>1, <1>2, <1>5, <1>9, <1>10, <1>12 DEF Untouched, Fresh
<1>15. SlotIsOwn'
  <2>1. ASSUME NEW s \in Valid, s # t PROVE Own(s)'
    <3>1. SessionOf(s)' = SessionOf(s) /\ SessionOf(s) \in Sessions \ {c} /\ s \in Slots \ {t}
      BY <1>2, <2>1 DEF SessionOf
    <3> QED BY <1>9, <1>10, <2>1, <3>1 DEF SlotIsOwn, Own
  <2>2. Own(t)'
    <3>1. SessionOf(t)' = c
      BY DEF SessionOf
    <3>2. nick[t] = named[c] /\ change_count[t] = renamed[c]
      BY DEF SlotIsOwn
    <3>3. nick'[t] = named'[c] /\ change_count'[t] = renamed'[c]
      BY <1>2, <1>3, <3>2 DEF ServerTypes
    <3> QED BY <1>8, <3>1, <3>3 DEF Own
  <2> QED BY <1>5, <2>1, <2>2 DEF SlotIsOwn, Own
<1> QED BY <1>6, <1>8, <1>11, <1>12, <1>13, <1>14, <1>15 DEF TableInv

LEMMA ServeKeeps ==
  ASSUME TableInv, NEW line \in AllLines, Serve(line)
  PROVE  TableInv'
<1> DEFINE c == SessionOf(cur)
<1>1. CASE Killed
  BY <1>1, EndedKeepsTypes
<1>2. ASSUME NEW renames \in Renames(line),
             Delivered(Addressed(line, renames) \cup {c}), Effect(line, renames),
             pc' = "scan", cur' = cur + 1,
             UNCHANGED <<all_set, r_set, fd, max_id, open, backlog>>
      PROVE  TableInv'
  <2>1. /\ ServerTypes /\ EnvTypes /\ OneEach /\ Queued /\ Untouched /\ SlotIsOwn /\ Alive
        /\ cur \in Valid
    BY DEF TableInv, Serve, Gets, Places, Alive
  <2>2. c \in Sessions
    BY <2>1, Owners
  <2> QED BY <1>2, <2>1, <2>2, Served
<1> QED BY <1>1, <1>2 DEF Serve

(* The session in the slot t ends. *)
LEMMA Departs ==
  ASSUME ServerTypes, EnvTypes, OneEach, Queued, Untouched, SlotIsOwn, Alive,
         NEW t \in Valid, t = cur, NEW f \in Fds, f = fd[t], NEW D, Delivered(D),
         all_set' = all_set \ {f}, ResetEntry({t}), open' = [open EXCEPT ![f] = None],
         pc' = "scan", cur' = cur + 1, UNCHANGED <<r_set, env, max_id, backlog, hist>>
  PROVE  TableInv'
<1>1. peer' \in [Sessions -> Peers] /\ \A d \in Sessions : peer'[d] = "away" <=> peer[d] = "away"
  BY Delivers DEF ServerTypes
<1>2. /\ t \in Slots
      /\ \A s \in Valid : s \in Slots /\ fd[s] \in Fds /\ SessionOf(s) \in Sessions
  BY Owners
<1>3. /\ fd'[t] = Closed /\ nick'[t] = NoName /\ change_count'[t] = 0
      /\ \A s \in Slots \ {t} : fd'[s] = fd[s] /\ nick'[s] = nick[s] /\ change_count'[s] = change_count[s]
  BY <1>2 DEF ResetEntry
<1>4. Valid' = Valid \ {t}
  BY <1>3 DEF Valid
<1>5. \A s \in Valid \ {t} : fd'[s] = fd[s] /\ fd[s] # f /\ SessionOf(s)' = SessionOf(s)
  BY <1>2, <1>3 DEF OneEach, SessionOf, ServerTypes
<1>6. ServerTypes'
  <2>1. open' \in [Fds -> Sessions \cup {None}]
    BY DEF ServerTypes
  <2>2. cur' \in 1 .. MaxClient + 1
    BY <1>2, Apart DEF Slots
  <2> QED BY <1>1, <2>1, <2>2, EntryTypes DEF ServerTypes, PCs, hist
<1>7. EnvTypes'
  BY DEF EnvTypes, hist
<1>8. Places'
  BY DEF Places
<1>9. OneEach'
  <2>1. \A g, h \in Fds : open'[g] = open'[h] /\ open'[g] # None => g = h
    BY DEF OneEach, ServerTypes
  <2>2. \A s, u \in Valid' : fd'[s] = fd'[u] => s = u
    BY <1>4, <1>5 DEF OneEach
  <2>3. \A s \in Valid' : open'[fd'[s]] # None
    BY <1>2, <1>4, <1>5 DEF OneEach, ServerTypes
  <2>4. \A g \in Fds : open'[g] # None => \E s \in Valid' : fd'[s] = g
    <3> SUFFICES ASSUME NEW g \in Fds, open'[g] # None PROVE \E s \in Valid' : fd'[s] = g
      OBVIOUS
    <3>1. g # f /\ open[g] # None
      BY DEF ServerTypes
    <3>2. PICK s \in Valid : fd[s] = g
      BY <3>1 DEF OneEach
    <3> QED BY <1>4, <1>5, <3>1, <3>2
  <2>5. all_set' = {Listener} \cup {fd'[s] : s \in Valid'}
    BY <1>4, <1>5, Apart DEF OneEach
  <2> QED BY <2>1, <2>2, <2>3, <2>4, <2>5 DEF OneEach
<1>10. \A d \in Sessions : (Connected(d)' <=> Connected(d)) /\ (Accepted(d)' => Accepted(d))
  BY SelectAssumption DEF Connected, Accepted, ServerTypes
<1>11. Queued'
  BY <1>1, <1>10 DEF Queued
<1>12. Untouched'
  BY <1>1, <1>3, <1>4, <1>10 DEF Untouched, Fresh, hist
<1>13. SlotIsOwn'
  BY <1>2, <1>3, <1>4, <1>5 DEF SlotIsOwn, hist
<1> QED BY <1>6, <1>7, <1>8, <1>9, <1>11, <1>12, <1>13 DEF TableInv

LEMMA DisconnectKeeps ==
  ASSUME TableInv, Disconnect
  PROVE  TableInv'
<1>1. CASE Killed
  BY <1>1, EndedKeepsTypes
<1>2. CASE /\ Delivered(Everyone \ {SessionOf(cur)})
           /\ all_set' = Unwatched(fd[cur])
           /\ ResetEntry({cur})
           /\ open' = [open EXCEPT ![fd[cur]] = None]
           /\ pc' = "scan" /\ cur' = cur + 1
           /\ UNCHANGED <<r_set, env, max_id, backlog, hist>>
  <2>1. /\ ServerTypes /\ EnvTypes /\ OneEach /\ Queued /\ Untouched /\ SlotIsOwn /\ Alive
        /\ cur \in Valid
    BY DEF TableInv, Disconnect, Places, Alive
  <2>2. fd[cur] \in Fds
    BY <2>1, Owners
  <2> QED BY <1>2, <2>1, <2>2, Departs DEF Unwatched
<1> QED BY <1>1, <1>2 DEF Disconnect

LEMMA TableStep ==
  ASSUME TableInv, SelectNext
  PROVE  TableInv'
<1>1. CASE Select
  <2>1. Readable(Listener) => backlog # <<>>
    BY DEF Readable
  <2> QED BY <1>1, <2>1, Unmoved DEF TableInv, Select, table, net, hist, ServerTypes, PCs, Alive
<1>2. CASE Register
  BY <1>2, RegisterKeeps
<1>3. CASE Overrun
  BY <1>3, EndedKeepsTypes DEF Overrun
<1>4. CASE NoAccept
  <2>1. 1 \in 1 .. MaxClient + 1
    BY Apart
  <2> QED BY <1>4, <2>1, Unmoved DEF TableInv, NoAccept, table, net, hist, ServerTypes, PCs, Alive
<1>5. CASE Pick
  <2>1. Ready \in SUBSET Nat /\ Ready # {}
    BY <1>5, Apart DEF Pick, Ready, Valid
  <2>2. cur' \in Valid /\ cur' \in 1 .. MaxClient + 1
    BY <1>5, <2>1, LeastIn, Apart DEF Pick, Ready, Valid, Slots
  <2> QED BY <1>5, <2>2, Unmoved DEF TableInv, Pick, table, net, hist, ServerTypes, PCs, Alive
<1>6. CASE EndScan
  <2>1. 1 \in 1 .. MaxClient + 1
    BY Apart
  <2> QED BY <1>6, <2>1, Unmoved DEF TableInv, EndScan, table, net, hist, ServerTypes, PCs, Alive
<1>7. CASE Fill
  BY <1>7, Unmoved DEF TableInv, Fill, table, net, hist, ServerTypes, Places, PCs, Alive
<1>8. ASSUME NEW line \in AllLines, Serve(line) PROVE TableInv'
  BY <1>8, ServeKeeps
<1>9. ASSUME NEW line \in AllLines, StartCat(line) PROVE TableInv'
  BY <1>9, Unmoved DEF TableInv, StartCat, Gets, net, hist, ServerTypes, Places, PCs, Alive
<1>10. CASE EndCat
  <2>1. CASE Killed
    BY <2>1, EndedKeepsTypes
  <2>2. CASE /\ Delivered({SessionOf(cur)})
             /\ pc' = "scan" /\ cur' = cur + 1
             /\ UNCHANGED <<all_set, r_set, table, open, backlog, hist>>
    <3>1. /\ peer' \in [Sessions -> Peers]
          /\ \A c \in Sessions : peer'[c] = "away" <=> peer[c] = "away"
      BY <2>2, Delivers DEF TableInv, ServerTypes
    <3>2. cur' \in 1 .. MaxClient + 1
      BY <1>10, <2>2, Apart DEF TableInv, Places, EndCat, Valid, Slots
    <3> QED BY <1>10, <2>2, <3>1, <3>2, Unmoved DEF TableInv, EndCat, table, ServerTypes, PCs, Alive
  <2> QED BY <1>10, <2>1, <2>2 DEF EndCat
<1>11. CASE Disconnect
  BY <1>11, DisconnectKeeps
<1>12. CASE Interrupt
  BY <1>12, InterruptKeepsTypes
<1>13. ASSUME NEW c \in Sessions, Connect(c) PROVE TableInv'
  BY <1>13, ConnectKeeps
<1>14. ASSUME NEW c \in Sessions, Close(c) PROVE TableInv'
  <2>1. /\ peer' \in [Sessions -> Peers]
        /\ \A d \in Sessions : peer'[d] = "away" <=> peer[d] = "away"
    BY <1>14 DEF TableInv, ServerTypes, Close, Peers
  <2> QED BY <1>14, <2>1, Unmoved DEF TableInv, Close, table, ServerTypes, Places, Alive
<1>15. ASSUME NEW c \in Sessions, NEW packet \in Packets, Send(c, packet) PROVE TableInv'
  BY <1>15, Unmoved DEF TableInv, Send, table, ServerTypes, Places, Alive
<1> QED
  BY <1>1, <1>2, <1>3, <1>4, <1>5, <1>6, <1>7, <1>8, <1>9, <1>10, <1>11, <1>12, <1>13, <1>14, <1>15
     DEF SelectNext, ServerStep, ClientStep

LEMMA TableInit == SelectInit => TableInv
<1> SUFFICES ASSUME SelectInit PROVE TableInv
  OBVIOUS
<1>1. ResetEnv \in Seq(Entries) /\ OneKey(ResetEnv)
  BY DEF ResetEnv, Entries, Keys, EnvValues, OneKey
<1>2. \A x : GetValue(ResetEnv, x) \in EnvValues \cup {""}
  <2> TAKE x
  <2>1. CASE x = ResetEnv[1].key
    <3>1. 1 \in 1 .. Len(ResetEnv)
      BY DEF ResetEnv
    <3>2. GetValue(ResetEnv, x) = ResetEnv[1].value
      BY <1>1, <2>1, <3>1, Got
    <3> QED BY <3>2 DEF ResetEnv, EnvValues
  <2>2. CASE x # ResetEnv[1].key
    <3>1. \A i \in 1 .. Len(ResetEnv) : ResetEnv[i].key # x
      BY <2>2 DEF ResetEnv
    <3> QED BY <3>1, GotNone
  <2> QED BY <2>1, <2>2
<1>3. ServerTypes
  BY Apart DEF SelectInit, ServerTypes, PCs, Nicks, Peers
<1>4. EnvTypes
  <2>1. env \in [Slots -> Seq(Entries)] /\ \A s \in Slots : OneKey(env[s])
    BY <1>1 DEF SelectInit
  <2>2. told \in [Sessions -> [Vars -> EnvValues \cup {""}]]
    BY <1>2 DEF SelectInit
  <2> QED BY <2>1, <2>2 DEF EnvTypes
<1>5. Places
  BY DEF SelectInit, Places
<1>6. Valid = {}
  BY DEF SelectInit, Valid
<1>7. OneEach
  BY <1>6 DEF SelectInit, OneEach
<1>8. Queued
  BY SelectAssumption DEF SelectInit, Queued, Connected, Accepted
<1>9. Untouched
  BY DEF SelectInit, Untouched, Fresh
<1>10. SlotIsOwn
  BY <1>6 DEF SlotIsOwn
<1> QED BY <1>3, <1>4, <1>5, <1>7, <1>8, <1>9, <1>10 DEF TableInv

LEMMA TableStutter ==
  ASSUME TableInv, UNCHANGED vars
  PROVE  TableInv'
<1>1. ServerTypes' /\ EnvTypes' /\ Places'
  BY DEF TableInv, ServerTypes, EnvTypes, Places, Valid, vars, table, net, hist
<1>2. CASE Alive
  BY <1>2, Unmoved DEF TableInv, ServerTypes, Places, vars, table, net
<1>3. CASE ~ Alive
  BY <1>1, <1>3 DEF TableInv, Alive, vars
<1> QED BY <1>2, <1>3

(* The server keeps what its table says of clients, descriptors and places. *)
THEOREM TableKept == SelectSpec => []TableInv
<1>1. TableInv /\ [SelectNext]_vars => TableInv'
  BY TableStutter, TableStep
<1> QED BY <1>1, TableInit, PTL DEF SelectSpec

(* The types of the server's variables, and no key twice in an environment. *)
THEOREM ServerTyped == SelectSpec => []SelectTypeOK
<1>1. TableInv => SelectTypeOK
  BY DEF TableInv, ServerTypes, EnvTypes, OneKey, SelectTypeOK, PCs
<1> QED BY <1>1, TableKept, PTL

(* main's sets, the table and the open connections agree whenever the      *)
(* server runs, however clients come and go between its steps.             *)
THEOREM ConnectionsWatched == SelectSpec => []WatchedAreValid
<1>1. ASSUME TableInv, Alive PROVE WatchedAreValid
  <2>1. ServerTypes /\ OneEach /\ Queued
    BY <1>1 DEF TableInv
  <2>2. {fd[s] : s \in Valid} = {f \in Fds : open[f] # None}
    BY <2>1, Owners DEF OneEach
  <2> QED BY <2>1, <2>2, Owners DEF OneEach, WatchedAreValid
<1>2. ~ Alive => WatchedAreValid
  BY DEF WatchedAreValid
<1> QED BY <1>1, <1>2, TableKept, PTL

(* No slot shows what an earlier session left in it. *)
THEOREM SlotsAreOwn == SelectSpec => []SlotIsOwn
<1>1. TableInv => SlotIsOwn
  BY DEF TableInv, SlotIsOwn
<1> QED BY <1>1, TableKept, PTL

(***************************************************************************)
(* Where clients send whole lines, the server does not wait in getline:    *)
(* what select() has told of a slot is still there when the scan gets to   *)
(* it, whatever the slots before it did.                                   *)
(***************************************************************************)
WholeLines == Packets \subseteq Seq(AllLines)

LineTypes == buf \in [Slots -> Seq(AllLines)] /\ sock \in [Sessions -> Seq(AllLines)]

(* There is something to read for the slot s. *)
Due(s) == buf[s] # <<>> \/ sock[SessionOf(s)] # <<>> \/ peer[SessionOf(s)] # "open"

Answers ==
  /\ pc \in {"select", "accept"} => cur = 1
  /\ pc = "accept" => r_set \subseteq all_set
  /\ pc = "getline" => fd[cur] \in r_set
  /\ pc \in {"accept", "scan", "getline", "child"} =>
       \A s \in Valid : s >= cur /\ fd[s] \in r_set /\ (pc = "child" => s # cur) => Due(s)

LineInv == TableInv /\ LineTypes /\ (Alive => Answers)

LEMMA WholeJoined ==
  ASSUME NEW q \in Seq(AllLines), NEW r \in Seq(AllLines)
  PROVE  /\ Joined(q, r) \in Seq(AllLines)
         /\ q # <<>> \/ r # <<>> => Joined(q, r) # <<>>
         /\ HasLine(q) <=> q # <<>>
         /\ q # <<>> => Tail(q) \in Seq(AllLines)
<1>1. Part \notin AllLines
  <2>1. \A line \in AllLines : line.cmd # "part"
    BY DEF Plain, Line, AllLines
  <2>2. Part.cmd = "part"
    BY DEF Part, Plain, Line
  <2> QED BY <2>1, <2>2
<1>2. q # <<>> => q[Len(q)] \in AllLines /\ Head(q) \in AllLines
  OBVIOUS
<1>3. Joined(q, r) = q \o r
  BY <1>1, <1>2 DEF Joined
<1>4. HasLine(q) <=> q # <<>>
  BY <1>1, <1>2 DEF HasLine
<1>5. q \o r \in Seq(AllLines) /\ (q # <<>> \/ r # <<>> => q \o r # <<>>)
  OBVIOUS
<1> QED BY <1>3, <1>4, <1>5

LEMMA LineInit ==
  ASSUME SelectInit PROVE LineInv
BY TableInit DEF SelectInit, LineInv, LineTypes, Answers

LEMMA LineTypesStep ==
  ASSUME WholeLines, LineInv, SelectNext
  PROVE  LineTypes'
<1> USE DEF LineInv, LineTypes, net, table
<1>0. \A s \in Valid : s \in Slots
  BY DEF Valid
<1>1. CASE Select BY <1>1 DEF Select
<1>2. CASE Register
  <2>1. CASE Killed
    BY <2>1 DEF Killed
  <2>2. CASE UNCHANGED sock /\ \E s : buf' = [buf EXCEPT ![s] = <<>>]
    <3>1. <<>> \in Seq(AllLines)
      OBVIOUS
    <3> QED BY <2>2, <3>1
  <2>3. Killed \/ (UNCHANGED sock /\ \E s : buf' = [buf EXCEPT ![s] = <<>>])
    BY <1>2 DEF Register, InitClient
  <2> QED BY <2>1, <2>2, <2>3
<1>3. CASE Overrun BY <1>3 DEF Overrun, Killed
<1>4. CASE NoAccept BY <1>4 DEF NoAccept
<1>5. CASE Pick BY <1>5 DEF Pick
<1>6. CASE EndScan BY <1>6 DEF EndScan
<1>7. CASE Fill
  <2>1. buf[cur] \in Seq(AllLines) /\ sock[SessionOf(cur)] \in Seq(AllLines)
    <3>1. ServerTypes /\ OneEach /\ Queued /\ cur \in Valid
      BY <1>7 DEF Fill, TableInv, Places, Alive
    <3> QED BY <3>1, Owners
  <2>2. Joined(buf[cur], sock[SessionOf(cur)]) \in Seq(AllLines)
    BY <2>1, WholeJoined
  <2>3. <<>> \in Seq(AllLines)
    OBVIOUS
  <2>4. buf' \in [Slots -> Seq(AllLines)]
    BY <1>7, <2>2 DEF Fill
  <2>5. sock' \in [Sessions -> Seq(AllLines)]
    BY <1>7, <2>3 DEF Fill
  <2> QED BY <2>4, <2>5
<1>8. ASSUME NEW line \in AllLines, Gets(line), buf' = [buf EXCEPT ![cur] = Tail(@)] PROVE buf' \in [Slots -> Seq(AllLines)]
  <2>1. cur \in Valid /\ buf[cur] \in Seq(AllLines)
    BY <1>8, <1>0 DEF Gets, TableInv, Places
  <2>2. buf[cur] # <<>>
    BY <1>8 DEF Gets, HasLine
  <2>3. Tail(buf[cur]) \in Seq(AllLines)
    BY <2>1, <2>2
  <2> QED BY <1>8, <2>3
<1>9. ASSUME NEW line \in AllLines, Serve(line) PROVE LineTypes'
  <2>1. CASE Killed
    BY <2>1 DEF Killed
  <2>2. CASE UNCHANGED sock /\ buf' = [buf EXCEPT ![cur] = Tail(@)]
    BY <1>8, <1>9, <2>2 DEF Serve
  <2> QED BY <1>9, <2>1, <2>2 DEF Serve
<1>10. ASSUME NEW line \in AllLines, StartCat(line) PROVE LineTypes'
  BY <1>8, <1>10 DEF StartCat
<1>11. CASE EndCat \/ Disconnect
  <2>1. Killed \/ ((buf' = buf \/ buf' = [buf EXCEPT ![cur] = <<>>]) /\ sock' = [sock EXCEPT ![SessionOf(cur)] = <<>>])
    BY <1>11 DEF EndCat, Disconnect
  <2>2. <<>> \in Seq(AllLines)
    OBVIOUS
  <2> QED BY <2>1, <2>2 DEF Killed
<1>13. CASE Interrupt
  BY <1>13 DEF Interrupt
<1>14. ASSUME NEW c \in Sessions, Connect(c) \/ Close(c) PROVE LineTypes'
  BY <1>14 DEF Connect, Close
<1>15. ASSUME NEW c \in Sessions, NEW packet \in Packets, Send(c, packet) PROVE LineTypes'
  <2>1. Joined(sock[c], packet) \in Seq(AllLines)
    BY WholeJoined DEF WholeLines
  <2> QED BY <1>15, <2>1 DEF Send, Write
<1> QED
  BY <1>1, <1>2, <1>3, <1>4, <1>5, <1>6, <1>7, <1>9, <1>10, <1>11, <1>13, <1>14, <1>15
     DEF SelectNext, ServerStep, ClientStep

(* At another slot than s the server leaves what there is to read for s.   *)
LEMMA StillDue ==
  ASSUME NEW s, Due(s), fd'[s] = fd[s], SessionOf(s)' = SessionOf(s),
         buf[s] # <<>> => buf'[s] # <<>>,
         sock[SessionOf(s)] # <<>> => sock'[SessionOf(s)] # <<>>,
         peer[SessionOf(s)] # "open" => peer'[SessionOf(s)] # "open"
  PROVE  Due(s)'
BY DEF Due

LEMMA ClosedStays ==
  ASSUME NEW D, Delivered(D)
  PROVE  \A c \in Sessions : peer[c] # "open" => peer'[c] # "open"
BY DEF Delivered

LEMMA AnswersStep ==
  ASSUME WholeLines, LineInv, SelectNext, Alive'
  PROVE  Answers'
<1>0. Alive
  BY DEF SelectNext, ServerStep, ClientStep, Select, Register, Overrun, NoAccept, Pick, EndScan, Fill,
         Serve, Gets, StartCat, EndCat, Disconnect, Interrupt, Connect, Close, Send, Alive
<1>1. /\ TableInv /\ ServerTypes /\ OneEach /\ Queued /\ Places /\ LineTypes /\ Answers
  BY <1>0 DEF LineInv, TableInv
<1>2. /\ \A s \in Valid : /\ s \in Slots /\ s \in Nat /\ fd[s] \in Fds /\ SessionOf(s) \in Sessions
                          /\ peer[SessionOf(s)] # "away"
      /\ \A s, t \in Valid : SessionOf(s) = SessionOf(t) => s = t
  BY <1>1, Owners, Apart
<1>3. pc' # "killed" /\ pc' # "down"
  BY DEF Alive
<1>4. cur \in Nat
  BY <1>1, Apart DEF ServerTypes
<1>5. CASE Select
  <2>1. \A s \in Valid : Readable(fd[s]) => Due(s)
    BY <1>2, Apart DEF Readable, Due, SessionOf
  <2>2. \A s \in Valid : Due(s)' <=> Due(s)
    BY <1>5 DEF Select, table, net, Due, SessionOf
  <2>3. Valid' = Valid /\ cur' = 1 /\ pc' = "accept" /\ r_set' \subseteq all_set' /\ fd' = fd
    BY <1>1, <1>5 DEF Select, table, Valid, Answers
  <2>4. \A s \in Valid : fd[s] \in r_set' => Due(s)'
    BY <1>5, <2>1, <2>2 DEF Select
  <2> QED BY <2>3, <2>4 DEF Answers
<1>6. CASE Register
  <2>0. PICK D : \E c \in Sessions, f \in Fds, s \in Slots :
           /\ open[f] = None /\ fd[s] = Closed
           /\ Delivered(D) /\ open' = [open EXCEPT ![f] = c]
           /\ fd' = [fd EXCEPT ![s] = f] /\ buf' = [buf EXCEPT ![s] = <<>>]
           /\ pc' = "scan" /\ cur' = 1 /\ UNCHANGED <<r_set, sock>>
    BY <1>1, <1>3, <1>6, Registered
  <2>1. PICK c \in Sessions, f \in Fds, s \in Slots :
           /\ open[f] = None /\ fd[s] = Closed
           /\ Delivered(D) /\ open' = [open EXCEPT ![f] = c]
           /\ fd' = [fd EXCEPT ![s] = f] /\ buf' = [buf EXCEPT ![s] = <<>>]
           /\ pc' = "scan" /\ cur' = 1 /\ UNCHANGED <<r_set, sock>>
    BY <2>0
  <2>2. pc = "accept" /\ cur = 1 /\ r_set \subseteq all_set
    BY <1>1, <1>6 DEF Register, Answers
  <2>3. f \notin r_set
    BY <1>1, <2>1, <2>2, Apart DEF OneEach
  <2>4. \A t \in Valid' : t \in Valid \/ t = s
    BY <1>1, <2>1 DEF Valid, ServerTypes
  <2>5. ASSUME NEW t \in Valid', fd'[t] \in r_set PROVE Due(t)'
    <3>1. t # s /\ t \in Valid
      BY <1>1, <2>1, <2>3, <2>4, <2>5 DEF ServerTypes
    <3>2. fd'[t] = fd[t] /\ buf'[t] = buf[t] /\ t >= cur
      BY <1>1, <1>2, <2>1, <2>2, <3>1, Apart DEF ServerTypes, LineTypes, Slots
    <3>3. Due(t)
      BY <1>1, <2>2, <2>5, <3>1, <3>2 DEF Answers
    <3>4. SessionOf(t)' = SessionOf(t)
      BY <1>1, <1>2, <2>1, <3>1, <3>2 DEF SessionOf, OneEach, ServerTypes
    <3> QED BY <1>2, <2>1, <3>1, <3>2, <3>3, <3>4, StillDue, ClosedStays
  <2> QED BY <2>1, <2>5 DEF Answers
<1>7. CASE Overrun
  BY <1>3, <1>7 DEF Overrun, Killed
<1>8. CASE NoAccept
  <2>1. /\ pc = "accept" /\ cur' = cur /\ pc' = "scan" /\ UNCHANGED <<fd, open, r_set, sock, peer, buf>>
    BY <1>1, <1>8 DEF NoAccept, Answers, table, net
  <2> QED BY <1>1, <2>1 DEF Answers, Valid, Due, SessionOf
<1>9. CASE Pick
  <2>1. Ready \in SUBSET Nat /\ Ready # {}
    BY <1>9, Apart DEF Pick, Ready, Valid
  <2>2. cur' \in Valid /\ cur' >= cur /\ fd[cur'] \in r_set
    BY <1>9, <2>1, LeastIn DEF Pick, Ready
  <2>3. pc = "scan" /\ pc' = "getline" /\ UNCHANGED <<fd, open, r_set, sock, peer, buf>>
    BY <1>9 DEF Pick, table, net
  <2>4. \A s \in Valid : s >= cur' => s >= cur
    BY <1>2, <1>4, <2>2
  <2> QED BY <1>1, <2>2, <2>3, <2>4 DEF Answers, Valid, Due, SessionOf
<1>10. CASE EndScan
  BY <1>10 DEF EndScan, Answers
<1>11. CASE Fill
  <2>1. cur \in Valid /\ pc = "getline" /\ UNCHANGED <<pc, cur, fd, open, r_set, peer>>
    BY <1>1, <1>11 DEF Fill, Places
  <2>2. Valid' = Valid /\ \A s : SessionOf(s)' = SessionOf(s)
    BY <2>1 DEF Valid, SessionOf
  <2>3. Joined(buf[cur], sock[SessionOf(cur)]) # <<>>
    BY <1>1, <1>2, <1>11, <2>1, WholeJoined DEF Fill, LineTypes
  <2>4. buf'[cur] # <<>>
    BY <1>1, <1>2, <1>11, <2>1, <2>3 DEF Fill, LineTypes
  <2>5. ASSUME NEW s \in Valid, Due(s) PROVE Due(s)'
    <3>1. CASE s = cur
      BY <2>1, <2>4, <3>1 DEF Due
    <3>2. CASE s # cur
      <4>1. buf'[s] = buf[s] /\ sock'[SessionOf(s)] = sock[SessionOf(s)]
        BY <1>1, <1>2, <1>11, <2>1, <3>2 DEF Fill, LineTypes
      <4> QED BY <2>1, <2>2, <2>5, <4>1, StillDue
    <3> QED BY <3>1, <3>2
  <2> QED BY <1>1, <2>1, <2>2, <2>5 DEF Answers
<1>12. ASSUME NEW D, pc \in {"getline", "child"}, pc' = "scan", cur' = cur + 1, Delivered(D),
              UNCHANGED r_set, \A s \in Valid \ {cur} : buf'[s] = buf[s] /\ sock'[SessionOf(s)] = sock[SessionOf(s)],
              Valid' \subseteq Valid, \A s \in Valid' \ {cur} : fd'[s] = fd[s] /\ SessionOf(s)' = SessionOf(s)
       PROVE  Answers'
  <2>1. ASSUME NEW s \in Valid', s >= cur', fd'[s] \in r_set' PROVE Due(s)'
    <3>1. s \in Valid /\ s # cur /\ s >= cur
      BY <1>2, <1>4, <1>12, <2>1
    <3>2. Due(s)
      BY <1>1, <1>12, <2>1, <3>1 DEF Answers
    <3> QED BY <1>2, <1>12, <3>1, <3>2, ClosedStays, StillDue
  <2> QED BY <1>12, <2>1 DEF Answers
<1>13. ASSUME NEW line \in AllLines, Serve(line) PROVE Answers'
  <2>1. PICK D : Delivered(D) /\ UNCHANGED <<fd, open, sock, r_set>> /\ pc' = "scan" /\ cur' = cur + 1
                 /\ buf' = [buf EXCEPT ![cur] = Tail(@)] /\ pc = "getline"
    BY <1>3, <1>13 DEF Serve, Gets, Killed
  <2>2. \A s \in Valid \ {cur} : buf'[s] = buf[s]
    BY <1>1, <1>2, <2>1 DEF LineTypes
  <2>3. Valid' = Valid /\ \A s : SessionOf(s)' = SessionOf(s)
    BY <2>1 DEF Valid, SessionOf
  <2> QED BY <1>12, <2>1, <2>2, <2>3
<1>14. ASSUME NEW line \in AllLines, StartCat(line) PROVE Answers'
  <2>1. /\ UNCHANGED <<cur, fd, open, sock, peer, r_set>> /\ pc' = "child" /\ pc = "getline"
        /\ buf' = [buf EXCEPT ![cur] = Tail(@)]
    BY <1>14 DEF StartCat, Gets, net
  <2>2. Valid' = Valid /\ \A s : SessionOf(s)' = SessionOf(s)
    BY <2>1 DEF Valid, SessionOf
  <2>3. \A s \in Valid \ {cur} : Due(s) => Due(s)'
    BY <1>1, <1>2, <2>1, <2>2 DEF LineTypes, Due
  <2> QED BY <1>1, <2>1, <2>2, <2>3 DEF Answers
<1>15. CASE EndCat
  <2>1. /\ Delivered({SessionOf(cur)}) /\ UNCHANGED <<fd, open, buf, r_set>> /\ pc' = "scan" /\ cur' = cur + 1
        /\ sock' = [sock EXCEPT ![SessionOf(cur)] = <<>>] /\ pc = "child"
    BY <1>3, <1>15 DEF EndCat, Killed, table
  <2>2. cur \in Valid
    BY <1>1, <2>1 DEF Places
  <2>3. \A s \in Valid \ {cur} : sock'[SessionOf(s)] = sock[SessionOf(s)]
    BY <1>1, <1>2, <2>1, <2>2 DEF LineTypes
  <2>4. Valid' = Valid /\ \A s : SessionOf(s)' = SessionOf(s)
    BY <2>1 DEF Valid, SessionOf
  <2> QED BY <1>12, <2>1, <2>3, <2>4
<1>16. CASE Disconnect
  <2>1. /\ Delivered(Everyone \ {SessionOf(cur)}) /\ UNCHANGED r_set /\ pc' = "scan" /\ cur' = cur + 1
        /\ sock' = [sock EXCEPT ![SessionOf(cur)] = <<>>] /\ pc = "getline"
        /\ buf' = [buf EXCEPT ![cur] = <<>>] /\ open' = [open EXCEPT ![fd[cur]] = None]
        /\ ResetEntry({cur})
    BY <1>3, <1>16 DEF Disconnect, Killed
  <2>2. cur \in Valid
    BY <1>1, <2>1 DEF Places
  <2>3. \A s \in Valid \ {cur} : buf'[s] = buf[s] /\ sock'[SessionOf(s)] = sock[SessionOf(s)]
    BY <1>1, <1>2, <2>1, <2>2 DEF LineTypes
  <2>4. fd'[cur] = Closed /\ \A s \in Slots \ {cur} : fd'[s] = fd[s]
    BY <1>2, <2>1, <2>2 DEF ResetEntry
  <2>5. Valid' \subseteq Valid
    BY <2>4 DEF Valid
  <2>6. \A s \in Valid' \ {cur} : fd'[s] = fd[s] /\ SessionOf(s)' = SessionOf(s)
    BY <1>1, <1>2, <2>1, <2>2, <2>4, <2>5 DEF SessionOf, OneEach, ServerTypes
  <2> QED BY <1>12, <2>1, <2>3, <2>5, <2>6
<1>17. CASE Interrupt
  BY <1>3, <1>17 DEF Interrupt
<1>18. ASSUME UNCHANGED <<pc, cur, all_set, r_set, fd, buf, open>>,
              \A s \in Valid : Due(s) => Due(s)'
       PROVE  Answers'
  BY <1>1, <1>18 DEF Answers, Valid
<1>19. ASSUME NEW c \in Sessions, Connect(c) \/ Close(c) PROVE Answers'
  <2>1. \A s \in Valid : SessionOf(s)' = SessionOf(s) /\ peer[SessionOf(s)] # "open" => peer'[SessionOf(s)] # "open"
    BY <1>1, <1>2, <1>19 DEF Connect, Close, SessionOf, ServerTypes, table
  <2>2. \A s : SessionOf(s)' = SessionOf(s)
    BY <1>19 DEF Connect, Close, SessionOf, table
  <2>3. UNCHANGED <<pc, cur, all_set, r_set, fd, buf, open, sock>>
    BY <1>19 DEF Connect, Close, table
  <2>4. \A s \in Valid : Due(s) => Due(s)'
    BY <2>1, <2>2, <2>3, StillDue
  <2> QED BY <1>18, <2>3, <2>4
<1>20. ASSUME NEW c \in Sessions, NEW packet \in Packets, Send(c, packet) PROVE Answers'
  <2>1. sock[c] # <<>> => Joined(sock[c], packet) # <<>>
    BY <1>1, WholeJoined DEF WholeLines, LineTypes
  <2>2. UNCHANGED <<pc, cur, all_set, r_set, fd, buf, open, peer>> /\ sock' = [sock EXCEPT ![c] = Joined(@, packet)]
    BY <1>20 DEF Send, Write, table
  <2>3. \A d \in Sessions : sock[d] # <<>> => sock'[d] # <<>>
    BY <1>1, <2>1, <2>2 DEF LineTypes
  <2>4. \A s : SessionOf(s)' = SessionOf(s)
    BY <2>2 DEF SessionOf
  <2>5. \A s \in Valid : Due(s) => Due(s)'
    BY <1>2, <2>2, <2>3, <2>4, StillDue
  <2> QED BY <1>18, <2>2, <2>5
<1> QED
  BY <1>5, <1>6, <1>7, <1>8, <1>9, <1>10, <1>11, <1>13, <1>14, <1>15, <1>16, <1>17, <1>19, <1>20
     DEF SelectNext, ServerStep, ClientStep

(* Where every client sends whole lines, the server never sleeps in the    *)
(* getline of one client: process_client reads only where select() has     *)
(* told of something, and nothing takes it away before the scan is there.  *)
THEOREM NoClientHoldsServer == WholeLines => (SelectSpec => []NeverWaits)
<1> SUFFICES ASSUME WholeLines PROVE SelectSpec => []NeverWaits
  OBVIOUS
<1>1. SelectInit => LineInv
  BY LineInit
<1>2. LineInv /\ SelectNext => LineInv'
  BY TableStep, LineTypesStep, AnswersStep DEF LineInv
<1>3. LineInv /\ UNCHANGED vars => LineInv'
  <2> SUFFICES ASSUME LineInv, UNCHANGED vars PROVE LineInv'
    OBVIOUS
  <2>1. TableInv'
    BY TableStutter DEF LineInv
  <2>2. LineTypes' /\ (Alive' => Answers')
    BY DEF LineInv, LineTypes, Answers, Alive, Valid, Due, SessionOf, vars, table, net
  <2> QED BY <2>1, <2>2 DEF LineInv
<1>4. LineInv => NeverWaits
  <2> SUFFICES ASSUME LineInv, pc = "getline" PROVE NeverWaits
    BY DEF NeverWaits
  <2>1. Answers /\ ServerTypes /\ OneEach /\ Queued /\ cur \in Valid /\ LineTypes
    BY DEF LineInv, TableInv, Places, Alive
  <2>2. SessionOf(cur) \in Sessions /\ cur \in Slots /\ cur >= cur
    <3>1. SessionOf(cur) \in Sessions /\ cur \in Slots
      BY <2>1, Owners
    <3>2. cur \in Nat
      BY <3>1, Apart
    <3> QED BY <3>1, <3>2
  <2>3. Due(cur)
    BY <2>1, <2>2 DEF Answers
  <2>4. buf[cur] # <<>> => HasLine(buf[cur])
    BY <2>1, <2>2, WholeJoined DEF LineTypes
  <2> QED BY <2>3, <2>4 DEF NeverWaits, Due, AtEof
<1>5. LineInv /\ [SelectNext]_vars => LineInv'
  BY <1>2, <1>3
<1> QED BY <1>1, <1>4, <1>5, PTL DEF SelectSpec
=============================================================================
