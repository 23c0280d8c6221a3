----------------------------- MODULE PoolProofs -----------------------------
(***************************************************************************)
(* Proofs about PipePool and ServerPools, for any table of descriptors,    *)
(* any largest number and any set of sound lines (SoundLines).             *)
(*                                                                         *)
(* None of the safety properties is inductive.  What keeps them is that    *)
(* the open descriptors are those of a set of pipes, one owner each        *)
(* (Tidy): the entries of the pool, the local variables of the loop that   *)
(* are in use where it is (Locals), and a set X of others: none for one    *)
(* shell, the pools of the other slots and what reset_pipe_pool has        *)
(* forgotten for the select server.  PoolInv(X) says so, and which of      *)
(* these pipes may be the same.  The steps of the loop are proved once,    *)
(* for any X.                                                              *)
(*                                                                         *)
(* The refinements of NumberedPipes need to know what the pipes contain.   *)
(* StoreInv(X) adds to PoolInv(X) that a pipe nobody has a descriptor of   *)
(* is empty, that the pipes made for a command are empty and those of      *)
(* later lines can be written to, and how long the pool may be.  From it   *)
(* every step of the loop is one of NumberedPipes, or none, for the client *)
(* whose line it is, and leaves what is in the pipes of X alone.           *)
(***************************************************************************)
EXTENDS ServerPools, FiniteSetTheorems, WellFoundedInduction, TLAPS

(* The values of the table of descriptors. *)
Tables == [Fds -> Ends]

(* The open descriptors. *)
OpenIn(t) == {n \in Fds : t[n] # Free}

(* The descriptors the pipes of H name. *)
Named(H) == UNION {FdsOf(p) : p \in H}

(* What p names are ends of one pipe, and all that is open of it. *)
Good(t, p) ==
  /\ p.r # Closed =>
       /\ t[p.r].end = "r"
       /\ \A n \in Fds : t[n].pipe = t[p.r].pipe => n \in FdsOf(p)
  /\ p.w # Closed =>
       p.r # Closed /\ t[p.w].end = "w" /\ t[p.w].pipe = t[p.r].pipe

(* What is open in t is what the pipes of H name, one each. *)
Tidy(t, H) ==
  /\ \A p \in H : Good(t, p)
  /\ \A p, q \in H : p.r = q.r => p = q
  /\ OpenIn(t) = Named(H)

(* The order of the natural numbers, as a relation, is well-founded. *)
LEMMA NatOrder ==
  \E R : IsWellFoundedOn(R, Nat) /\ \A x, y \in Nat : <<y, x>> \in R <=> y < x
<1>1. IsWellFoundedOn(OpToRel(<,Nat), Nat)
  BY NatLessThanWellFounded
<1>2. \A x, y \in Nat : <<y, x>> \in OpToRel(<,Nat) <=> y < x
  BY DEF OpToRel
<1> QED BY <1>1, <1>2, Zenon

(* The lowest number of a set is one of its elements: pipe() gives a free  *)
(* descriptor.                                                             *)
LEMMA LeastIn ==
  ASSUME NEW S \in SUBSET Nat, S # {}
  PROVE  Least(S) \in S
<1>1. PICK R : IsWellFoundedOn(R, Nat) /\ \A x, y \in Nat : <<y, x>> \in R <=> y < x
  BY NatOrder
<1>2. PICK x \in S : \A y \in S : ~ (<<y, x>> \in R)
  BY <1>1, WFMin
<1>3. \A y \in S : x <= y
  <2> TAKE y \in S
  <2>1. x \in Nat /\ y \in Nat
    OBVIOUS
  <2>2. <<y, x>> \in R <=> y < x
    BY <1>1, <2>1, Zenon
  <2>3. ~ (y < x)
    BY <1>2, <2>2, Zenon
  <2> QED BY <2>1, <2>3
<1> QED BY <1>3 DEF Least

(* There is a number for a new pipe: a pipe has a descriptor open. *)
LEMMA PipeLeft ==
  ASSUME NEW t \in Tables, 3 <= MaxFd
  PROVE  {p \in Pipes : \A n \in Fds : t[n].pipe # p} # {}
<1> SUFFICES ASSUME \A p \in Pipes : \E n \in Fds : t[n].pipe = p PROVE FALSE
  OBVIOUS
<1>1. MaxFd \in Nat
  BY PoolAssumption
<1>2. /\ IsFiniteSet(Pipes) /\ Cardinality(Pipes) = MaxFd
      /\ IsFiniteSet(Fds) /\ Cardinality(Fds) = MaxFd - 2
  BY <1>1, FS_Interval DEF Pipes, Fds
<1> DEFINE f == [p \in Pipes |-> CHOOSE n \in Fds : t[n].pipe = p]
<1>3. f \in [Pipes -> Fds] /\ \A p \in Pipes : t[f[p]].pipe = p
  OBVIOUS
<1> HIDE DEF f
<1>4. Cardinality(Fds) < Cardinality(Pipes)
  BY <1>1, <1>2
<1>5. \E p, q \in Pipes : p # q /\ f[p] = f[q]
  BY <1>2, <1>3, <1>4, FS_PigeonHole
<1> QED
  BY <1>3, <1>5

(* u is t with a new pipe, its ends behind p. *)
NewPipe(t, u, p) ==
  /\ p \in UnixPipe /\ p.r \in Fds /\ p.w \in Fds /\ p.r # p.w
  /\ t[p.r] = Free /\ t[p.w] = Free
  /\ \E i \in Pipes :
       /\ \A n \in Fds : t[n].pipe # i
       /\ u = [t EXCEPT ![p.r] = [pipe |-> i, end |-> "r"], ![p.w] = [pipe |-> i, end |-> "w"]]

(* pipe() gives two free descriptors, the ends of a pipe that nobody has. *)
LEMMA MadeNew ==
  ASSUME NEW t \in Tables, NEW k \in Nat, Cardinality(FreeFds(t)) >= k + 2
  PROVE  /\ NewPipe(t, Made(t).fds, Made(t).pipe) /\ Made(t).fds \in Tables
         /\ Cardinality(FreeFds(Made(t).fds)) >= k
<1> DEFINE r == Least(FreeFds(t))
           w == Least(FreeFds(t) \ {r})
           i == Least({p \in Pipes : \A n \in DOMAIN t : t[n].pipe # p})
<1>1. MaxFd \in Nat /\ DOMAIN t = Fds
  BY PoolAssumption DEF Tables
<1>2. IsFiniteSet(Fds) /\ FreeFds(t) \in SUBSET Fds /\ Fds \subseteq Nat
  <2>1. IsFiniteSet(3 .. MaxFd)
    BY <1>1, FS_Interval
  <2> QED
    BY <1>1, <2>1 DEF Fds, FreeFds
<1>3. IsFiniteSet(FreeFds(t)) /\ Cardinality(FreeFds(t)) \in Nat
  BY <1>2, FS_Subset, FS_CardinalityType
<1>4. FreeFds(t) # {} /\ FreeFds(t) \in SUBSET Nat
  <2>1. Cardinality(FreeFds(t)) # 0
    BY <1>3
  <2> QED
    BY <1>2, <2>1, FS_EmptySet
<1>5. r \in FreeFds(t)
  BY <1>4, LeastIn
<1>6. /\ IsFiniteSet(FreeFds(t) \ {r}) /\ Cardinality(FreeFds(t) \ {r}) = Cardinality(FreeFds(t)) - 1
  BY <1>3, <1>5, FS_RemoveElement
<1>7. FreeFds(t) \ {r} # {} /\ FreeFds(t) \ {r} \in SUBSET Nat
  <2>1. Cardinality(FreeFds(t) \ {r}) # 0
    BY <1>3, <1>6
  <2> HIDE DEF r
  <2> QED
    BY <1>4, <2>1, FS_EmptySet
<1>8. w \in FreeFds(t) \ {r}
  BY <1>7, LeastIn
<1>9. /\ IsFiniteSet((FreeFds(t) \ {r}) \ {w})
      /\ Cardinality((FreeFds(t) \ {r}) \ {w}) = Cardinality(FreeFds(t)) - 2
  <2> DEFINE S == FreeFds(t) \ {r}
  <2>1. /\ IsFiniteSet(S \ {w}) /\ Cardinality(S \ {w}) = Cardinality(S) - 1
    <3> HIDE DEF r, w
    <3> QED BY <1>6, <1>8, FS_RemoveElement
  <2> QED
    BY <1>3, <1>6, <2>1
<1>10. i \in Pipes /\ \A n \in Fds : t[n].pipe # i
  <2> DEFINE S == {p \in Pipes : \A n \in DOMAIN t : t[n].pipe # p}
  <2>1. 3 <= MaxFd
    BY <1>1, <1>2, <1>4 DEF Fds
  <2>2. S # {} /\ S \in SUBSET Nat
    BY <1>1, <2>1, PipeLeft DEF Pipes
  <2> HIDE DEF S
  <2>3. Least(S) \in S
    BY <2>2, LeastIn
  <2> QED
    BY <1>1, <2>3 DEF S
<1>11. /\ Made(t).fds = [t EXCEPT ![r] = [pipe |-> i, end |-> "r"], ![w] = [pipe |-> i, end |-> "w"]]
       /\ Made(t).pipe = [r |-> r, w |-> w]
  BY DEF Made
<1> HIDE DEF r, w, i
<1>12. r \in Fds /\ w \in Fds /\ r # w /\ t[r] = Free /\ t[w] = Free
  BY <1>2, <1>5, <1>8 DEF FreeFds
<1>13. NewPipe(t, Made(t).fds, Made(t).pipe)
  <2>1. [r |-> r, w |-> w] \in UnixPipe
    BY <1>12 DEF UnixPipe
  <2> QED
    BY <1>10, <1>11, <1>12, <2>1 DEF NewPipe
<1>14. Made(t).fds \in Tables
  <2>1. /\ [pipe |-> i, end |-> "r"] \in Ends
        /\ [pipe |-> i, end |-> "w"] \in Ends
    BY <1>10 DEF Ends
  <2> QED
    BY <1>11, <1>12, <2>1 DEF Tables
<1>15. FreeFds(Made(t).fds) = (FreeFds(t) \ {r}) \ {w}
  <2>1. i # 0
    BY <1>10 DEF Pipes
  <2> QED
    BY <1>1, <1>11, <1>12, <1>14, <2>1 DEF FreeFds, Free, Tables
<1> QED
  BY <1>3, <1>9, <1>13, <1>14, <1>15

(* Two pipes of H that name the same descriptor are one. *)
LEMMA OneOwner ==
  ASSUME NEW t \in Tables, NEW H \in SUBSET UnixPipe, Tidy(t, H),
         NEW p \in H, NEW q \in H, FdsOf(p) \cap FdsOf(q) # {}
  PROVE  p = q
<1>1. Good(t, p) /\ Good(t, q) /\ (p.r = q.r => p = q)
  BY DEF Tidy
<1>2. PICK n : n \in FdsOf(p) /\ n \in FdsOf(q)
  OBVIOUS
<1>3. n # Closed /\ n \in {p.r, p.w} /\ n \in {q.r, q.w}
  BY <1>2 DEF FdsOf
<1>4. p.r # Closed /\ q.r # Closed /\ p.r \in Fds /\ q.r \in Fds
  BY <1>1, <1>3 DEF Good, UnixPipe
<1>5. t[p.r].pipe = t[n].pipe /\ t[q.r].pipe = t[n].pipe
  BY <1>1, <1>3 DEF Good
<1>6. q.r \in {p.r, p.w}
  BY <1>1, <1>4, <1>5 DEF Good, FdsOf
<1>7. t[q.r].end = "r" /\ t[p.r].end = "r" /\ (p.w # Closed => t[p.w].end = "w")
  BY <1>1, <1>4 DEF Good
<1> QED
  BY <1>1, <1>4, <1>6, <1>7

(* What a pipe of H names is open. *)
LEMMA OpenEnd ==
  ASSUME NEW t \in Tables, NEW H \in SUBSET UnixPipe, Tidy(t, H), NEW p \in H, NEW n \in FdsOf(p)
  PROVE  n \in Fds /\ t[n] # Free
BY DEF Tidy, OpenIn, Named

(* A new pipe belongs to nobody yet; with it, the table is tidy again. *)
LEMMA NewTidy ==
  ASSUME NEW t \in Tables, NEW u \in Tables, NEW H \in SUBSET UnixPipe, Tidy(t, H),
         NEW p, NewPipe(t, u, p)
  PROVE  Tidy(u, H \cup {p}) /\ p \notin H /\ p # NoPipe /\ p \in UnixPipe
<1>1. /\ p \in UnixPipe /\ p.r \in Fds /\ p.w \in Fds /\ p.r # p.w
      /\ t[p.r] = Free /\ t[p.w] = Free
  BY DEF NewPipe
<1>2. PICK i \in Pipes :
        /\ \A n \in Fds : t[n].pipe # i
        /\ u = [t EXCEPT ![p.r] = [pipe |-> i, end |-> "r"], ![p.w] = [pipe |-> i, end |-> "w"]]
  BY DEF NewPipe
<1>3. Closed \notin Fds /\ i # 0
  BY <1>2 DEF Fds, Closed, Pipes
<1>4. /\ u[p.r] = [pipe |-> i, end |-> "r"] /\ u[p.w] = [pipe |-> i, end |-> "w"]
      /\ \A n \in Fds \ {p.r, p.w} : u[n] = t[n]
  BY <1>1, <1>2 DEF Tables
<1>5. FdsOf(p) = {p.r, p.w}
  BY <1>1, <1>3 DEF FdsOf
<1>6. Good(u, p)
  <2>1. \A n \in Fds : u[n].pipe = i => n \in FdsOf(p)
    BY <1>2, <1>4, <1>5
  <2>2. u[p.r].pipe = i /\ u[p.r].end = "r" /\ u[p.w].pipe = i /\ u[p.w].end = "w" /\ p.r # Closed
    BY <1>1, <1>3, <1>4
  <2> QED
    BY <2>1, <2>2 DEF Good
<1>7. ASSUME NEW q \in H
      PROVE  Good(u, q) /\ q.r # p.r /\ FdsOf(q) \cap {p.r, p.w} = {}
  <2>1. FdsOf(q) \cap {p.r, p.w} = {}
    BY <1>1, OpenEnd
  <2>2. q.r # p.r
    BY <1>1, <1>3, <2>1 DEF FdsOf
  <2>3. Good(t, q) /\ FdsOf(q) \subseteq Fds
    BY OpenEnd DEF Tidy
  <2>4. \A n \in FdsOf(q) : u[n] = t[n]
    BY <1>4, <2>1, <2>3
  <2>5. /\ q.r # Closed => q.r \in FdsOf(q)
        /\ q.w # Closed => q.w \in FdsOf(q)
    BY DEF FdsOf
  <2>6. q.r # Closed => u[q.r].pipe # i
    BY <1>2, <2>3, <2>4, <2>5
  <2>7. Good(u, q)
    BY <1>4, <2>3, <2>4, <2>5, <2>6 DEF Good
  <2> QED
    BY <2>1, <2>2, <2>7
<1>8. OpenIn(u) = OpenIn(t) \cup {p.r, p.w}
  BY <1>1, <1>3, <1>4 DEF OpenIn, Free
<1>9. OpenIn(u) = Named(H \cup {p})
  BY <1>5, <1>8 DEF Tidy, Named
<1>10. p \notin H /\ p # NoPipe
  BY <1>1, <1>3, <1>7 DEF NoPipe
<1>11. \A q, s \in H \cup {p} : q.r = s.r => q = s
  BY <1>7 DEF Tidy
<1> QED
  BY <1>1, <1>6, <1>7, <1>9, <1>10, <1>11 DEF Tidy

(* A descriptor that is open is the end of a pipe. *)
LEMMA EndsArePipes ==
  ASSUME NEW t \in Tables
  PROVE  \A n \in Fds : t[n] # Free => t[n].pipe \in Pipes /\ t[n].pipe # 0
BY DEF Tables, Ends, Pipes

(* Closing some pipes leaves the descriptors of the others. *)
LEMMA CloseTidy ==
  ASSUME NEW t \in Tables, NEW H \in SUBSET UnixPipe, Tidy(t, H), NEW C \in SUBSET H,
         NEW u, u = CloseAll(t, Named(C))
  PROVE  u \in Tables /\ Tidy(u, H \ C)
<1> DEFINE S == Named(C)
<1>1. u = [n \in Fds |-> IF n \in S THEN Free ELSE t[n]]
  BY DEF CloseAll, Tables
<1>2. u \in Tables
  BY <1>1 DEF Tables, Ends
<1>3. ASSUME NEW q \in H \ C
      PROVE  Good(u, q) /\ FdsOf(q) \cap S = {}
  <2>1. FdsOf(q) \cap S = {}
    <3> USE DEF Named
    <3> SUFFICES ASSUME NEW p \in C, FdsOf(q) \cap FdsOf(p) # {} PROVE FALSE
      OBVIOUS
    <3> QED
      BY OneOwner
  <2> HIDE DEF S
  <2>2. Good(t, q) /\ FdsOf(q) \subseteq Fds /\ \A n \in FdsOf(q) : t[n] # Free
    BY OpenEnd DEF Tidy
  <2>3. \A n \in FdsOf(q) : u[n] = t[n]
    BY <1>1, <2>1, <2>2
  <2>4. /\ q.r # Closed => q.r \in FdsOf(q)
        /\ q.w # Closed => q.w \in FdsOf(q)
    BY DEF FdsOf
  <2>5. q.r # Closed => t[q.r].pipe # 0
    BY <2>2, <2>4, EndsArePipes
  <2>6. \A n \in Fds : u[n].pipe = t[n].pipe \/ u[n].pipe = 0
    BY <1>1 DEF Free
  <2>7. Good(u, q)
    BY <2>2, <2>3, <2>4, <2>5, <2>6 DEF Good
  <2> QED
    BY <2>1, <2>7
<1>4. OpenIn(u) = OpenIn(t) \ S
  BY <1>1 DEF OpenIn
<1>5. Named(H) = Named(H \ C) \cup S
  BY DEF Named
<1>6. Named(H \ C) \cap S = {}
  <2> HIDE DEF S
  <2> QED
    BY <1>3 DEF Named
<1>7. OpenIn(u) = Named(H \ C)
  <2>1. OpenIn(t) = Named(H)
    BY DEF Tidy
  <2> HIDE DEF S
  <2> QED
    BY <1>4, <1>5, <1>6, <2>1
<1> QED
  BY <1>2, <1>3, <1>7 DEF Tidy

(* So does close_write of one pipe, which keeps its reading end. *)
LEMMA HalfTidy ==
  ASSUME NEW t \in Tables, NEW H \in SUBSET UnixPipe, Tidy(t, H), NEW p \in H,
         NEW u, u = CloseAll(t, {p.w}), NEW h, h = [p EXCEPT !.w = Closed]
  PROVE  u \in Tables /\ h \in UnixPipe /\ Tidy(u, (H \ {p}) \cup {h})
<1>1. u = [n \in Fds |-> IF n = p.w THEN Free ELSE t[n]]
  BY DEF CloseAll, Tables
<1>2. u \in Tables
  BY <1>1 DEF Tables, Ends
<1>3. /\ h \in UnixPipe /\ h.r = p.r /\ h.w = Closed /\ FdsOf(h) = FdsOf(p) \ {p.w}
  <2>1. Good(t, p) /\ p.r # Closed => p.r # p.w
    BY DEF Tidy, Good
  <2>2. h = [r |-> p.r, w |-> Closed] /\ p.r \in Fds \cup {Closed}
    BY DEF UnixPipe
  <2>3. h \in UnixPipe /\ h.r = p.r /\ h.w = Closed
    BY <2>2 DEF UnixPipe
  <2> QED
    BY <2>1, <2>3 DEF FdsOf, Tidy
<1>4. ASSUME NEW q \in H \ {p}
      PROVE  Good(u, q) /\ p.w \notin FdsOf(q)
  <2>1. p.w \notin FdsOf(q)
    <3>1. CASE p.w = Closed
      BY <3>1 DEF FdsOf
    <3>2. CASE p.w # Closed
      BY <3>2, OneOwner DEF FdsOf
    <3> QED BY <3>1, <3>2
  <2>2. Good(t, q) /\ FdsOf(q) \subseteq Fds /\ \A n \in FdsOf(q) : t[n] # Free
    BY OpenEnd DEF Tidy
  <2>3. \A n \in FdsOf(q) : u[n] = t[n]
    BY <1>1, <2>1, <2>2
  <2>4. /\ q.r # Closed => q.r \in FdsOf(q)
        /\ q.w # Closed => q.w \in FdsOf(q)
    BY DEF FdsOf
  <2>5. q.r # Closed => t[q.r].pipe # 0
    BY <2>2, <2>4, EndsArePipes
  <2>6. \A n \in Fds : u[n].pipe = t[n].pipe \/ u[n].pipe = 0
    BY <1>1 DEF Free
  <2>7. Good(u, q)
    BY <2>2, <2>3, <2>4, <2>5, <2>6 DEF Good
  <2> QED
    BY <2>1, <2>7
<1>5. Good(u, h)
  <2>1. Good(t, p) /\ (p.r # Closed => p.r \in FdsOf(p))
    BY DEF Tidy, FdsOf
  <2>2. p.r # Closed => p.r \in Fds /\ t[p.r] # Free /\ p.r # p.w
    BY <2>1, OpenEnd DEF Good
  <2>3. p.r # Closed => u[p.r] = t[p.r] /\ t[p.r].pipe # 0
    BY <1>1, <2>2, EndsArePipes
  <2>4. \A n \in Fds : n # p.w => u[n] = t[n]
    BY <1>1
  <2>5. p.w \in Fds => u[p.w].pipe = 0
    BY <1>1 DEF Free
  <2> QED
    BY <1>3, <2>1, <2>2, <2>3, <2>4, <2>5 DEF Good
<1>6. OpenIn(u) = OpenIn(t) \ {p.w}
  BY <1>1 DEF OpenIn
<1>7. OpenIn(u) = Named((H \ {p}) \cup {h})
  <2>1. OpenIn(t) = Named(H \ {p}) \cup FdsOf(p)
    BY DEF Tidy, Named
  <2>2. p.w \notin Named(H \ {p})
    BY <1>4 DEF Named
  <2>3. Named((H \ {p}) \cup {h}) = Named(H \ {p}) \cup FdsOf(h)
    BY DEF Named
  <2> QED
    BY <1>3, <1>6, <2>1, <2>2, <2>3
<1>8. \A q, s \in (H \ {p}) \cup {h} : q.r = s.r => q = s
  <2>1. \A q, s \in H : q.r = s.r => q = s
    BY DEF Tidy
  <2>2. \A q \in H \ {p} : q.r # h.r
    BY <1>3, <2>1
  <2> QED
    BY <2>1, <2>2
<1> QED
  BY <1>2, <1>3, <1>4, <1>5, <1>7, <1>8 DEF Tidy

(* The pipes of a pool. *)
Entries(pl) == {pl[n] : n \in 1 .. Len(pl)}

(* Two entries of a pool name no pipe in common, and none of X. *)
Apart(pl, X) ==
  /\ \A n \in 1 .. Len(pl) : pl[n] # NoPipe => pl[n] \notin X
  /\ \A n, m \in 1 .. Len(pl) : pl[n] = pl[m] /\ pl[n] # NoPipe => n = m

(* A sequence with one element replaced. *)
LEMMA SeqExcept ==
  ASSUME NEW D, NEW s \in Seq(D), NEW k \in 1 .. Len(s), NEW v \in D,
         NEW q, q = [s EXCEPT ![k] = v]
  PROVE  /\ q \in Seq(D) /\ Len(q) = Len(s) /\ q[k] = v
         /\ \A j \in 1 .. Len(s) : j # k => q[j] = s[j]
OBVIOUS

(* A sequence made longer: filled up to n with e, then v. *)
LEMMA SeqPadded ==
  ASSUME NEW D, NEW s \in Seq(D), NEW n \in Nat, n >= Len(s), NEW e \in D, NEW v \in D,
         NEW q, q = s \o [k \in 1 .. n - Len(s) |-> e] \o <<v>>
  PROVE  /\ q \in Seq(D) /\ Len(q) = n + 1 /\ q[n + 1] = v
         /\ \A j \in 1 .. Len(s) : q[j] = s[j]
         /\ \A j \in Len(s) + 1 .. n : q[j] = e
<1> DEFINE pad == [k \in 1 .. n - Len(s) |-> e]
           a == s \o pad
<1>1. pad \in Seq(D) /\ Len(pad) = n - Len(s) /\ \A k \in 1 .. n - Len(s) : pad[k] = e
  OBVIOUS
<1> HIDE DEF pad
<1>2. /\ a \in Seq(D) /\ Len(a) = n
      /\ \A j \in 1 .. Len(s) : a[j] = s[j]
      /\ \A j \in Len(s) + 1 .. n : a[j] = e
  BY <1>1
<1> HIDE DEF a
<1>3. q = Append(a, v)
  BY <1>2 DEF a, pad
<1>4. /\ q \in Seq(D) /\ Len(q) = n + 1 /\ q[n + 1] = v
      /\ \A j \in 1 .. n : q[j] = a[j]
  BY <1>2, <1>3
<1>5. Len(s) \in Nat
  OBVIOUS
<1> QED
  BY <1>2, <1>4, <1>5

(* The default-constructed UnixPipe names nothing. *)
LEMMA NoPipeType == NoPipe \in UnixPipe /\ NoPipe.r = Closed /\ NoPipe.w = Closed
  BY DEF NoPipe, UnixPipe

(* is_alive is what tells a pipe from a default-constructed one. *)
LEMMA Alive ==
  ASSUME NEW p \in UnixPipe
  PROVE  IsAlive(p) <=> p # NoPipe
BY DEF IsAlive, UnixPipe, NoPipe

(* The default-constructed UnixPipe has no descriptors. *)
LEMMA NoPipeNames == FdsOf(NoPipe) = {}
  BY DEF FdsOf, NoPipe

(* A default-constructed UnixPipe can be anywhere. *)
LEMMA NoPipeTidy ==
  ASSUME NEW t, NEW H \in SUBSET UnixPipe, Tidy(t, H)
  PROVE  Tidy(t, H \cup {NoPipe})
<1>1. Good(t, NoPipe)
  BY NoPipeType DEF Good
<1>2. \A p \in H : p.r = Closed => p = NoPipe
  <2> SUFFICES ASSUME NEW p \in H, p.r = Closed PROVE p = NoPipe
    OBVIOUS
  <2>1. p.w = Closed
    BY DEF Tidy, Good
  <2> QED
    BY <2>1 DEF UnixPipe, NoPipe
<1>3. \A p, q \in H \cup {NoPipe} : p.r = q.r => p = q
  BY <1>2, NoPipeType DEF Tidy
<1>4. Named(H \cup {NoPipe}) = Named(H)
  BY NoPipeNames DEF Named
<1> QED
  BY <1>1, <1>3, <1>4 DEF Tidy

(* The front of a pool is its first entry, if it has one. *)
LEMMA FrontType ==
  ASSUME NEW pl \in Seq(UnixPipe)
  PROVE  /\ Front(pl) \in UnixPipe
         /\ Front(pl) # NoPipe => pl # <<>> /\ Front(pl) = pl[1] /\ Front(pl) \in Entries(pl)
         /\ pl # <<>> => Front(pl) = pl[1] /\ 1 \in 1 .. Len(pl)
<1>1. CASE pl = <<>>
  BY <1>1, NoPipeType DEF Front
<1>2. CASE pl # <<>>
  BY <1>2 DEF Front, Entries
<1> QED
  BY <1>1, <1>2

(* The pool a line begins with: its first entry has been used up, the      *)
(* second comes first, for reading only.                                   *)
LEMMA ShiftedPool ==
  ASSUME NEW pl \in Seq(UnixPipe), Len(pl) >= 2
  PROVE  /\ Shifted(pl) \in Seq(UnixPipe) /\ Len(Shifted(pl)) = Len(pl) - 1
         /\ pl[2] \in UnixPipe
         /\ Shifted(pl)[1] = [pl[2] EXCEPT !.w = Closed]
         /\ \A n \in 2 .. Len(pl) - 1 : Shifted(pl)[n] = pl[n + 1]
<1> DEFINE h == [pl[2] EXCEPT !.w = Closed]
<1>1. pl[2] \in UnixPipe /\ h \in UnixPipe
  <2>1. pl[2] \in UnixPipe
    OBVIOUS
  <2> QED
    BY <2>1 DEF UnixPipe
<1>2. Shifted(pl) = [Tail(pl) EXCEPT ![1].w = Closed]
  BY DEF Shifted
<1>3. /\ Tail(pl) \in Seq(UnixPipe) /\ Len(Tail(pl)) = Len(pl) - 1
      /\ \A n \in 1 .. Len(pl) - 1 : Tail(pl)[n] = pl[n + 1]
  OBVIOUS
<1>4. Shifted(pl) = [Tail(pl) EXCEPT ![1] = h]
  BY <1>2, <1>3
<1> HIDE DEF h
<1>5. PICK tl, sh : tl = Tail(pl) /\ sh = Shifted(pl)
  OBVIOUS
<1>6. tl \in Seq(UnixPipe) /\ Len(tl) = Len(pl) - 1 /\ 1 \in 1 .. Len(tl) /\ sh = [tl EXCEPT ![1] = h]
  BY <1>3, <1>4, <1>5
<1>7. /\ sh \in Seq(UnixPipe) /\ Len(sh) = Len(tl) /\ sh[1] = h
      /\ \A n \in 1 .. Len(tl) : n # 1 => sh[n] = tl[n]
  BY ONLY <1>1, <1>6, SeqExcept
<1>8. \A n \in 2 .. Len(pl) - 1 : sh[n] = pl[n + 1]
  BY <1>3, <1>5, <1>6, <1>7
<1> QED
  BY <1>1, <1>5, <1>6, <1>7, <1>8 DEF h

(* A pool whose front was read by the first command of the line. *)
LEMMA FrontClosedPool ==
  ASSUME NEW pl \in Seq(UnixPipe), NEW X, Apart(pl, X), NEW q, q = FrontClosed(pl)
  PROVE  /\ q \in Seq(UnixPipe) /\ Len(q) = Len(pl) /\ Front(q) = NoPipe
         /\ \A n \in 2 .. Len(pl) : q[n] = pl[n]
         /\ Apart(q, X)
         /\ Entries(q) \cup {NoPipe} = (Entries(pl) \ {Front(pl)}) \cup {NoPipe}
<1>1. CASE pl = <<>>
  BY <1>1 DEF FrontClosed, Front, Entries, Apart
<1>2. CASE pl # <<>>
  <2>1. q = [pl EXCEPT ![1] = NoPipe] /\ Front(pl) = pl[1] /\ 1 \in 1 .. Len(pl)
    BY <1>2 DEF FrontClosed, Front
  <2>2. q \in Seq(UnixPipe) /\ Len(q) = Len(pl)
    BY <2>1, NoPipeType
  <2>3. q[1] = NoPipe /\ \A n \in 2 .. Len(pl) : q[n] = pl[n]
    BY <2>1
  <2>4. Front(q) = NoPipe
    BY <2>1, <2>2, <2>3 DEF Front
  <2>5. Apart(q, X)
    BY <2>2, <2>3 DEF Apart
  <2>6. Entries(q) \cup {NoPipe} = (Entries(pl) \ {Front(pl)}) \cup {NoPipe}
    BY <2>1, <2>2, <2>3 DEF Entries, Apart
  <2> QED
    BY <2>2, <2>3, <2>4, <2>5, <2>6
<1> QED
  BY <1>1, <1>2

(* Pipe p is what create_numbered_pipe gives for n: that of the pool, or   *)
(* one of its own.                                                         *)
In(pl, n) == n < Len(pl) /\ IsAlive(pl[n + 1])

Fits(pl, n, p) ==
  IF n = Closed THEN p = NoPipe
  ELSE p # NoPipe /\ IF In(pl, n) THEN p = pl[n + 1] ELSE p \notin Entries(pl)

(* q is pl with pipe p under number n. *)
Grown(pl, X, n, p, q) ==
  /\ q \in Seq(UnixPipe) /\ Apart(q, X) /\ Front(q) = Front(pl)
  /\ Entries(q) \cup {NoPipe} = Entries(pl) \cup {p, NoPipe}
  /\ \A m \in Nat \ {0, n} : /\ In(q, m) <=> In(pl, m)
                             /\ In(pl, m) => q[m + 1] = pl[m + 1]

(* record_pipe_info puts p under n and keeps all other numbers. *)
LEMMA RecordedPool ==
  ASSUME NEW pl \in Seq(UnixPipe), NEW X, Apart(pl, X), NEW n \in {Closed} \cup (Nat \ {0}),
         NEW p \in UnixPipe, Fits(pl, n, p), p \notin X \/ p = NoPipe,
         NEW q, q = RecordPipeInfo(pl, n, p)
  PROVE  Grown(pl, X, n, p, q)
<1> USE DEF Grown
<1>1. CASE n = Closed \/ In(pl, n)
  <2>1. q = pl /\ p \in Entries(pl) \cup {NoPipe}
    <3>1. CASE n = Closed
      BY <3>1 DEF RecordPipeInfo, Fits
    <3>2. CASE n # Closed /\ In(pl, n)
      <4>1. n \in Nat /\ n + 1 \in 1 .. Len(pl) /\ IsAlive(pl[n + 1]) /\ p = pl[n + 1]
        BY <3>2 DEF In, Fits
      <4>2. ~(n >= Len(pl))
        BY <4>1
      <4>3. q = [pl EXCEPT ![n + 1] = IF IsAlive(@) THEN @ ELSE p]
        BY <3>2, <4>2 DEF RecordPipeInfo
      <4>4. q = pl
        <5>1. q = [pl EXCEPT ![n + 1] = pl[n + 1]]
          BY <4>1, <4>3
        <5> QED
          BY ONLY <5>1, pl \in Seq(UnixPipe)
      <4> QED
        BY <4>1, <4>4 DEF Entries
    <3> QED
      BY <1>1, <3>1, <3>2
  <2> QED
    BY <2>1
<1>2. CASE n # Closed /\ ~In(pl, n) /\ n < Len(pl)
  <2>1. n \in Nat \ {0} /\ n + 1 \in 1 .. Len(pl) /\ ~IsAlive(pl[n + 1]) /\ p \notin Entries(pl)
    BY <1>2 DEF In, Fits, Closed
  <2>2. q = [pl EXCEPT ![n + 1] = p]
    BY <1>2, <2>1 DEF RecordPipeInfo
  <2>3. q \in Seq(UnixPipe) /\ Len(q) = Len(pl)
    BY <2>1, <2>2, SeqExcept
  <2>4. q[n + 1] = p /\ \A k \in 1 .. Len(pl) : k # n + 1 => q[k] = pl[k]
    BY <2>1, <2>2, SeqExcept
  <2>5. pl[n + 1] = NoPipe
    BY <2>1, Alive
  <2>6. Apart(q, X)
    BY <2>1, <2>3, <2>4 DEF Apart, Entries
  <2>7. Front(q) = Front(pl)
    BY <2>1, <2>3, <2>4 DEF Front
  <2>8. Entries(q) \cup {NoPipe} = Entries(pl) \cup {p, NoPipe}
    BY <2>1, <2>3, <2>4, <2>5 DEF Entries
  <2>9. \A m \in Nat \ {0, n} : /\ In(q, m) <=> In(pl, m)
                                /\ In(pl, m) => q[m + 1] = pl[m + 1]
    BY <2>1, <2>3, <2>4 DEF In
  <2> QED
    BY <2>3, <2>6, <2>7, <2>8, <2>9
<1>3. CASE n # Closed /\ n >= Len(pl)
  <2>1. n \in Nat \ {0} /\ p \notin Entries(pl) /\ Len(pl) \in Nat
    BY <1>3 DEF In, Fits, Closed
  <2>2. q = pl \o [k \in 1 .. n - Len(pl) |-> NoPipe] \o <<p>>
    BY <1>3 DEF RecordPipeInfo
  <2>4. q \in Seq(UnixPipe) /\ Len(q) = n + 1
    BY <1>3, <2>1, <2>2, NoPipeType, SeqPadded
  <2>5. /\ q[n + 1] = p
        /\ \A k \in 1 .. Len(pl) : q[k] = pl[k]
        /\ \A k \in Len(pl) + 1 .. n : q[k] = NoPipe
    BY <1>3, <2>1, <2>2, NoPipeType, SeqPadded
  <2>6. Apart(q, X)
    <3>1. ASSUME NEW k \in 1 .. Len(q)
          PROVE  \/ k \in 1 .. Len(pl) /\ q[k] = pl[k] /\ q[k] \in Entries(pl)
                 \/ k = n + 1 /\ q[k] = p
                 \/ q[k] = NoPipe
      BY <1>3, <2>1, <2>4, <2>5 DEF Entries
    <3>2. p \notin X
      BY <1>3 DEF Fits
    <3> QED
      BY <2>1, <3>1, <3>2 DEF Apart
  <2>7. Front(q) = Front(pl)
    BY <1>3, <2>1, <2>4, <2>5 DEF Front
  <2>8. Entries(q) \cup {NoPipe} = Entries(pl) \cup {p, NoPipe}
    <3>1. ASSUME NEW k \in 1 .. n + 1
          PROVE  q[k] \in Entries(pl) \cup {p, NoPipe}
      BY <1>3, <2>1, <2>5 DEF Entries
    <3>2. \A k \in 1 .. Len(pl) : k \in 1 .. Len(q) /\ q[k] = pl[k]
      BY <1>3, <2>1, <2>4, <2>5
    <3>3. n + 1 \in 1 .. Len(q) /\ q[n + 1] = p
      BY <2>1, <2>4, <2>5
    <3>4. Entries(pl) \cup {p} \subseteq Entries(q)
      BY <3>2, <3>3 DEF Entries
    <3>5. Entries(q) \subseteq Entries(pl) \cup {p, NoPipe}
      BY <2>4, <3>1 DEF Entries
    <3> QED
      BY <3>4, <3>5
  <2>9. \A m \in Nat \ {0, n} : /\ In(q, m) <=> In(pl, m)
                                /\ In(pl, m) => q[m + 1] = pl[m + 1]
    <3>1. ~IsAlive(NoPipe)
      BY NoPipeType DEF IsAlive
    <3> QED
      BY <1>3, <2>1, <2>4, <2>5, <3>1 DEF In
  <2> QED
    BY <2>4, <2>6, <2>7, <2>8, <2>9
<1> QED
  BY <1>1, <1>2, <1>3

(* The lines the theorems are about: "| " after every command but          *)
(* the last, only the last one may be unknown and it sends nothing on,     *)
(* and a line sends its output and its messages to different later lines.  *)
Sound(l) ==
  \A k \in 1 .. Len(l) :
    /\ l[k].next <=> k < Len(l)
    /\ l[k].known \/ (~l[k].next /\ l[k].out = Closed /\ l[k].err = Closed)
    /\ l[k].out # 0 /\ l[k].err # 0 /\ (l[k].out = l[k].err => l[k].out = Closed)

(* All lines the users may type are of that kind. *)
SoundLines == \A l \in Lines : Sound(l)

(* The types of the loop's variables. *)
PoolTypes ==
  /\ pc \in {"prompt", "cut", "made", "forking"}
  /\ line \in Seq(Stage) /\ fds \in Tables /\ pool \in Seq(UnixPipe) /\ first \in BOOLEAN
  /\ next_pipe \in UnixPipe /\ last_pipe \in UnixPipe /\ error_pipe \in UnixPipe
  /\ stdout_pipe \in UnixPipe /\ stderr_pipe \in UnixPipe

(* The pipes of the loop's local variables. *)
Locals ==
  IF pc = "prompt" THEN {}
  ELSE {last_pipe} \cup (IF pc = "cut" THEN {} ELSE {error_pipe})
         \cup (IF pc # "forking" THEN {}
               ELSE IF Head(line).next THEN {next_pipe} ELSE {stdout_pipe, stderr_pipe})

(* All pipes the process has, X those it has besides the pool and the loop. *)
Held(X) == X \cup Entries(pool) \cup Locals

(* No numbered pipe is set for the command. *)
Unset ==
  /\ stdout_pipe = NoPipe /\ stdout_count = Closed
  /\ stderr_pipe = NoPipe /\ stderr_count = Closed

(* The front of the pool is read by the first command of a line and by     *)
(* nobody else; nobody writes to it any more.                              *)
Fronts ==
  /\ Front(pool) = NoPipe \/ (first /\ pc \in {"made", "forking"})
  /\ Front(pool).w = Closed
  /\ first => last_pipe = NoPipe

(* Which of the local variables are unset where. *)
Waiting ==
  /\ pc = "prompt" => line = <<>> /\ first /\ Unset
  /\ pc = "cut" => (line # <<>> => Unset) /\ (line = <<>> => last_pipe = NoPipe)
  /\ pc = "made" => Unset

(* The pipe between two commands and the error pipe belong to the loop     *)
(* alone.                                                                  *)
LoopsOwn(X) ==
  /\ last_pipe # NoPipe => last_pipe \notin X \cup Entries(pool)
  /\ pc \in {"made", "forking"} =>
       line # <<>> /\ error_pipe # NoPipe /\ error_pipe \notin X \cup Entries(pool) \cup {last_pipe}

(* The pipes made for the command about to run. *)
Piped(X) ==
  /\ Unset
  /\ next_pipe # NoPipe /\ next_pipe \notin X \cup Entries(pool) \cup {last_pipe, error_pipe}

(* Pipe p is what the command is given for number n. *)
Sent(X, n, p) ==
  Fits(pool, n, p) /\ (p # NoPipe => p \notin X \cup {last_pipe, error_pipe})

(* The pipes of the line's last command: those of its numbers, and one     *)
(* each.                                                                   *)
Numbered(X) ==
  /\ stdout_count = Head(line).out /\ Sent(X, stdout_count, stdout_pipe)
  /\ stderr_count = Head(line).err /\ Sent(X, stderr_count, stderr_pipe)
  /\ stdout_pipe # NoPipe => stdout_pipe # stderr_pipe

(* What MakePipes has made. *)
Forking(X) ==
  pc = "forking" => IF Head(line).next THEN Piped(X) ELSE Numbered(X)

(* The invariant of the loop, with X the other pipes of the process. *)
PoolInv(X) ==
  /\ PoolTypes
  /\ Sound(line)
  /\ Tidy(fds, Held(X))
  /\ Apart(pool, X)
  /\ Fronts /\ Waiting /\ LoopsOwn(X) /\ Forking(X)

(* What Sound says of the first command and of the rest of the line. *)
LEMMA LineHead ==
  ASSUME NEW l \in Seq(Stage), Sound(l), l # <<>>
  PROVE  /\ Head(l) \in Stage /\ Tail(l) \in Seq(Stage) /\ Sound(Tail(l))
         /\ Head(l).next \in BOOLEAN /\ Head(l).known \in BOOLEAN
         /\ Head(l).next <=> Tail(l) # <<>>
         /\ ~Head(l).known => ~Head(l).next /\ Head(l).out = Closed /\ Head(l).err = Closed
         /\ Head(l).out \in {Closed} \cup (Nat \ {0}) /\ Head(l).err \in {Closed} \cup (Nat \ {0})
         /\ Head(l).out = Head(l).err => Head(l).out = Closed
<1>1. Head(l) = l[1] /\ Len(l) \in Nat /\ Len(l) >= 1 /\ 1 \in 1 .. Len(l)
  BY DEF Stage
<1>2. Head(l) \in Stage /\ Tail(l) \in Seq(Stage)
  OBVIOUS
<1>3. /\ Head(l).next \in BOOLEAN /\ Head(l).known \in BOOLEAN
      /\ Head(l).out \in Closed .. MaxCount /\ Head(l).err \in Closed .. MaxCount
  BY <1>2 DEF Stage
<1>4. /\ l[1].next <=> 1 < Len(l)
      /\ l[1].known \/ (~l[1].next /\ l[1].out = Closed /\ l[1].err = Closed)
      /\ l[1].out # 0 /\ l[1].err # 0 /\ (l[1].out = l[1].err => l[1].out = Closed)
  BY <1>1 DEF Sound
<1>5. Sound(Tail(l))
  <2>1. Len(Tail(l)) = Len(l) - 1 /\ \A k \in 1 .. Len(Tail(l)) : Tail(l)[k] = l[k + 1] /\ k + 1 \in 1 .. Len(l)
    BY <1>1
  <2>2. ASSUME NEW k \in 1 .. Len(Tail(l))
        PROVE  k + 1 < Len(l) <=> k < Len(Tail(l))
    BY <1>1, <2>1
  <2> QED
    BY <2>1, <2>2 DEF Sound
<1>6. Head(l).next <=> Tail(l) # <<>>
  <2>1. PICK q : q = Tail(l)
    OBVIOUS
  <2>2. q \in Seq(Stage) /\ Len(q) = Len(l) - 1
    BY <1>1, <2>1
  <2>3. q # <<>> <=> Len(q) # 0
    BY <2>2
  <2>4. Head(l).next <=> 1 < Len(l)
    BY <1>1, <1>4
  <2> QED
    BY ONLY <1>1, <2>1, <2>2, <2>3, <2>4
<1>7. MaxCount \in Nat
  BY PoolAssumption
<1> QED
  BY <1>1, <1>2, <1>3, <1>4, <1>5, <1>6, <1>7 DEF Closed

(* Entries are of the type UnixPipe. *)
LEMMA EntriesType ==
  ASSUME NEW pl \in Seq(UnixPipe)
  PROVE  Entries(pl) \in SUBSET UnixPipe
BY DEF Entries

(* The process has pipes of the type UnixPipe. *)
LEMMA HeldType ==
  ASSUME NEW X \in SUBSET UnixPipe, PoolTypes
  PROVE  Held(X) \in SUBSET UnixPipe
<1>1. Entries(pool) \in SUBSET UnixPipe
  BY EntriesType DEF PoolTypes
<1>2. Locals \in SUBSET UnixPipe
  BY DEF PoolTypes, Locals
<1> QED
  BY <1>1, <1>2 DEF Held

(* The free descriptors can be counted. *)
LEMMA FreeCounted ==
  ASSUME NEW t \in Tables
  PROVE  Cardinality(FreeFds(t)) \in Nat
<1>1. MaxFd \in Nat /\ DOMAIN t = Fds
  BY PoolAssumption DEF Tables
<1>2. IsFiniteSet(Fds) /\ FreeFds(t) \in SUBSET Fds
  <2>1. IsFiniteSet(3 .. MaxFd)
    BY <1>1, FS_Interval
  <2> QED
    BY <1>1, <2>1 DEF Fds, FreeFds
<1> QED
  BY <1>2, FS_Subset, FS_CardinalityType

(* What create_numbered_pipe gives: the pipe of the pool, or a new one.    *)
Gives(t, H, n, c) ==
  /\ c.fds \in Tables /\ c.pipe \in UnixPipe /\ Tidy(c.fds, H \cup {c.pipe})
  /\ Cardinality(FreeFds(c.fds)) + 2 >= Cardinality(FreeFds(t))
  /\ Fits(pool, n, c.pipe)
  /\ c.pipe \notin H \/ c.pipe \in Entries(pool) \/ c.pipe = NoPipe
  /\ c.pipe = NoPipe => n = Closed
  /\ n # Closed /\ In(pool, n) => c.pipe = pool[n + 1]
  /\ n # Closed /\ ~In(pool, n) => c.pipe \notin H

(* create_numbered_pipe does what Gives says. *)
LEMMA Created ==
  ASSUME NEW t \in Tables, NEW H \in SUBSET UnixPipe, Tidy(t, H), NoPipe \in H,
         pool \in Seq(UnixPipe), Entries(pool) \subseteq H,
         Cardinality(FreeFds(t)) >= 2,
         NEW n \in {Closed} \cup (Nat \ {0}),
         NEW c, c = CreateNumberedPipe(t, n)
  PROVE  Gives(t, H, n, c)
<1> USE DEF Gives
<1>0. Cardinality(FreeFds(t)) \in Nat
  BY FreeCounted
<1>1. CASE n = Closed
  <2>1. c.fds = t /\ c.pipe = NoPipe
    BY <1>1 DEF CreateNumberedPipe
  <2>2. H \cup {c.pipe} = H
    BY <2>1
  <2>3. Tidy(c.fds, H \cup {c.pipe}) /\ Cardinality(FreeFds(c.fds)) + 2 >= Cardinality(FreeFds(t))
    <3>1. Cardinality(FreeFds(t)) + 2 >= Cardinality(FreeFds(t))
      BY <1>0
    <3> QED
      BY <2>1, <2>2, <3>1, Zenon
  <2>4. c.fds \in Tables /\ c.pipe \in UnixPipe
    BY <2>1, NoPipeType, Zenon
  <2> QED
    BY <1>1, <2>1, <2>3, <2>4 DEF Fits
<1>2. CASE n # Closed /\ In(pool, n)
  <2>1. n + 1 \in 1 .. Len(pool) /\ IsAlive(pool[n + 1])
    BY <1>2 DEF In
  <2>2. c.fds = t /\ c.pipe = pool[n + 1]
    BY <1>2 DEF CreateNumberedPipe, In, InPool
  <2>3. pool[n + 1] \in Entries(pool) /\ pool[n + 1] \in UnixPipe
    BY <2>1 DEF Entries
  <2>4. pool[n + 1] # NoPipe
    BY <2>1, <2>3, Alive
  <2>5. H \cup {c.pipe} = H
    BY <2>2, <2>3
  <2>6. Tidy(c.fds, H \cup {c.pipe}) /\ Cardinality(FreeFds(c.fds)) + 2 >= Cardinality(FreeFds(t))
    <3>1. Cardinality(FreeFds(t)) + 2 >= Cardinality(FreeFds(t))
      BY <1>0
    <3> QED
      BY <2>2, <2>5, <3>1, Zenon
  <2>7. c.fds \in Tables /\ c.pipe \in UnixPipe /\ c.pipe \in Entries(pool) /\ c.pipe # NoPipe
    BY <2>2, <2>3, <2>4, Zenon
  <2> QED
    BY <1>2, <2>2, <2>6, <2>7 DEF Fits
<1>3. CASE n # Closed /\ ~In(pool, n)
  <2>1. c = Made(t)
    BY <1>3 DEF CreateNumberedPipe, In, InPool
  <2>2. /\ NewPipe(t, c.fds, c.pipe) /\ c.fds \in Tables
        /\ Cardinality(FreeFds(c.fds)) + 2 >= Cardinality(FreeFds(t))
    <3>1. PICK k \in Nat : Cardinality(FreeFds(t)) = k + 2
      <4>1. Cardinality(FreeFds(t)) - 2 \in Nat
        BY <1>0
      <4> QED
        BY <1>0, <4>1
    <3>2. Cardinality(FreeFds(t)) >= k + 2
      BY <3>1
    <3>3. NewPipe(t, c.fds, c.pipe) /\ c.fds \in Tables /\ Cardinality(FreeFds(c.fds)) >= k
      BY <2>1, <3>2, MadeNew, Zenon
    <3>4. Cardinality(FreeFds(c.fds)) \in Nat
      BY <3>3, FreeCounted
    <3> QED
      BY <3>1, <3>3, <3>4
  <2>3. Tidy(c.fds, H \cup {c.pipe}) /\ c.pipe \notin H /\ c.pipe # NoPipe /\ c.pipe \in UnixPipe
    BY <2>2, NewTidy
  <2> QED
    BY <1>3, <2>2, <2>3 DEF Fits
<1> QED
  BY <1>1, <1>2, <1>3

(* The first prompt, with an empty pool. *)
LEMMA InitInv ==
  ASSUME PoolInit PROVE PoolInv({NoPipe})
<1> USE DEF PoolInit
<1>1. PoolTypes
  BY NoPipeType DEF PoolTypes, Tables, Ends
<1>2. Entries(pool) = {NoPipe} /\ Held({NoPipe}) = {NoPipe} /\ Front(pool) = NoPipe
  BY DEF Entries, Held, Locals, Front
<1>3. Tidy(fds, {NoPipe})
  <2>1. OpenIn(fds) = {}
    BY DEF OpenIn
  <2>2. Named({NoPipe}) = {}
    BY NoPipeNames DEF Named
  <2> QED
    BY <2>1, <2>2, NoPipeType DEF Tidy, Good
<1>4. Sound(line) /\ Apart(pool, {NoPipe})
  BY DEF Sound, Apart
<1>5. Fronts /\ Waiting /\ LoopsOwn({NoPipe}) /\ Forking({NoPipe})
  BY <1>2, NoPipeType DEF Fronts, Waiting, LoopsOwn, Forking, Unset
<1> QED
  BY <1>1, <1>2, <1>3, <1>4, <1>5 DEF PoolInv

(* Between two lines the pool may be exchanged for another one, Y being    *)
(* what the process has besides that one.                                  *)
LEMMA PromptStep ==
  ASSUME NEW X \in SUBSET UnixPipe, NoPipe \in X, PoolInv(X), pc = "prompt",
         NEW Y \in SUBSET UnixPipe, NoPipe \in Y, Y \cup Entries(pool') = X \cup Entries(pool),
         pool' \in Seq(UnixPipe), Apart(pool', Y), Front(pool') = NoPipe,
         \/ pc' = "prompt" /\ line' = line
         \/ pc' = "cut" /\ line' \in Seq(Stage) /\ Sound(line'),
         UNCHANGED <<fds, first, localVars>>
  PROVE  PoolInv(Y)'
<1> USE DEF localVars
<1>1. line' \in Seq(Stage) /\ Sound(line') /\ (pc' = "prompt" => line' = <<>>)
  BY DEF PoolInv, PoolTypes, Waiting
<1>2. PoolTypes'
  BY <1>1 DEF PoolInv, PoolTypes
<1>3. first /\ last_pipe = NoPipe /\ Unset /\ Unset'
  BY DEF PoolInv, Fronts, Waiting, Unset
<1>4. Held(Y)' = Held(X)
  BY <1>3 DEF Held, Locals
<1>5. Fronts'
  BY <1>3, NoPipeType DEF Fronts
<1>6. Waiting' /\ LoopsOwn(Y)' /\ Forking(Y)'
  BY <1>1, <1>3 DEF Waiting, LoopsOwn, Forking
<1>7. Tidy(fds, Held(Y))'
  BY <1>4 DEF PoolInv
<1> QED
  BY <1>1, <1>2, <1>5, <1>6, <1>7 DEF PoolInv

(* The end of a line: the prompt comes back. *)
LEMMA EndLineStep ==
  ASSUME NEW X \in SUBSET UnixPipe, NoPipe \in X, PoolInv(X), EndLine
  PROVE  PoolInv(X)'
<1> USE DEF EndLine
<1>1. PoolTypes'
  BY NoPipeType DEF PoolInv, PoolTypes
<1>2. last_pipe = NoPipe
  BY DEF PoolInv, Waiting
<1>3. Held(X)' = Held(X)
  BY <1>2 DEF Held, Locals
<1>4. Fronts'
  BY DEF PoolInv, Fronts
<1>5. Waiting' /\ LoopsOwn(X)' /\ Forking(X)'
  BY DEF Waiting, LoopsOwn, Forking, Unset
<1>6. Sound(line)' /\ Apart(pool, X)'
  BY DEF PoolInv
<1>7. Tidy(fds, Held(X))'
  BY <1>3 DEF PoolInv
<1> QED
  BY <1>1, <1>4, <1>5, <1>6, <1>7 DEF PoolInv

(* The table and the pool at the first command of a line, L the pipes of   *)
(* the loop.                                                               *)
Begun(X, L, u, q) ==
  /\ u \in Tables /\ q \in Seq(UnixPipe) /\ Tidy(u, X \cup Entries(q) \cup L)
  /\ Apart(q, X) /\ Front(q).w = Closed
  /\ \A p \in L : p # NoPipe => p \notin Entries(q)

(* The pool shifted for a new line, its first entry and the writing end of *)
(* its second closed.                                                      *)
LEMMA ShiftedTidy ==
  ASSUME NEW t \in Tables, NEW X \in SUBSET UnixPipe, NoPipe \in X,
         NEW pl \in Seq(UnixPipe), Apart(pl, X), Front(pl) = NoPipe,
         NEW L \in SUBSET UnixPipe, \A p \in L : p # NoPipe => p \notin Entries(pl),
         Tidy(t, X \cup Entries(pl) \cup L),
         NEW u, u = CloseAll(t, ShiftCloses(pl)), NEW q, q = Shifted(pl)
  PROVE  Begun(X, L, u, q)
<1> USE DEF Begun
<1> DEFINE H == X \cup Entries(pl) \cup L
<1>0. H \in SUBSET UnixPipe
  BY EntriesType
<1>1. CASE Len(pl) < 2
  <2>1. q = <<>> /\ ShiftCloses(pl) = {}
    BY <1>1 DEF Shifted, ShiftCloses
  <2>2. u = t
    BY <2>1 DEF CloseAll, Tables
  <2>3. Entries(q) = {} /\ Front(q) = NoPipe
    BY <2>1 DEF Entries, Front
  <2>4. Entries(pl) \subseteq {NoPipe}
    <3>1. ASSUME NEW n \in 1 .. Len(pl) PROVE pl[n] = NoPipe
      <4>1. n = 1 /\ pl # <<>>
        BY <1>1
      <4> QED
        BY <4>1 DEF Front
    <3> QED
      BY <3>1 DEF Entries
  <2>5. X \cup Entries(q) \cup L = H
    BY <2>3, <2>4
  <2>6. Apart(q, X) /\ q \in Seq(UnixPipe)
    BY <2>1 DEF Apart
  <2>7. Tidy(u, X \cup Entries(q) \cup L)
    BY <2>2, <2>5, Zenon
  <2> QED
    BY <2>2, <2>3, <2>6, <2>7, NoPipeType
<1>2. CASE Len(pl) >= 2
  <2> DEFINE p == pl[2]
             h == [p EXCEPT !.w = Closed]
  <2>1. /\ q \in Seq(UnixPipe) /\ Len(q) = Len(pl) - 1 /\ p \in UnixPipe
        /\ q[1] = h /\ \A n \in 2 .. Len(pl) - 1 : q[n] = pl[n + 1]
    BY <1>2, ShiftedPool
  <2>2. p \in Entries(pl) /\ pl[1] = NoPipe /\ q # <<>>
    BY <1>2, <2>1 DEF Entries, Front
  <2>3. u = CloseAll(t, {p.w})
    BY <1>2 DEF ShiftCloses
  <2>4. /\ h \in UnixPipe /\ h.r = p.r /\ h.w = Closed
        /\ p = NoPipe => h = NoPipe
        /\ h = NoPipe /\ Good(t, p) => p = NoPipe
    <3>1. p = [r |-> p.r, w |-> p.w] /\ h = [r |-> p.r, w |-> Closed] /\ p.r \in Fds \cup {Closed}
      BY <2>1 DEF UnixPipe
    <3> HIDE DEF p, h
    <3>2. h \in UnixPipe /\ h.r = p.r /\ h.w = Closed
      BY <3>1 DEF UnixPipe
    <3> QED
      BY <3>1, <3>2 DEF NoPipe, Good
  <2> HIDE DEF p, h, H
  <2>5. u \in Tables /\ Tidy(u, (H \ {p}) \cup {h})
    <3>1. p \in H /\ Tidy(t, H) /\ h = [p EXCEPT !.w = Closed]
      BY <2>2 DEF H, h
    <3> QED
      BY <1>0, <2>3, <3>1, HalfTidy
  <2>6. Good(t, p) /\ \A s \in H : s.r = h.r => s = p
    <3>1. Tidy(t, H) /\ p \in H
      BY <2>2 DEF H
    <3> QED
      BY <2>4, <3>1 DEF Tidy
  <2>7. p # NoPipe => p \notin X /\ p \notin L /\ h # NoPipe
    <3>1. p # NoPipe => p \notin X
      BY <1>2, <2>2 DEF Apart, Entries
    <3> QED
      BY <2>2, <2>4, <2>6, <3>1
  <2>8. h # NoPipe => h \notin X /\ h \notin L
    <3>1. X \subseteq H /\ L \subseteq H
      BY DEF H
    <3> QED
      BY <2>4, <2>6, <2>7, <3>1
  <2>9. \A n \in 2 .. Len(q) : q[n] # NoPipe => q[n] # h /\ q[n] # p /\ q[n] \in Entries(pl)
    <3> TAKE n \in 2 .. Len(q)
    <3>1. n + 1 \in 1 .. Len(pl) /\ n + 1 # 2 /\ q[n] = pl[n + 1] /\ q[n] \in Entries(pl)
      BY <2>1 DEF Entries
    <3>2. q[n] # NoPipe => q[n] # p
      <4>1. 2 \in 1 .. Len(pl) /\ p = pl[2]
        BY <1>2 DEF p
      <4> QED
        BY <3>1, <4>1 DEF Apart
    <3>3. q[n] \in H
      BY <3>1 DEF H
    <3> QED
      BY <2>4, <2>6, <3>1, <3>2, <3>3
  <2>10. Entries(q) = {h} \cup {q[n] : n \in 2 .. Len(q)}
    <3>1. Len(q) \in Nat /\ Len(q) >= 1
      BY <1>2, <2>1
    <3>2. 1 .. Len(q) = {1} \cup 2 .. Len(q)
      BY <3>1
    <3> QED
      BY <2>1, <3>2 DEF Entries
  <2>11. Entries(pl) \subseteq {NoPipe, p} \cup {q[n] : n \in 2 .. Len(q)}
    <3>1. ASSUME NEW m \in 1 .. Len(pl)
          PROVE  pl[m] \in {NoPipe, p} \cup {q[n] : n \in 2 .. Len(q)}
      <4>1. CASE m = 1 \/ m = 2
        BY <2>2, <4>1 DEF p
      <4>2. CASE m > 2
        <5>1. m - 1 \in 2 .. Len(q) /\ q[m - 1] = pl[m]
          BY <2>1, <4>2
        <5> QED
          BY <5>1
      <4> QED
        BY <4>1, <4>2
    <3> QED
      BY <3>1 DEF Entries
  <2>12. ((H \ {p}) \cup {h}) \cup {NoPipe} = X \cup Entries(q) \cup L
    <3>1. \A s \in {q[n] : n \in 2 .. Len(q)} : s # NoPipe => s \in Entries(pl) /\ s # p
      BY <2>9
    <3> DEFINE S == {q[n] : n \in 2 .. Len(q)}
    <3> HIDE DEF S
    <3>2. Entries(q) = {h} \cup S /\ Entries(pl) \subseteq {NoPipe, p} \cup S
      BY <2>10, <2>11 DEF S
    <3>3. \A s \in S : s # NoPipe => s \in Entries(pl) /\ s # p
      BY <3>1 DEF S
    <3> QED
      BY <2>4, <2>7, <3>2, <3>3 DEF H
  <2>13. Tidy(u, X \cup Entries(q) \cup L)
    <3>1. (H \ {p}) \cup {h} \in SUBSET UnixPipe
      BY <1>0, <2>4
    <3> QED
      BY <2>5, <2>12, <3>1, NoPipeTidy
  <2>14. Apart(q, X)
    <3>1. ASSUME NEW n \in 1 .. Len(q), q[n] # NoPipe
          PROVE  q[n] \notin X
      <4>1. CASE n = 1
        BY <2>1, <2>8, <3>1, <4>1
      <4>2. CASE n # 1
        <5>1. n \in 2 .. Len(q) /\ n + 1 \in 1 .. Len(pl) /\ q[n] = pl[n + 1]
          BY <2>1, <4>2
        <5> QED
          BY <3>1, <5>1 DEF Apart
      <4> QED
        BY <4>1, <4>2
    <3>2. ASSUME NEW n \in 1 .. Len(q), NEW m \in 1 .. Len(q), q[n] = q[m], q[n] # NoPipe
          PROVE  n = m
      <4>1. CASE n = 1 \/ m = 1
        <5>1. \A k \in 1 .. Len(q) : k = 1 \/ k \in 2 .. Len(q)
          BY <2>1
        <5> QED
          BY <2>1, <2>9, <3>2, <4>1, <5>1
      <4>2. CASE n # 1 /\ m # 1
        <5>1. /\ n \in 2 .. Len(q) /\ n + 1 \in 1 .. Len(pl) /\ q[n] = pl[n + 1]
              /\ m \in 2 .. Len(q) /\ m + 1 \in 1 .. Len(pl) /\ q[m] = pl[m + 1]
          BY <2>1, <4>2
        <5>2. n + 1 = m + 1
          BY <3>2, <5>1 DEF Apart
        <5> QED
          BY <5>2
      <4> QED
        BY <4>1, <4>2
    <3> QED
      BY <3>1, <3>2 DEF Apart
  <2>15. Front(q).w = Closed
    BY <2>1, <2>2, <2>4 DEF Front
  <2>16. \A s \in L : s # NoPipe => s \notin Entries(q)
    <3> SUFFICES ASSUME NEW s \in L, s # NoPipe, s \in Entries(q) PROVE FALSE
      OBVIOUS
    <3>1. s # h
      BY <2>8
    <3> QED
      BY <2>9, <2>10, <3>1
  <2> QED
    BY <2>1, <2>5, <2>13, <2>14, <2>15, <2>16
<1> QED
  <2>1. Len(pl) \in Nat
    OBVIOUS
  <2> QED
    BY <1>1, <1>2, <2>1

(* A command is cut from the line, the error pipe is made. *)
LEMMA CutStep ==
  ASSUME NEW X \in SUBSET UnixPipe, NoPipe \in X, PoolInv(X), Cut
  PROVE  PoolInv(X)'
<1> DEFINE t == Made(fds).fds
           e == Made(fds).pipe
           H == Held(X)
<1>1. /\ pc = "cut" /\ line # <<>> /\ pc' = "made" /\ error_pipe' = e
      /\ Cardinality(FreeFds(fds)) >= 0 + 2
      /\ UNCHANGED <<line, first, next_pipe, last_pipe>>
      /\ UNCHANGED <<stdout_pipe, stdout_count, stderr_pipe, stderr_count>>
      /\ \/ first /\ fds' = CloseAll(t, ShiftCloses(pool)) /\ pool' = Shifted(pool)
         \/ ~first /\ fds' = t /\ pool' = pool
  BY DEF Cut, RoomFor
<1>2. /\ PoolTypes /\ Tidy(fds, H) /\ Apart(pool, X) /\ Sound(line)
      /\ Front(pool) = NoPipe /\ (first => last_pipe = NoPipe) /\ Unset
      /\ last_pipe # NoPipe => last_pipe \notin X \cup Entries(pool)
      /\ fds \in Tables /\ pool \in Seq(UnixPipe) /\ first \in BOOLEAN /\ last_pipe \in UnixPipe
  BY <1>1 DEF PoolInv, Fronts, Waiting, LoopsOwn, PoolTypes
<1>3. NewPipe(fds, t, e) /\ t \in Tables
  BY <1>1, <1>2, MadeNew
<1>4. H \in SUBSET UnixPipe
  BY <1>2, HeldType
<1> HIDE DEF t, e
<1>5. H = X \cup Entries(pool) \cup {last_pipe}
  BY <1>1 DEF Held, Locals
<1> HIDE DEF H
<1>6. Tidy(t, H \cup {e}) /\ e \notin H /\ e # NoPipe /\ e \in UnixPipe
  BY <1>2, <1>3, <1>4, NewTidy
<1> DEFINE L == {last_pipe, e}
<1>7. /\ fds' \in Tables /\ pool' \in Seq(UnixPipe)
      /\ Tidy(fds', X \cup Entries(pool') \cup L)
      /\ Apart(pool', X) /\ Front(pool').w = Closed
      /\ \A p \in L : p # NoPipe => p \notin Entries(pool')
      /\ ~first => Front(pool') = NoPipe
  <2>1. H \cup {e} = X \cup Entries(pool) \cup L
    BY <1>5
  <2>2. L \in SUBSET UnixPipe /\ \A p \in L : p # NoPipe => p \notin Entries(pool)
    BY <1>2, <1>5, <1>6
  <2>3. Tidy(t, X \cup Entries(pool) \cup L)
    BY <1>6, <2>1, Zenon
  <2> HIDE DEF L
  <2>4. CASE first /\ fds' = CloseAll(t, ShiftCloses(pool)) /\ pool' = Shifted(pool)
    <3>1. PICK u, q : u = CloseAll(t, ShiftCloses(pool)) /\ q = Shifted(pool)
      OBVIOUS
    <3>2. Begun(X, L, u, q)
      <4>1. pool \in Seq(UnixPipe) /\ Apart(pool, X) /\ Front(pool) = NoPipe /\ t \in Tables
        BY <1>2, <1>3
      <4> QED
        BY ONLY <2>2, <2>3, <3>1, <4>1, X \in SUBSET UnixPipe, NoPipe \in X, ShiftedTidy
    <3> QED
      BY <2>4, <3>1, <3>2 DEF Begun
  <2>5. CASE ~first /\ fds' = t /\ pool' = pool
    BY <1>2, <1>3, <2>2, <2>3, <2>5, NoPipeType
  <2> QED
    BY <1>1, <2>4, <2>5
<1>8. PoolTypes'
  BY <1>1, <1>2, <1>6, <1>7 DEF PoolTypes
<1>9. Tidy(fds, Held(X))'
  <2>1. Held(X)' = X \cup Entries(pool') \cup L
    BY <1>1 DEF Held, Locals
  <2> QED
    BY <1>7, <2>1
<1>10. Fronts'
  BY <1>1, <1>2, <1>7 DEF Fronts
<1>11. Waiting' /\ Forking(X)'
  BY <1>1, <1>2 DEF Waiting, Unset, Forking
<1>12. LoopsOwn(X)'
  BY <1>1, <1>2, <1>5, <1>6, <1>7 DEF LoopsOwn
<1> QED
  BY <1>1, <1>2, <1>7, <1>8, <1>9, <1>10, <1>11, <1>12 DEF PoolInv

(* The pipes of the command are made, or found in the pool. *)
LEMMA MakePipesStep ==
  ASSUME NEW X \in SUBSET UnixPipe, NoPipe \in X, PoolInv(X), MakePipes
  PROVE  PoolInv(X)'
<1> DEFINE s == Head(line)
           H == Held(X)
<1>1. /\ pc = "made" /\ pc' = "forking" /\ Cardinality(FreeFds(fds)) >= 2 + 2
      /\ UNCHANGED <<line, pool, first, last_pipe, error_pipe>>
  BY DEF MakePipes, RoomFor
<1>2. /\ PoolTypes /\ Tidy(fds, H) /\ Apart(pool, X) /\ Sound(line) /\ Fronts /\ Unset /\ LoopsOwn(X)
      /\ fds \in Tables /\ pool \in Seq(UnixPipe) /\ line \in Seq(Stage) /\ line # <<>>
      /\ last_pipe \in UnixPipe /\ error_pipe \in UnixPipe
      /\ error_pipe # NoPipe /\ error_pipe \notin X \cup Entries(pool) \cup {last_pipe}
      /\ last_pipe # NoPipe => last_pipe \notin X \cup Entries(pool)
  BY <1>1 DEF PoolInv, Waiting, LoopsOwn, PoolTypes
<1>3. H \in SUBSET UnixPipe
  BY <1>2, HeldType
<1>4. H = X \cup Entries(pool) \cup {last_pipe, error_pipe}
  BY <1>1 DEF Held, Locals
<1>5. Fronts' /\ Waiting' /\ LoopsOwn(X)'
  BY <1>1, <1>2 DEF Fronts, Waiting, LoopsOwn
<1>6. Sound(line)' /\ Apart(pool, X)'
  BY <1>1, <1>2
<1>7. /\ s.next \in BOOLEAN
      /\ s.out \in {Closed} \cup (Nat \ {0}) /\ s.err \in {Closed} \cup (Nat \ {0})
      /\ s.out = s.err => s.out = Closed
  BY <1>2, LineHead
<1> HIDE DEF s, H
<1>8. CASE s.next
  <2> DEFINE t == Made(fds).fds
             p == Made(fds).pipe
  <2>1. /\ next_pipe' = p /\ fds' = t
        /\ UNCHANGED <<stdout_pipe, stdout_count, stderr_pipe, stderr_count>>
    BY <1>8 DEF MakePipes, s
  <2>2. NewPipe(fds, t, p) /\ t \in Tables
    BY <1>1, <1>2, MadeNew
  <2> HIDE DEF t, p
  <2>3. Tidy(t, H \cup {p}) /\ p \notin H /\ p # NoPipe /\ p \in UnixPipe
    BY <1>2, <1>3, <2>2, NewTidy
  <2>4. Held(X)' = H \cup {p}
    BY <1>1, <1>4, <1>8, <2>1 DEF Held, Locals, s
  <2>5. Tidy(fds, Held(X))'
    BY <2>1, <2>3, <2>4
  <2>6. PoolTypes'
    BY <1>1, <1>2, <2>1, <2>2, <2>3 DEF PoolTypes
  <2>7. Forking(X)'
    BY <1>1, <1>2, <1>4, <1>8, <2>1, <2>3 DEF Forking, Piped, Unset, s
  <2> QED
    BY <1>5, <1>6, <2>5, <2>6, <2>7 DEF PoolInv
<1>9. CASE ~s.next
  <2>0. PICK o, e : o = CreateNumberedPipe(fds, s.out) /\ e = CreateNumberedPipe(o.fds, s.err)
    OBVIOUS
  <2>1. /\ stdout_pipe' = IF s.out = Closed THEN stdout_pipe ELSE o.pipe
        /\ stdout_count' = IF s.out = Closed THEN stdout_count ELSE s.out
        /\ stderr_pipe' = IF s.err = Closed THEN stderr_pipe ELSE e.pipe
        /\ stderr_count' = IF s.err = Closed THEN stderr_count ELSE s.err
        /\ fds' = e.fds /\ next_pipe' = next_pipe
    BY <1>9, <2>0 DEF MakePipes, s
  <2>2. Entries(pool) \subseteq H /\ NoPipe \in H
    BY <1>4
  <2>3. /\ o.fds \in Tables /\ o.pipe \in UnixPipe /\ Tidy(o.fds, H \cup {o.pipe})
        /\ Cardinality(FreeFds(o.fds)) >= 2
        /\ Fits(pool, s.out, o.pipe)
        /\ o.pipe \notin H \/ o.pipe \in Entries(pool) \/ o.pipe = NoPipe
        /\ o.pipe = NoPipe => s.out = Closed
        /\ s.out # Closed /\ In(pool, s.out) => o.pipe = pool[s.out + 1]
        /\ s.out # Closed /\ ~In(pool, s.out) => o.pipe \notin H
    <3>1. /\ fds \in Tables /\ Tidy(fds, H) /\ pool \in Seq(UnixPipe) /\ Cardinality(FreeFds(fds)) >= 2
          /\ s.out \in {Closed} \cup (Nat \ {0})
      BY <1>1, <1>2, <1>7, FreeCounted
    <3>2. o = CreateNumberedPipe(fds, s.out)
      BY <2>0
    <3>3. Gives(fds, H, s.out, o)
      BY ONLY <1>3, <2>2, <3>1, <3>2, Created
    <3>4. Cardinality(FreeFds(fds)) \in Nat /\ Cardinality(FreeFds(o.fds)) \in Nat
      BY <3>1, <3>3, FreeCounted DEF Gives
    <3> QED
      BY <1>1, <3>3, <3>4 DEF Gives
  <2> DEFINE G == H \cup {o.pipe}
  <2>4. G \in SUBSET UnixPipe /\ NoPipe \in G /\ Entries(pool) \subseteq G
    BY <1>3, <2>2, <2>3
  <2> HIDE DEF G
  <2>5. /\ e.fds \in Tables /\ e.pipe \in UnixPipe /\ Tidy(e.fds, G \cup {e.pipe})
        /\ Fits(pool, s.err, e.pipe)
        /\ e.pipe \notin G \/ e.pipe \in Entries(pool) \/ e.pipe = NoPipe
        /\ e.pipe = NoPipe => s.err = Closed
        /\ s.err # Closed /\ In(pool, s.err) => e.pipe = pool[s.err + 1]
        /\ s.err # Closed /\ ~In(pool, s.err) => e.pipe \notin G
    <3>1. Tidy(o.fds, G)
      BY <2>3 DEF G
    <3>2. /\ o.fds \in Tables /\ pool \in Seq(UnixPipe)
          /\ Cardinality(FreeFds(o.fds)) >= 2 /\ s.err \in {Closed} \cup (Nat \ {0})
      BY <1>2, <1>7, <2>3
    <3>3. e = CreateNumberedPipe(o.fds, s.err)
      BY <2>0
    <3>4. Gives(o.fds, G, s.err, e)
      BY ONLY <2>4, <3>1, <3>2, <3>3, Created
    <3> QED
      BY <3>4 DEF Gives
  <2>6. /\ stdout_count' = s.out /\ stderr_count' = s.err
        /\ stdout_pipe' = o.pipe /\ stderr_pipe' = e.pipe
    BY <1>2, <2>1, <2>3, <2>5 DEF Unset, Fits
  <2>7. Held(X)' = G \cup {e.pipe}
    BY <1>1, <1>4, <1>9, <2>6 DEF Held, Locals, s, G
  <2>8. Tidy(fds, Held(X))'
    BY <2>1, <2>5, <2>7
  <2>9. PoolTypes'
    BY <1>1, <1>2, <2>1, <2>3, <2>5, <2>6 DEF PoolTypes
  <2>10. \A p \in Entries(pool) : p # NoPipe => p \notin X \cup {last_pipe, error_pipe}
    BY <1>2 DEF Apart, Entries
  <2>11. Sent(X, s.out, o.pipe) /\ Sent(X, s.err, e.pipe)
    BY <1>4, <2>3, <2>5, <2>10 DEF Sent, G
  <2>12. o.pipe # NoPipe => o.pipe # e.pipe
    <3> SUFFICES ASSUME o.pipe # NoPipe, o.pipe = e.pipe PROVE FALSE
      OBVIOUS
    <3>1. s.out # Closed /\ s.err # Closed /\ s.out # s.err
      BY <1>7, <2>3, <2>5 DEF Fits
    <3>2. e.pipe \in G
      BY DEF G
    <3>3. In(pool, s.err) /\ e.pipe = pool[s.err + 1] /\ e.pipe \in Entries(pool)
      BY <2>5, <3>1, <3>2
    <3>4. In(pool, s.out) /\ o.pipe = pool[s.out + 1]
      BY <2>2, <2>3, <3>1, <3>3
    <3>5. s.out + 1 \in 1 .. Len(pool) /\ s.err + 1 \in 1 .. Len(pool)
      BY <1>7, <3>1, <3>3, <3>4 DEF In
    <3>6. s.out + 1 = s.err + 1
      BY <1>2, <3>3, <3>4, <3>5 DEF Apart
    <3> QED
      BY <1>7, <3>1, <3>6
  <2>13. Sent(X, stdout_count, stdout_pipe)' /\ Sent(X, stderr_count, stderr_pipe)'
    BY <1>1, <2>6, <2>11 DEF Sent
  <2>14. Forking(X)'
    <3>1. Head(line)' = s
      BY <1>1 DEF s
    <3> QED
      BY <1>1, <1>9, <2>6, <2>12, <2>13, <3>1 DEF Forking, Numbered
  <2> QED
    BY <1>5, <1>6, <2>8, <2>9, <2>14 DEF PoolInv
<1> QED
  BY <1>7, <1>8, <1>9

(* The pipe a command reads from. *)
Source == IF first THEN Front(pool) ELSE last_pipe

(* u is t with the numbers of S closed. *)
Without(t, S, u) ==
  u \in Tables /\ \A n \in Fds : u[n] = IF n \in S THEN Free ELSE t[n]

(* CloseAll closes what it is given and nothing else. *)
LEMMA Closing ==
  ASSUME NEW t \in Tables, NEW S
  PROVE  Without(t, S, CloseAll(t, S))
<1>1. CloseAll(t, S) = [m \in Fds |-> IF m \in S THEN Free ELSE t[m]]
  BY DEF CloseAll, Tables
<1> QED
  BY <1>1 DEF Without, Tables, Ends

(* What is known of a state in which a command is about to run. *)
LEMMA AboutToRun ==
  ASSUME NEW X \in SUBSET UnixPipe, NoPipe \in X, PoolInv(X), pc = "forking"
  PROVE  /\ fds \in Tables /\ Tidy(fds, Held(X)) /\ Held(X) \in SUBSET UnixPipe
         /\ Source \in Held(X) /\ error_pipe \in Held(X) /\ last_pipe \in Held(X)
         /\ next_pipe \in UnixPipe /\ stdout_pipe \in UnixPipe /\ stderr_pipe \in UnixPipe
         /\ Good(fds, Source) /\ Good(fds, error_pipe)
         /\ Source.w = Closed \/ (~first /\ Source = last_pipe)
         /\ first \in BOOLEAN
<1>1. PoolTypes /\ Tidy(fds, Held(X)) /\ Fronts
  BY DEF PoolInv
<1>2. Held(X) \in SUBSET UnixPipe
  BY <1>1, HeldType
<1>3. error_pipe \in Held(X) /\ last_pipe \in Held(X) /\ Entries(pool) \subseteq Held(X) /\ NoPipe \in Held(X)
  BY DEF Held, Locals
<1>4. Front(pool) \in Held(X)
  <2>1. Front(pool) \in Entries(pool) \cup {NoPipe}
    <3>1. pool \in Seq(UnixPipe)
      BY <1>1 DEF PoolTypes
    <3> QED
      BY <3>1, FrontType
  <2> QED
    BY <1>3, <2>1
<1>5. Source \in Held(X)
  BY <1>3, <1>4 DEF Source
<1>6. Source.w = Closed \/ (~first /\ Source = last_pipe)
  BY <1>1 DEF Source, Fronts
<1> QED
  BY <1>1, <1>2, <1>3, <1>5, <1>6 DEF PoolTypes, Tidy

(* What the child has open besides its own ends, and the shell while it    *)
(* waits: ends of fds.                                                     *)
LEMMA ChildTable ==
  ASSUME NEW X \in SUBSET UnixPipe, NoPipe \in X, PoolInv(X), pc = "forking"
  PROVE  /\ ChildFds \in Tables /\ ExecFds \in Tables /\ WaitFds \in Tables
         /\ \A n \in Fds : ChildFds[n] # Free => ChildFds[n] = fds[n] /\ n # last_pipe.w /\ n # error_pipe.r
         /\ \A n \in Fds : ExecFds[n] # Free => ExecFds[n] = fds[n] /\ n # Source.w
         /\ \A n \in Fds : WaitFds[n] # Free =>
              WaitFds[n] = fds[n] /\ n \notin FdsOf(last_pipe) \cup {error_pipe.w}
         /\ ErrorEnd.end = "r" => error_pipe.r \in Fds /\ ErrorEnd = fds[error_pipe.r]
         /\ Stdin.end = "r" => Source.r \in Fds /\ Stdin = fds[Source.r]
<1>1. /\ fds \in Tables /\ error_pipe \in UnixPipe /\ Source \in UnixPipe
      /\ Source.w = Closed \/ (~first /\ Source = last_pipe)
      /\ first \in BOOLEAN
  BY AboutToRun
<1>2. /\ error_pipe.r \in Fds \cup {Closed} /\ error_pipe.w \in Fds \cup {Closed}
      /\ Source.r \in Fds \cup {Closed} /\ Closed \notin Fds
      /\ Free.end = "none"
  BY <1>1 DEF UnixPipe, Fds, Closed, Free
<1>3. /\ ChildFds \in Tables
      /\ \A n \in Fds : ChildFds[n] # Free => ChildFds[n] = fds[n] /\ n # last_pipe.w /\ n # error_pipe.r
  <2>1. Without(fds, {last_pipe.w, error_pipe.r}, ChildFds)
    BY <1>1, Closing DEF ChildFds
  <2> QED
    BY <1>2, <2>1 DEF Without
<1>4. /\ WaitFds \in Tables
      /\ \A n \in Fds : WaitFds[n] # Free =>
           WaitFds[n] = fds[n] /\ n \notin FdsOf(last_pipe) \cup {error_pipe.w}
      /\ Behind(WaitFds, error_pipe.r).end # "none" =>
           error_pipe.r \in Fds /\ Behind(WaitFds, error_pipe.r) = fds[error_pipe.r]
  <2>1. Without(fds, FdsOf(last_pipe) \cup {error_pipe.w}, WaitFds)
    BY <1>1, Closing DEF WaitFds
  <2>2. \A n \in Fds : WaitFds[n] # Free =>
          WaitFds[n] = fds[n] /\ n \notin FdsOf(last_pipe) \cup {error_pipe.w}
    BY <2>1 DEF Without
  <2> QED
    BY <1>2, <2>1, <2>2 DEF Without, Behind
<1>5. ExecFds \in Tables /\ \A n \in Fds : ExecFds[n] # Free => ExecFds[n] = ChildFds[n]
  <2>1. PICK S : ExecFds = CloseAll(ChildFds, S)
    BY DEF ExecFds
  <2>2. Without(ChildFds, S, ExecFds)
    BY <1>3, <2>1, Closing
  <2> QED
    BY <2>2 DEF Without
<1>6. \A n \in Fds : ExecFds[n] # Free => ExecFds[n] = fds[n] /\ n # Source.w
  BY <1>1, <1>2, <1>3, <1>5
<1>7. Stdin.end # "none" => Source.r \in Fds /\ Stdin = fds[Source.r]
  <2>1. CASE first
    <3>1. PICK u : u = CloseAll(ChildFds, {Front(pool).w}) /\ Without(ChildFds, {Front(pool).w}, u)
      BY <1>3, Closing
    <3>2. Stdin = Behind(u, Source.r)
      BY <2>1, <3>1 DEF Stdin, Source
    <3>3. Stdin.end # "none" => Source.r \in Fds /\ Stdin = ChildFds[Source.r]
      BY <1>2, <1>3, <3>1, <3>2 DEF Behind, Without
    <3> QED
      BY <1>2, <1>3, <3>3
  <2>2. CASE ~first
    <3>1. Stdin = Behind(ChildFds, Source.r)
      BY <2>2 DEF Stdin, Source
    <3>2. Stdin.end # "none" => Source.r \in Fds /\ Stdin = ChildFds[Source.r]
      BY <1>2, <3>1 DEF Behind
    <3> QED
      BY <1>2, <1>3, <3>2
  <2> QED
    BY <2>1, <2>2
<1> QED
  BY <1>3, <1>4, <1>5, <1>6, <1>7 DEF ErrorEnd

(* A pipe the child writes to: its writing end is open, and named by what  *)
(* the line has made for output or messages.                               *)
LEMMA WrittenPipe ==
  ASSUME NEW X \in SUBSET UnixPipe, NoPipe \in X, PoolInv(X), pc = "forking", NEW i \in Written
  PROVE  \E p \in IF Head(line).next THEN {next_pipe, stderr_pipe} ELSE {stdout_pipe, stderr_pipe} :
           /\ p.w \in Fds /\ fds[p.w].end = "w" /\ fds[p.w].pipe = i
           /\ p.w # last_pipe.w /\ p.w # error_pipe.r
<1>1. /\ next_pipe.w \in Fds \cup {Closed} /\ stdout_pipe.w \in Fds \cup {Closed}
      /\ stderr_pipe.w \in Fds \cup {Closed} /\ Free.end = "none"
  BY AboutToRun DEF UnixPipe, Free
<1>2. \A n \in Fds : ChildFds[n] # Free => ChildFds[n] = fds[n] /\ n # last_pipe.w /\ n # error_pipe.r
  BY ChildTable
<1>3. ASSUME NEW n \in Fds \cup {Closed}, i \in Into(Behind(ChildFds, n))
      PROVE  n \in Fds /\ fds[n].end = "w" /\ fds[n].pipe = i /\ n # last_pipe.w /\ n # error_pipe.r
  <2>1. Behind(ChildFds, n).end = "w" /\ Behind(ChildFds, n).pipe = i
    BY <1>3 DEF Into
  <2>2. n # Closed /\ Behind(ChildFds, n) = ChildFds[n]
    BY <1>1, <2>1 DEF Behind
  <2> QED
    BY <1>1, <1>2, <2>1, <2>2
<1>4. CASE i \in Into(Stderr)
  BY <1>1, <1>3, <1>4 DEF Stderr
<1>5. CASE i \in Into(Stdout)
  <2>1. CASE Head(line).next
    BY <1>1, <1>3, <1>5, <2>1 DEF Stdout
  <2>2. CASE ~Head(line).next
    BY <1>1, <1>3, <1>5, <2>2 DEF Stdout
  <2> QED
    BY <2>1, <2>2
<1> QED
  BY <1>4, <1>5 DEF Written

(* Neither the command nor the shell that waits for it reads a pipe whose  *)
(* writing end is left open by itself.                                     *)
LEMMA NeverStuck ==
  ASSUME NEW X \in SUBSET UnixPipe, NoPipe \in X, PoolInv(X), pc = "forking"
  PROVE  ~NeverEnds
<1>1. /\ Good(fds, Source) /\ Good(fds, error_pipe)
      /\ Source.w = Closed \/ Source = last_pipe
      /\ Source \in UnixPipe
  BY AboutToRun
<1>2. Closed \notin Fds /\ \A i : [pipe |-> i, end |-> "w"] # Free
  BY DEF Fds, Closed, Free
<1>3. CASE ErrorEnd.end = "r" /\ HasWriter(WaitFds, ErrorEnd.pipe)
  <2>1. error_pipe.r \in Fds /\ ErrorEnd = fds[error_pipe.r] /\ fds[error_pipe.r].end = "r"
    BY <1>3, ChildTable
  <2>2. PICK n \in Fds : WaitFds[n] = [pipe |-> fds[error_pipe.r].pipe, end |-> "w"]
    <3>1. DOMAIN WaitFds = Fds
      BY ChildTable DEF Tables
    <3> QED
      BY <1>3, <2>1, <3>1 DEF HasWriter
  <2>3. fds[n].pipe = fds[error_pipe.r].pipe /\ fds[n].end = "w" /\ n # error_pipe.w
    <3>1. WaitFds[n] # Free
      BY <1>2, <2>2
    <3>2. WaitFds[n] = fds[n] /\ n # error_pipe.w
      BY <3>1, ChildTable
    <3> QED
      BY <2>2, <3>2
  <2>4. n \in FdsOf(error_pipe)
    BY <1>1, <1>2, <2>1, <2>3 DEF Good
  <2> QED
    BY <2>1, <2>3, <2>4 DEF FdsOf
<1>4. CASE /\ Stdin.end = "r"
           /\ \/ HasWriter(ExecFds, Stdin.pipe) \/ HasWriter(WaitFds, Stdin.pipe)
              \/ Stdin.pipe \in Written
  <2>1. Source.r \in Fds /\ Stdin = fds[Source.r] /\ fds[Source.r].end = "r"
    BY <1>4, ChildTable
  <2>2. \A n \in Fds : fds[n].pipe = fds[Source.r].pipe /\ fds[n].end = "w" => n = Source.w /\ Source.w # Closed
    BY <1>1, <1>2, <2>1 DEF Good, FdsOf
  <2>3. ~HasWriter(ExecFds, Stdin.pipe)
    <3> SUFFICES ASSUME HasWriter(ExecFds, Stdin.pipe) PROVE FALSE
      OBVIOUS
    <3>1. DOMAIN ExecFds = Fds
      BY ChildTable DEF Tables
    <3>2. PICK n \in Fds : ExecFds[n] = [pipe |-> fds[Source.r].pipe, end |-> "w"]
      BY <2>1, <3>1 DEF HasWriter
    <3>3. ExecFds[n] # Free
      BY <1>2, <3>2
    <3>4. ExecFds[n] = fds[n] /\ n # Source.w
      BY <3>3, ChildTable
    <3> QED
      BY <2>2, <3>2, <3>4
  <2>4. ~HasWriter(WaitFds, Stdin.pipe)
    <3> SUFFICES ASSUME HasWriter(WaitFds, Stdin.pipe) PROVE FALSE
      OBVIOUS
    <3>1. DOMAIN WaitFds = Fds
      BY ChildTable DEF Tables
    <3>2. PICK n \in Fds : WaitFds[n] = [pipe |-> fds[Source.r].pipe, end |-> "w"]
      BY <2>1, <3>1 DEF HasWriter
    <3>3. WaitFds[n] # Free
      BY <1>2, <3>2
    <3>4. WaitFds[n] = fds[n] /\ n \notin FdsOf(last_pipe)
      BY <3>3, ChildTable
    <3>5. n = Source.w /\ Source.w # Closed
      BY <2>2, <3>2, <3>4
    <3> QED
      BY <1>1, <3>4, <3>5 DEF FdsOf
  <2>5. Stdin.pipe \notin Written
    <3> SUFFICES ASSUME Stdin.pipe \in Written PROVE FALSE
      OBVIOUS
    <3>1. PICK p : p.w \in Fds /\ fds[p.w].end = "w" /\ fds[p.w].pipe = Stdin.pipe /\ p.w # last_pipe.w
      BY WrittenPipe
    <3>2. p.w = Source.w /\ Source.w # Closed
      BY <2>1, <2>2, <3>1
    <3> QED
      BY <1>1, <3>1, <3>2
  <2> QED
    BY <1>4, <2>3, <2>4, <2>5
<1> QED
  BY <1>3, <1>4 DEF NeverEnds

(* A command that exists reports nothing on the error pipe: it has no      *)
(* output there.                                                           *)
LEMMA NothingReported ==
  ASSUME NEW X \in SUBSET UnixPipe, NoPipe \in X, PoolInv(X), pc = "forking", Head(line).known
  PROVE  ~Reported
<1> SUFFICES ASSUME Reported PROVE FALSE
  OBVIOUS
<1>1. ErrorEnd.end = "r" /\ ErrorEnd.pipe \in Written
  BY DEF Reported
<1>2. error_pipe.r \in Fds /\ ErrorEnd = fds[error_pipe.r] /\ fds[error_pipe.r].end = "r"
  BY <1>1, ChildTable
<1>3. PICK p \in IF Head(line).next THEN {next_pipe, stderr_pipe} ELSE {stdout_pipe, stderr_pipe} :
        p.w \in Fds /\ fds[p.w].end = "w" /\ fds[p.w].pipe = fds[error_pipe.r].pipe
  BY <1>1, <1>2, WrittenPipe
<1>4. Closed \notin Fds
  BY DEF Fds, Closed
<1>5. p # NoPipe
  BY <1>3, <1>4, NoPipeType
<1>6. p \in Held(X)
  <2>1. CASE Head(line).next
    <3>1. stderr_pipe = NoPipe
      BY <2>1 DEF PoolInv, Forking, Piped, Unset
    <3> QED
      BY <1>3, <1>5, <2>1, <3>1 DEF Held, Locals
  <2>2. CASE ~Head(line).next
    BY <1>3, <2>2 DEF Held, Locals
  <2> QED
    BY <2>1, <2>2
<1>7. p # error_pipe
  <2>1. CASE Head(line).next
    BY <1>3, <1>5, <2>1 DEF PoolInv, Forking, Piped, Unset
  <2>2. CASE ~Head(line).next
    BY <1>3, <1>5, <2>2 DEF PoolInv, Forking, Numbered, Sent
  <2> QED
    BY <2>1, <2>2
<1>8. p.w \in FdsOf(error_pipe)
  <2>1. Good(fds, error_pipe)
    BY AboutToRun
  <2> QED
    BY <1>2, <1>3, <1>4, <2>1 DEF Good
<1>9. FdsOf(p) \cap FdsOf(error_pipe) # {}
  BY <1>3, <1>4, <1>8 DEF FdsOf
<1> QED
  BY <1>6, <1>7, <1>9, AboutToRun, OneOwner

(* Closing one set, then another, is closing both. *)
LEMMA CloseTwice ==
  ASSUME NEW t \in Tables, NEW S, NEW T, NEW U, \A n \in Fds : n \in U <=> n \in S \/ n \in T
  PROVE  CloseAll(CloseAll(t, S), T) = CloseAll(t, U)
<1>1. DOMAIN t = Fds
  BY DEF Tables
<1>2. CloseAll(t, S) = [n \in Fds |-> IF n \in S THEN Free ELSE t[n]]
  BY <1>1 DEF CloseAll
<1>3. CloseAll(CloseAll(t, S), T) = [n \in Fds |-> IF n \in T THEN Free ELSE CloseAll(t, S)[n]]
  BY <1>2 DEF CloseAll
<1>4. CloseAll(t, U) = [n \in Fds |-> IF n \in U THEN Free ELSE t[n]]
  BY <1>1 DEF CloseAll
<1> QED
  BY <1>2, <1>3, <1>4

(* "restore pipe" *)
LEMMA RestoredPool ==
  ASSUME NEW pl \in Seq(UnixPipe), NEW X, Apart(pl, X), NEW q, q = <<NoPipe>> \o pl
  PROVE  /\ q \in Seq(UnixPipe) /\ Front(q) = NoPipe /\ Apart(q, X)
         /\ Entries(q) = Entries(pl) \cup {NoPipe}
<1>1. /\ q \in Seq(UnixPipe) /\ Len(q) = Len(pl) + 1 /\ q[1] = NoPipe
      /\ \A n \in 2 .. Len(q) : q[n] = pl[n - 1] /\ n - 1 \in 1 .. Len(pl)
  BY NoPipeType
<1>2. Len(pl) \in Nat /\ q # <<>>
  BY <1>1
<1>3. Front(q) = NoPipe
  BY <1>1, <1>2 DEF Front
<1>4. \A n \in 1 .. Len(q) : n = 1 \/ n \in 2 .. Len(q)
  BY <1>1, <1>2
<1>5. Apart(q, X)
  <2>1. ASSUME NEW n \in 1 .. Len(q), q[n] # NoPipe
        PROVE  n \in 2 .. Len(q) /\ q[n] \notin X
    BY <1>1, <1>4, <2>1 DEF Apart
  <2>2. ASSUME NEW n \in 1 .. Len(q), NEW m \in 1 .. Len(q), q[n] = q[m], q[n] # NoPipe
        PROVE  n = m
    <3>1. n \in 2 .. Len(q) /\ m \in 2 .. Len(q)
      BY <2>1, <2>2
    <3>2. n - 1 = m - 1
      BY <1>1, <2>2, <3>1 DEF Apart
    <3> QED
      BY <3>1, <3>2
  <2> QED
    BY <2>1, <2>2 DEF Apart
<1>6. Entries(q) = Entries(pl) \cup {NoPipe}
  <2>1. \A n \in 1 .. Len(q) : q[n] \in Entries(pl) \cup {NoPipe}
    BY <1>1, <1>4 DEF Entries
  <2>2. ASSUME NEW n \in 1 .. Len(pl)
        PROVE  pl[n] \in Entries(q)
    <3>1. n + 1 \in 2 .. Len(q) /\ n + 1 \in 1 .. Len(q) /\ (n + 1) - 1 = n
      BY <1>1, <1>2
    <3>2. q[n + 1] = pl[n]
      BY <1>1, <3>1
    <3> QED
      BY <3>1, <3>2 DEF Entries
  <2>3. NoPipe \in Entries(q)
    <3>1. 1 \in 1 .. Len(q)
      BY <1>1, <1>2
    <3> QED
      BY <1>1, <3>1 DEF Entries
  <2>4. Entries(q) \subseteq Entries(pl) \cup {NoPipe}
    BY <2>1 DEF Entries
  <2>5. Entries(pl) \subseteq Entries(q)
    BY <2>2 DEF Entries
  <2> QED
    BY <2>3, <2>4, <2>5
<1> QED
  BY <1>1, <1>3, <1>5, <1>6

(* The pipes of a line that has run go, those of C. *)
LEMMA Swept ==
  ASSUME NEW X \in SUBSET UnixPipe, NoPipe \in X, PoolInv(X), pc = "forking",
         NEW C \in SUBSET Held(X), {last_pipe, error_pipe} \subseteq C,
         NEW S, \A n \in Fds : n \in Named(C) <=>
                  n \in FdsOf(last_pipe) \cup FdsOf(error_pipe) \/ n \in S \ {error_pipe.r},
         error_pipe.r \in S
  PROVE  /\ CloseAll(WaitFds, S) \in Tables
         /\ Tidy(CloseAll(WaitFds, S), (Held(X) \ C) \cup {NoPipe})
<1>1. fds \in Tables /\ Tidy(fds, Held(X)) /\ Held(X) \in SUBSET UnixPipe
  BY AboutToRun
<1>2. Closed \notin Fds
  BY DEF Fds, Closed
<1>3. \A n \in Fds : n \in Named(C) <=> n \in FdsOf(last_pipe) \cup {error_pipe.w} \/ n \in S
  BY <1>2 DEF FdsOf
<1>4. CloseAll(WaitFds, S) = CloseAll(fds, Named(C))
  BY <1>1, <1>3, CloseTwice DEF WaitFds
<1>5. CloseAll(fds, Named(C)) \in Tables /\ Tidy(CloseAll(fds, Named(C)), Held(X) \ C)
  BY <1>1, CloseTidy
<1>6. Held(X) \ C \in SUBSET UnixPipe
  BY <1>1
<1> QED
  BY <1>4, <1>5, <1>6, NoPipeTidy

(* A command that could not be run: the error path of run_shell. *)
LEMMA FailStep ==
  ASSUME NEW X \in SUBSET UnixPipe, NoPipe \in X, PoolInv(X), Fail
  PROVE  PoolInv(X)'
<1>1. /\ pc = "forking" /\ Reported
      /\ fds' = CloseAll(WaitFds, {error_pipe.r} \cup FdsOf(stdout_pipe))
      /\ pool' = IF first THEN <<NoPipe>> \o pool ELSE pool
      /\ line' = <<>> /\ pc' = "cut"
      /\ last_pipe' = IF Head(line).next THEN next_pipe ELSE NoPipe
      /\ UNCHANGED <<first, next_pipe, error_pipe>>
      /\ UNCHANGED <<stdout_pipe, stdout_count, stderr_pipe, stderr_count>>
  BY DEF Fail, Ran
<1>2. /\ PoolTypes /\ Sound(line) /\ Apart(pool, X) /\ Fronts /\ LoopsOwn(X) /\ Forking(X)
      /\ line \in Seq(Stage) /\ line # <<>> /\ pool \in Seq(UnixPipe) /\ first \in BOOLEAN
  BY <1>1 DEF PoolInv, PoolTypes, LoopsOwn
<1>3. ~Head(line).known /\ ~Head(line).next /\ Head(line).out = Closed /\ Head(line).err = Closed
  BY <1>1, <1>2, NothingReported, LineHead
<1>4. Unset /\ last_pipe' = NoPipe
  BY <1>1, <1>2, <1>3 DEF Forking, Numbered, Sent, Fits, Unset
<1> DEFINE C == {last_pipe, error_pipe}
           S == {error_pipe.r} \cup FdsOf(stdout_pipe)
<1>5. Held(X) = X \cup Entries(pool) \cup C
  BY <1>1, <1>3, <1>4 DEF Held, Locals, Unset
<1>6. fds' \in Tables /\ Tidy(fds', (Held(X) \ C) \cup {NoPipe})
  <2>1. C \in SUBSET Held(X) /\ error_pipe.r \in S
    BY <1>5
  <2>2. S = {error_pipe.r}
    BY <1>4, NoPipeNames DEF Unset
  <2>3. \A n \in Fds : n \in Named(C) <=>
          n \in FdsOf(last_pipe) \cup FdsOf(error_pipe) \/ n \in S \ {error_pipe.r}
    BY <2>2 DEF Named
  <2>4. fds' = CloseAll(WaitFds, S) /\ {last_pipe, error_pipe} \subseteq C
    BY <1>1
  <2> HIDE DEF C, S
  <2> QED
    BY <1>1, <2>1, <2>3, <2>4, Swept
<1>7. /\ pool' \in Seq(UnixPipe) /\ Apart(pool', X) /\ Front(pool') = NoPipe
      /\ Entries(pool') \cup {NoPipe} = Entries(pool) \cup {NoPipe}
  <2>1. CASE first
    <3>1. pool' = <<NoPipe>> \o pool
      BY <1>1, <2>1
    <3>2. /\ pool' \in Seq(UnixPipe) /\ Apart(pool', X) /\ Front(pool') = NoPipe
          /\ Entries(pool') = Entries(pool) \cup {NoPipe}
      BY <1>2, <3>1, RestoredPool
    <3> QED
      BY <3>2
  <2>2. CASE ~first
    BY <1>1, <1>2, <2>2 DEF Fronts
  <2> QED
    BY <2>1, <2>2
<1>8. Held(X)' = (Held(X) \ C) \cup {NoPipe}
  <2>1. Held(X)' = X \cup Entries(pool') \cup {NoPipe}
    BY <1>1, <1>4 DEF Held, Locals
  <2>2. \A p \in X \cup Entries(pool) : p # NoPipe => p \notin C
    BY <1>1, <1>2 DEF LoopsOwn
  <2> QED
    BY <1>5, <1>7, <2>1, <2>2
<1>9. PoolTypes'
  BY <1>1, <1>2, <1>4, <1>6, <1>7, NoPipeType DEF PoolTypes
<1>10. Tidy(fds, Held(X))'
  BY <1>6, <1>8
<1>11. Fronts' /\ Waiting' /\ LoopsOwn(X)' /\ Forking(X)'
  BY <1>1, <1>4, <1>7, NoPipeType DEF Fronts, Waiting, LoopsOwn, Forking
<1>12. Sound(line)'
  BY <1>1 DEF Sound
<1> QED
  BY <1>7, <1>9, <1>10, <1>11, <1>12 DEF PoolInv

(* The pool after the front was read, after the output's pipe was recorded *)
(* and after the messages' was.                                            *)
Recorded(X, p1, p2, q) ==
  /\ p1 \in Seq(UnixPipe) /\ Len(p1) = Len(pool) /\ \A n \in 2 .. Len(pool) : p1[n] = pool[n]
  /\ Front(p1) = NoPipe
  /\ Entries(p1) \cup {NoPipe} = (Entries(pool) \ {Front(pool)}) \cup {NoPipe}
  /\ stdout_count \in {Closed} \cup (Nat \ {0}) /\ stderr_count \in {Closed} \cup (Nat \ {0})
  /\ stdout_count = stderr_count => stdout_count = Closed
  /\ Fits(p1, stdout_count, stdout_pipe) /\ Grown(p1, X, stdout_count, stdout_pipe, p2)
  /\ Fits(p2, stderr_count, stderr_pipe) /\ Grown(p2, X, stderr_count, stderr_pipe, q)

(* record_pipe_info for the two numbers of the command. *)
LEMMA Recording ==
  ASSUME NEW X \in SUBSET UnixPipe, NoPipe \in X, PoolInv(X), pc = "forking",
         NEW p1, p1 = IF first THEN FrontClosed(pool) ELSE pool,
         NEW p2, p2 = RecordPipeInfo(p1, stdout_count, stdout_pipe),
         NEW q, q = RecordPipeInfo(p2, stderr_count, stderr_pipe)
  PROVE  Recorded(X, p1, p2, q)
<1> DEFINE f == Front(pool)
           E == Entries(pool)
           so == stdout_pipe
           se == stderr_pipe
           o == stdout_count
           e == stderr_count
<1>1. /\ Apart(pool, X) /\ Fronts /\ Forking(X) /\ pool \in Seq(UnixPipe) /\ first \in BOOLEAN
      /\ line \in Seq(Stage) /\ line # <<>> /\ Sound(line)
      /\ so \in UnixPipe /\ se \in UnixPipe
  BY DEF PoolInv, PoolTypes, LoopsOwn
<1>2. pool # <<>> => f = pool[1] /\ 1 \in 1 .. Len(pool)
  BY <1>1, FrontType
<1>3. /\ p1 \in Seq(UnixPipe) /\ Apart(p1, X) /\ Front(p1) = NoPipe
      /\ Entries(p1) \cup {NoPipe} = (E \ {f}) \cup {NoPipe}
      /\ Len(p1) = Len(pool) /\ \A n \in 2 .. Len(pool) : p1[n] = pool[n]
  <2>1. CASE first
    <3>1. p1 = FrontClosed(pool)
      BY <2>1
    <3> QED
      BY <1>1, <3>1, FrontClosedPool
  <2>2. CASE ~first
    BY <1>1, <1>2, <2>2 DEF Fronts
  <2> QED
    BY <1>1, <2>1, <2>2
<1>4. /\ o \in {Closed} \cup (Nat \ {0}) /\ e \in {Closed} \cup (Nat \ {0})
      /\ o = e => o = Closed
      /\ Fits(pool, o, so) /\ Fits(pool, e, se)
      /\ so \notin X \/ so = NoPipe
      /\ se \notin X \/ se = NoPipe
      /\ so # NoPipe => so # se
  <2>1. CASE Head(line).next
    BY <1>1, <2>1 DEF Forking, Piped, Unset, Fits
  <2>2. CASE ~Head(line).next
    BY <1>1, <2>2, LineHead DEF Forking, Numbered, Sent
  <2> QED
    BY <2>1, <2>2
<1> HIDE DEF so, se, o, e
<1>5. \A n \in Nat \ {0} : (In(p1, n) <=> In(pool, n)) /\ (In(pool, n) => p1[n + 1] = pool[n + 1])
  <2> TAKE n \in Nat \ {0}
  <2>1. n < Len(pool) => n + 1 \in 2 .. Len(pool)
    BY <1>1
  <2> QED
    BY <1>3, <2>1 DEF In
<1>6. \A p : p # NoPipe /\ p \notin E => p \notin Entries(p1)
  BY <1>3
<1>7. ASSUME NEW n \in {Closed} \cup (Nat \ {0}), NEW p, Fits(pool, n, p)
      PROVE  Fits(p1, n, p)
  BY <1>5, <1>6, <1>7 DEF Fits
<1>8. Fits(p1, o, so) /\ Fits(p1, e, se)
  BY <1>4, <1>7
<1>9. Grown(p1, X, o, so, p2)
  <2>1. p2 = RecordPipeInfo(p1, o, so) /\ so \in UnixPipe
    BY <1>1 DEF o, so
  <2> QED
    BY <1>3, <1>4, <1>8, <2>1, RecordedPool
<1>10. /\ p2 \in Seq(UnixPipe) /\ Apart(p2, X)
       /\ Entries(p2) \cup {NoPipe} = Entries(p1) \cup {so, NoPipe}
       /\ \A m \in Nat \ {0, o} : (In(p2, m) <=> In(p1, m)) /\ (In(p1, m) => p2[m + 1] = p1[m + 1])
  BY ONLY <1>9 DEF Grown
<1>11. Fits(p2, e, se)
  <2>1. CASE e = Closed
    BY <1>4, <2>1 DEF Fits
  <2>2. CASE e # Closed
    <3>1. e \in Nat \ {0, o} /\ se # NoPipe /\ se # so
      BY <1>4, <2>2 DEF Fits
    <3>2. ~In(p1, e) => se \notin Entries(p2)
      BY <1>8, <1>10, <2>2, <3>1 DEF Fits
    <3> QED
      BY <1>8, <1>10, <2>2, <3>1, <3>2 DEF Fits
  <2> QED
    BY <2>1, <2>2
<1>12. Grown(p2, X, e, se, q)
  <2>1. q = RecordPipeInfo(p2, e, se) /\ se \in UnixPipe
    BY <1>1 DEF e, se
  <2> QED
    BY <1>4, <1>10, <1>11, <2>1, RecordedPool
<1> QED
  BY <1>3, <1>4, <1>8, <1>9, <1>11, <1>12 DEF Recorded, o, e, so, se

(* A command that was run: its pipes are recorded, the others closed. *)
LEMMA SucceedStep ==
  ASSUME NEW X \in SUBSET UnixPipe, NoPipe \in X, PoolInv(X), Succeed
  PROVE  PoolInv(X)'
<1> DEFINE front == IF first THEN FdsOf(Front(pool)) ELSE {}
           f == Front(pool)
<1>0. PICK p1, p2 : /\ p1 = IF first THEN FrontClosed(pool) ELSE pool
                    /\ p2 = RecordPipeInfo(p1, stdout_count, stdout_pipe)
  OBVIOUS
<1>1. /\ pc = "forking" /\ first' = FALSE /\ line' = Tail(line) /\ pc' = "cut"
      /\ fds' = CloseAll(WaitFds, front \cup {error_pipe.r})
      /\ pool' = RecordPipeInfo(p2, stderr_count, stderr_pipe)
      /\ last_pipe' = IF Head(line).next THEN next_pipe ELSE NoPipe
      /\ UNCHANGED <<next_pipe, error_pipe, stdout_pipe, stdout_count, stderr_pipe, stderr_count>>
  BY <1>0 DEF Succeed, Ran
<1>2. /\ PoolTypes /\ Sound(line) /\ Apart(pool, X) /\ Fronts /\ LoopsOwn(X) /\ Forking(X)
      /\ line \in Seq(Stage) /\ line # <<>> /\ pool \in Seq(UnixPipe) /\ first \in BOOLEAN
      /\ stdout_pipe \in UnixPipe /\ stderr_pipe \in UnixPipe /\ next_pipe \in UnixPipe
  BY <1>1 DEF PoolInv, PoolTypes, LoopsOwn
<1>3. /\ f \in UnixPipe /\ (f # NoPipe => f \in Entries(pool) /\ f = pool[1] /\ pool # <<>> /\ first)
      /\ pool # <<>> => f = pool[1] /\ 1 \in 1 .. Len(pool)
  BY <1>1, <1>2, FrontType DEF Fronts
<1> DEFINE E == Entries(pool)
           N == IF Head(line).next THEN {next_pipe} ELSE {stdout_pipe, stderr_pipe}
           C == {last_pipe, error_pipe} \cup (IF first THEN {f} ELSE {})
<1>4. Held(X) = X \cup E \cup {last_pipe, error_pipe} \cup N
  BY <1>1 DEF Held, Locals
<1>5. /\ \A p \in X \cup E : p # NoPipe => p # last_pipe /\ p # error_pipe
      /\ \A p \in X : p # NoPipe => p \notin E
      /\ \A p \in N : p # NoPipe => p # last_pipe /\ p # error_pipe /\ p # f /\ p \notin X
  <2>1. /\ last_pipe # NoPipe => last_pipe \notin X \cup E
        /\ error_pipe \notin X \cup E
    BY <1>1, <1>2 DEF LoopsOwn
  <2>2. \A p \in X : p # NoPipe => p \notin E
    BY <1>2 DEF Apart, Entries
  <2>3. ASSUME NEW n \in {Closed} \cup (Nat \ {0}), NEW p, Sent(X, n, p), p # NoPipe
        PROVE  p # last_pipe /\ p # error_pipe /\ p # f /\ p \notin X
    <3>1. p \notin X \cup {last_pipe, error_pipe} /\ Fits(pool, n, p) /\ n # Closed /\ n \in Nat \ {0}
      BY <2>3 DEF Sent, Fits
    <3>2. p # f
      <4>1. CASE In(pool, n)
        <5>1. p = pool[n + 1] /\ n + 1 \in 1 .. Len(pool) /\ n + 1 # 1
          BY <3>1, <4>1 DEF Fits, In
        <5>2. pool[1] # p
          <6>1. 1 \in 1 .. Len(pool)
            BY <1>2, <3>1, <5>1
          <6> QED
            BY <1>2, <2>3, <5>1, <6>1 DEF Apart
        <5> QED
          BY <1>3, <2>3, <5>2
      <4>2. CASE ~In(pool, n)
        <5>1. p \notin E
          BY <3>1, <4>2 DEF Fits
        <5> QED
          BY <1>3, <2>3, <5>1
      <4> QED
        BY <4>1, <4>2
    <3> QED
      BY <3>1, <3>2
  <2>4. \A p \in N : p # NoPipe => p # last_pipe /\ p # error_pipe /\ p # f /\ p \notin X
    <3>1. CASE Head(line).next
      <4>1. next_pipe # NoPipe /\ next_pipe \notin X \cup E \cup {last_pipe, error_pipe}
        BY <1>1, <1>2, <3>1 DEF Forking, Piped
      <4> QED
        BY <1>3, <3>1, <4>1
    <3>2. CASE ~Head(line).next
      <4>1. /\ Sent(X, Head(line).out, stdout_pipe) /\ Sent(X, Head(line).err, stderr_pipe)
            /\ Head(line).out \in {Closed} \cup (Nat \ {0})
            /\ Head(line).err \in {Closed} \cup (Nat \ {0})
        BY <1>1, <1>2, <3>2, LineHead DEF Forking, Numbered
      <4> HIDE DEF f
      <4> QED
        BY <2>3, <3>2, <4>1
    <3> QED
      BY <3>1, <3>2
  <2> QED
    BY <2>1, <2>2, <2>4
<1>6. fds' \in Tables /\ Tidy(fds', (Held(X) \ C) \cup {NoPipe})
  <2> DEFINE S == front \cup {error_pipe.r}
  <2>1. C \in SUBSET Held(X) /\ error_pipe.r \in S /\ {last_pipe, error_pipe} \subseteq C
    <3>1. f \in Held(X)
      <4>1. f \in E \cup {NoPipe}
        BY <1>3
      <4> QED
        BY <1>4, <4>1
    <3> QED
      BY <1>4, <3>1
  <2>2. \A n \in Fds : n \in Named(C) <=>
          n \in FdsOf(last_pipe) \cup FdsOf(error_pipe) \/ n \in S \ {error_pipe.r}
    <3>1. Named(C) = FdsOf(last_pipe) \cup FdsOf(error_pipe) \cup front
      BY DEF Named
    <3>2. \A n \in Fds : n = error_pipe.r => n \in FdsOf(error_pipe)
      BY DEF FdsOf, Fds, Closed
    <3> HIDE DEF C, front
    <3> QED
      BY <3>1, <3>2
  <2>3. fds' = CloseAll(WaitFds, S)
    BY <1>1
  <2> HIDE DEF C, S
  <2> QED
    BY <1>1, <2>1, <2>2, <2>3, Swept
<1>7. Recorded(X, p1, p2, pool')
  <2>1. PICK q : q = pool'
    OBVIOUS
  <2> QED
    BY <1>0, <1>1, <2>1, Recording
<1>8. /\ pool' \in Seq(UnixPipe) /\ Apart(pool', X) /\ Front(pool') = NoPipe
      /\ Entries(pool') \cup {NoPipe} =
           (E \ {f}) \cup {NoPipe} \cup (IF Head(line).next THEN {} ELSE N)
  <2>1. /\ pool' \in Seq(UnixPipe) /\ Apart(pool', X) /\ Front(pool') = Front(p1) /\ Front(p1) = NoPipe
        /\ Entries(p1) \cup {NoPipe} = (E \ {f}) \cup {NoPipe}
        /\ Entries(p2) \cup {NoPipe} = Entries(p1) \cup {stdout_pipe, NoPipe}
        /\ Entries(pool') \cup {NoPipe} = Entries(p2) \cup {stderr_pipe, NoPipe}
    BY <1>7 DEF Recorded, Grown
  <2>2. Head(line).next => stdout_pipe = NoPipe /\ stderr_pipe = NoPipe
    BY <1>1, <1>2 DEF Forking, Piped, Unset
  <2> HIDE DEF E, f
  <2> QED
    BY <2>1, <2>2
<1>9. Held(X)' = (Held(X) \ C) \cup {NoPipe}
  <2>1. Held(X)' = X \cup Entries(pool') \cup {last_pipe'}
    BY <1>1 DEF Held, Locals
  <2>2. Held(X)' = X \cup (E \ {f}) \cup N \cup {NoPipe}
    <3>1. CASE Head(line).next
      <4>1. last_pipe' = next_pipe /\ N = {next_pipe}
        BY <1>1, <3>1
      <4>2. Entries(pool') \cup {NoPipe} = (E \ {f}) \cup {NoPipe}
        BY <1>8, <3>1
      <4> HIDE DEF E, N, f
      <4> QED
        BY <2>1, <4>1, <4>2
    <3>2. CASE ~Head(line).next
      <4>1. last_pipe' = NoPipe
        BY <1>1, <3>2
      <4>2. Entries(pool') \cup {NoPipe} = (E \ {f}) \cup {NoPipe} \cup N
        BY <1>8, <3>2
      <4> HIDE DEF E, N, f
      <4> QED
        BY <2>1, <4>1, <4>2
    <3> QED
      BY <3>1, <3>2
  <2>3. \A p \in UNION {X, E, N} : p # NoPipe => p # last_pipe /\ p # error_pipe
    <3> HIDE DEF E, N, f
    <3> QED
      BY <1>5
  <2>4. C \cup {NoPipe} = {last_pipe, error_pipe, f, NoPipe}
    BY <1>3
  <2>5. f # NoPipe => f \in E
    BY <1>3
  <2> HIDE DEF E, N, f, C
  <2> QED
    BY <1>4, <1>5, <2>2, <2>3, <2>4, <2>5
<1>10. PoolTypes'
  BY <1>1, <1>2, <1>6, <1>8, NoPipeType, LineHead DEF PoolTypes
<1>11. Tidy(fds, Held(X))'
  BY <1>6, <1>9
<1>12. Fronts'
  BY <1>1, <1>8, NoPipeType DEF Fronts
<1>13. Waiting'
  <2>1. CASE Head(line).next
    <3>1. Unset' /\ line' # <<>>
      BY <1>1, <1>2, <2>1, LineHead DEF Forking, Piped, Unset
    <3> QED
      BY <1>1, <3>1 DEF Waiting
  <2>2. CASE ~Head(line).next
    <3>1. line' = <<>> /\ last_pipe' = NoPipe
      BY <1>1, <1>2, <2>2, LineHead
    <3> QED
      BY <1>1, <3>1 DEF Waiting
  <2> QED
    BY <2>1, <2>2
<1>14. LoopsOwn(X)'
  <2>1. CASE Head(line).next
    <3>1. last_pipe' = next_pipe /\ next_pipe # NoPipe /\ next_pipe \notin X \cup E
      BY <1>1, <1>2, <2>1 DEF Forking, Piped
    <3>2. Entries(pool') \subseteq E \cup {NoPipe}
      BY <1>8, <2>1
    <3> HIDE DEF E
    <3> QED
      BY <1>1, <3>1, <3>2 DEF LoopsOwn
  <2>2. CASE ~Head(line).next
    BY <1>1, <2>2 DEF LoopsOwn
  <2> QED
    BY <2>1, <2>2
<1>15. Forking(X)' /\ Sound(line)'
  BY <1>1, <1>2, LineHead DEF Forking
<1> QED
  BY <1>8, <1>10, <1>11, <1>12, <1>13, <1>14, <1>15 DEF PoolInv

(* All steps of the loop between two prompts. *)
LEMMA RunStep ==
  ASSUME NEW X \in SUBSET UnixPipe, NoPipe \in X, PoolInv(X),
         Cut \/ MakePipes \/ Succeed \/ Fail \/ EndLine
  PROVE  PoolInv(X)'
<1>1. CASE Cut
  BY <1>1, CutStep
<1>2. CASE MakePipes
  BY <1>2, MakePipesStep
<1>3. CASE Succeed
  BY <1>3, SucceedStep
<1>4. CASE Fail
  BY <1>4, FailStep
<1>5. CASE EndLine
  BY <1>5, EndLineStep
<1> QED
  BY <1>1, <1>2, <1>3, <1>4, <1>5

(* A line that is typed is one of Lines. *)
LEMMA LineTaken ==
  ASSUME NEW l \in Lines, SoundLines
  PROVE  l \in Seq(Stage) /\ Sound(l)
BY PoolAssumption DEF SoundLines

(* With sound lines the loop of run_shell (v2/shell.hpp:25) keeps its     *)
(* invariant, for any table size, any largest number and any set of        *)
(* outputs.                                                                *)
THEOREM PoolKept == SoundLines => (PoolSpec => []PoolInv({NoPipe}))
<1> SUFFICES ASSUME SoundLines PROVE PoolSpec => []PoolInv({NoPipe})
  OBVIOUS
<1>1. PoolInit => PoolInv({NoPipe})
  BY InitInv
<1>2. PoolInv({NoPipe}) /\ [PoolNext]_poolVars => PoolInv({NoPipe})'
  <2> SUFFICES ASSUME PoolInv({NoPipe}), [PoolNext]_poolVars
               PROVE  PoolInv({NoPipe})'
    OBVIOUS
  <2>0. {NoPipe} \in SUBSET UnixPipe
    BY NoPipeType
  <2>1. CASE ReadLine
    <3>1. /\ pc = "prompt" /\ pc' = "cut" /\ line' \in Lines /\ pool' = pool
          /\ UNCHANGED <<fds, first, localVars>>
      BY <2>1 DEF ReadLine
    <3>2. line' \in Seq(Stage) /\ Sound(line')
      BY <3>1, LineTaken
    <3>3. pool \in Seq(UnixPipe) /\ Apart(pool, {NoPipe}) /\ Front(pool) = NoPipe
      BY <3>1 DEF PoolInv, PoolTypes, Fronts
    <3> QED
      BY <2>0, <3>1, <3>2, <3>3, PromptStep
  <2>2. CASE Cut \/ MakePipes \/ Succeed \/ Fail \/ EndLine
    BY <2>0, <2>2, RunStep
  <2>3. CASE UNCHANGED poolVars
    <3> USE <2>3 DEF poolVars, localVars
    <3>1. /\ PoolTypes' = PoolTypes /\ Sound(line)' = Sound(line)
          /\ Held({NoPipe})' = Held({NoPipe})
      BY DEF PoolTypes, Held, Locals
    <3>2. /\ Fronts' = Fronts /\ Waiting' = Waiting /\ LoopsOwn({NoPipe})' = LoopsOwn({NoPipe})
          /\ Forking({NoPipe})' = Forking({NoPipe})
      BY DEF Fronts, Waiting, LoopsOwn, Forking, Unset, Piped, Numbered, Sent
    <3> QED
      BY <3>1, <3>2 DEF PoolInv
  <2> QED
    BY <2>1, <2>2, <2>3 DEF PoolNext
<1> QED
  BY <1>1, <1>2, PTL DEF PoolSpec

(* What the pool names is open and its own: from Tidy and Apart. *)
LEMMA OpenHolds ==
  ASSUME NEW X \in SUBSET UnixPipe, PoolInv(X) PROVE PoolOpen
<1>1. /\ fds \in Tables /\ pool \in Seq(UnixPipe) /\ Tidy(fds, Held(X)) /\ Apart(pool, X)
      /\ Held(X) \in SUBSET UnixPipe
  BY HeldType DEF PoolInv, PoolTypes
<1>2. ASSUME NEW n \in 1 .. Len(pool), NEW m \in 1 .. Len(pool),
             FdsOf(pool[n]) \cap FdsOf(pool[m]) # {}
      PROVE  n = m
  <2>1. pool[n] \in Held(X) /\ pool[m] \in Held(X)
    BY DEF Held, Entries
  <2>2. pool[n] = pool[m]
    BY <1>1, <1>2, <2>1, OneOwner
  <2>3. pool[n] # NoPipe
    BY <1>2, NoPipeNames
  <2> QED
    BY <1>1, <2>2, <2>3 DEF Apart
<1>3. ASSUME NEW n \in 1 .. Len(pool)
      PROVE  /\ pool[n].r # Closed => Behind(fds, pool[n].r).end = "r"
             /\ pool[n].w # Closed => /\ Behind(fds, pool[n].w).end = "w"
                                      /\ Behind(fds, pool[n].w).pipe = Behind(fds, pool[n].r).pipe
  <2>1. pool[n] \in Held(X)
    BY DEF Held, Entries
  <2>2. Good(fds, pool[n])
    BY <1>1, <2>1 DEF Tidy
  <2> QED
    BY <2>2 DEF Good, Behind
<1> QED
  BY <1>2, <1>3 DEF PoolOpen

(* Every entry of pipe_pool names descriptors that are open and are the    *)
(* ends of one pipe, and no other entry names them: after any number of    *)
(* sound lines, failing commands included, no stale number is left in it.  *)
THEOREM EntriesOpen == SoundLines => (PoolSpec => []PoolOpen)
<1> SUFFICES ASSUME SoundLines PROVE PoolSpec => []PoolOpen
  OBVIOUS
<1>1. PoolInv({NoPipe}) => PoolOpen
  BY NoPipeType, OpenHolds
<1>2. PoolSpec => []PoolInv({NoPipe})
  BY PoolKept
<1> QED
  BY <1>1, <1>2, PTL

(* At the prompt the shell has nothing open but what its pool names: every *)
(* pipe a line made was closed by the line or recorded, whichever way its  *)
(* last command ended.                                                     *)
THEOREM NothingLeaks == SoundLines => (PoolSpec => []NoFdLeak)
<1> SUFFICES ASSUME SoundLines PROVE PoolSpec => []NoFdLeak
  OBVIOUS
<1>1. PoolInv({NoPipe}) => NoFdLeak
  <2> SUFFICES ASSUME PoolInv({NoPipe}), pc = "prompt"
               PROVE  OpenIn(fds) = UNION {FdsOf(pool[n]) : n \in 1 .. Len(pool)}
    BY DEF NoFdLeak, OpenIn
  <2>1. OpenIn(fds) = Named({NoPipe} \cup Entries(pool))
    BY DEF PoolInv, Tidy, Held, Locals
  <2>2. Named({NoPipe} \cup Entries(pool)) = Named(Entries(pool))
    BY NoPipeNames DEF Named
  <2>3. Named(Entries(pool)) = UNION {FdsOf(pool[n]) : n \in 1 .. Len(pool)}
    BY DEF Named, Entries
  <2> QED
    BY <2>1, <2>2, <2>3
<1>2. PoolSpec => []PoolInv({NoPipe})
  BY PoolKept
<1> QED
  BY <1>1, <1>2, PTL

(* No command of a sound line waits for an end of file that cannot come    *)
(* because the command or the shell itself still has the writing end open. *)
THEOREM CommandsEnd == SoundLines => (PoolSpec => []NoHang)
<1> SUFFICES ASSUME SoundLines PROVE PoolSpec => []NoHang
  OBVIOUS
<1>1. PoolInv({NoPipe}) => NoHang
  BY NoPipeType, NeverStuck DEF NoHang
<1>2. PoolSpec => []PoolInv({NoPipe})
  BY PoolKept
<1> QED
  BY <1>1, <1>2, PTL

(* The pools of all slots, P[c] that of slot c. *)
SlotPools == [c \in Clients |-> PoolOf(c)]

(* All pipes of the pools in P, and those of all but slot k. *)
Whole(P) == UNION {Entries(P[c]) : c \in Clients}
Rest(P, k) == UNION {Entries(P[c]) : c \in Clients \ {k}}

(* No pipe has two places, in one pool or in two, and none of F has one.   *)
Distinct(P, F) ==
  /\ \A c \in Clients : \A n \in 1 .. Len(P[c]) : P[c][n] # NoPipe => P[c][n] \notin F
  /\ \A c, d \in Clients : \A n \in 1 .. Len(P[c]), m \in 1 .. Len(P[d]) :
       P[c][n] = P[d][m] /\ P[c][n] # NoPipe => c = d /\ n = m

(* F: the pipes reset_pipe_pool has forgotten. *)
Others(P, k, F) == ({NoPipe} \cup F) \cup Rest(P, k)

(* The invariant of the server: every pipe has one place, in the pool of   *)
(* one slot, among the forgotten, or with the loop, which runs on the      *)
(* pool of the present client.                                             *)
SlotsInv(F) ==
  /\ client \in Clients /\ parked = [c \in Clients |-> parked[c]]
  /\ SlotPools \in [Clients -> Seq(UnixPipe)]
  /\ \A c \in Clients \ {client} : Front(SlotPools[c]) = NoPipe
  /\ F \in SUBSET UnixPipe /\ forgotten = Named(F)
  /\ Distinct(SlotPools, F)
  /\ PoolInv(Others(SlotPools, client, F))

(* The server's invariant. *)
ServerInv == \E F \in SUBSET UnixPipe : SlotsInv(F)

(* What the process has besides pool k, and with it. *)
LEMMA OthersType ==
  ASSUME NEW P \in [Clients -> Seq(UnixPipe)], NEW k \in Clients, NEW F \in SUBSET UnixPipe
  PROVE  /\ Others(P, k, F) \in SUBSET UnixPipe /\ NoPipe \in Others(P, k, F)
         /\ Others(P, k, F) \cup Entries(P[k]) = ({NoPipe} \cup F) \cup Whole(P)
         /\ \A c \in Clients \ {k} : Entries(P[c]) \subseteq Others(P, k, F)
<1>1. \A c \in Clients : Entries(P[c]) \in SUBSET UnixPipe
  BY EntriesType
<1>2. Rest(P, k) \in SUBSET UnixPipe
  BY <1>1 DEF Rest
<1>3. Rest(P, k) \cup Entries(P[k]) = Whole(P)
  BY DEF Rest, Whole
<1>4. \A c \in Clients \ {k} : Entries(P[c]) \subseteq Rest(P, k)
  BY DEF Rest
<1> QED
  BY <1>2, <1>3, <1>4, NoPipeType DEF Others

(* In tidy slots every single pool is apart from everything else. *)
LEMMA DistinctApart ==
  ASSUME NEW P \in [Clients -> Seq(UnixPipe)], NEW k \in Clients, NEW F \in SUBSET UnixPipe,
         Distinct(P, F)
  PROVE  Apart(P[k], Others(P, k, F))
<1>1. ASSUME NEW n \in 1 .. Len(P[k]), P[k][n] # NoPipe, P[k][n] \in Rest(P, k)
      PROVE  FALSE
  <2>1. PICK d \in Clients \ {k} : P[k][n] \in Entries(P[d])
    BY <1>1 DEF Rest
  <2>2. PICK m \in 1 .. Len(P[d]) : P[k][n] = P[d][m]
    BY <2>1 DEF Entries
  <2> QED
    BY <1>1, <2>1, <2>2 DEF Distinct
<1>2. \A n \in 1 .. Len(P[k]) : P[k][n] # NoPipe => P[k][n] \notin F
  BY DEF Distinct
<1>3. \A n, m \in 1 .. Len(P[k]) : P[k][n] = P[k][m] /\ P[k][n] # NoPipe => n = m
  BY DEF Distinct
<1> QED
  BY <1>1, <1>2, <1>3 DEF Apart, Others

(* Q is P with another pool at k, still apart from the rest. *)
SameBut(P, k, F, Q) ==
  /\ Q \in [Clients -> Seq(UnixPipe)] /\ Distinct(Q, F)
  /\ Others(Q, k, F) = Others(P, k, F)

(* One pool changes, and stays apart from the others. *)
LEMMA DistinctChanged ==
  ASSUME NEW P \in [Clients -> Seq(UnixPipe)], NEW k \in Clients, NEW F \in SUBSET UnixPipe,
         Distinct(P, F), NEW q \in Seq(UnixPipe), Apart(q, Others(P, k, F)),
         NEW Q, Q = [P EXCEPT ![k] = q]
  PROVE  SameBut(P, k, F, Q)
<1>1. Q \in [Clients -> Seq(UnixPipe)] /\ Q[k] = q /\ \A c \in Clients \ {k} : Q[c] = P[c]
  OBVIOUS
<1>2. Rest(Q, k) = Rest(P, k)
  BY <1>1 DEF Rest
<1>3. \A n \in 1 .. Len(q) : q[n] # NoPipe => q[n] \notin F /\ q[n] \notin Rest(P, k)
  BY DEF Apart, Others
<1>4. \A c \in Clients \ {k} : \A n \in 1 .. Len(q), m \in 1 .. Len(P[c]) :
        q[n] # NoPipe => q[n] # P[c][m]
  <2>1. \A c \in Clients \ {k} : \A m \in 1 .. Len(P[c]) : P[c][m] \in Rest(P, k)
    BY DEF Rest, Entries
  <2> QED
    BY <1>3, <2>1
<1>5. ASSUME NEW c \in Clients, NEW n \in 1 .. Len(Q[c]), Q[c][n] # NoPipe
      PROVE  Q[c][n] \notin F
  <2>1. CASE c = k
    BY <1>1, <1>3, <1>5, <2>1
  <2>2. CASE c # k
    BY <1>1, <1>5, <2>2 DEF Distinct
  <2> QED
    BY <2>1, <2>2
<1>6. ASSUME NEW c \in Clients, NEW d \in Clients,
             NEW n \in 1 .. Len(Q[c]), NEW m \in 1 .. Len(Q[d]),
             Q[c][n] = Q[d][m], Q[c][n] # NoPipe
      PROVE  c = d /\ n = m
  <2>1. CASE c = k /\ d = k
    BY <1>1, <1>6, <2>1 DEF Apart
  <2>2. CASE c = k /\ d # k
    BY <1>1, <1>4, <1>6, <2>2
  <2>3. CASE c # k /\ d = k
    BY <1>1, <1>4, <1>6, <2>3
  <2>4. CASE c # k /\ d # k
    BY <1>1, <1>6, <2>4 DEF Distinct
  <2> QED
    BY <2>1, <2>2, <2>3, <2>4
<1>7. Distinct(Q, F)
  BY <1>5, <1>6 DEF Distinct
<1> QED
  BY <1>1, <1>2, <1>7 DEF Others, SameBut

(* The server starts with empty pools, and nothing forgotten. *)
LEMMA ServerInitInv ==
  ASSUME ServerInit PROVE SlotsInv({})
<1>1. SlotPools = [c \in Clients |-> <<NoPipe>>]
  BY DEF SlotPools, PoolOf, ServerInit, PoolInit, EmptyPool
<1>2. client \in Clients /\ parked = [c \in Clients |-> parked[c]] /\ forgotten = {} /\ pool = <<NoPipe>>
  BY DEF ServerInit, PoolInit
<1>3. <<NoPipe>> \in Seq(UnixPipe) /\ Entries(<<NoPipe>>) = {NoPipe} /\ Front(<<NoPipe>>) = NoPipe
  BY NoPipeType DEF Entries, Front
<1>4. SlotPools \in [Clients -> Seq(UnixPipe)] /\ \A c \in Clients : Front(SlotPools[c]) = NoPipe
  BY <1>1, <1>3
<1>5. Distinct(SlotPools, {})
  BY <1>1 DEF Distinct
<1>6. Others(SlotPools, client, {}) = {NoPipe}
  <2>1. Rest(SlotPools, client) \subseteq {NoPipe}
    BY <1>1, <1>3 DEF Rest
  <2> QED
    BY <2>1 DEF Others
<1>7. PoolInv({NoPipe})
  BY InitInv DEF ServerInit
<1>8. Named({}) = {}
  BY DEF Named
<1> QED
  BY <1>2, <1>4, <1>5, <1>6, <1>7, <1>8 DEF SlotsInv

(* A line of a client: its pool becomes pipe_pool. *)
LEMMA ServeStep ==
  ASSUME NEW F, SlotsInv(F), SoundLines, NEW c \in Clients, ServeLine(c)
  PROVE  SlotsInv(F)'
<1>1. /\ pc = "prompt" /\ pc' = "cut" /\ line' \in Lines /\ forgotten' = forgotten
      /\ UNCHANGED <<fds, first, localVars>>
  BY DEF ServeLine, poolVars
<1>2. line' \in Seq(Stage) /\ Sound(line')
  BY <1>1, LineTaken
<1>3. /\ client \in Clients /\ parked = [d \in Clients |-> parked[d]]
      /\ SlotPools \in [Clients -> Seq(UnixPipe)] /\ F \in SUBSET UnixPipe
      /\ Distinct(SlotPools, F) /\ PoolInv(Others(SlotPools, client, F))
      /\ \A d \in Clients \ {client} : Front(SlotPools[d]) = NoPipe
      /\ forgotten = Named(F)
  BY DEF SlotsInv
<1>4. /\ client' = c /\ parked' = [d \in Clients |-> parked'[d]]
      /\ \A d \in Clients : PoolOf(d)' = PoolOf(d)
  <2>1. CASE c = client /\ UNCHANGED <<client, parked, pool, input>>
    BY <1>3, <2>1 DEF PoolOf
  <2>2. CASE c # client /\ TurnTo(c)
    <3>1. /\ client' = c /\ pool' = PoolOf(c)
          /\ parked' = [parked EXCEPT ![client] = [pool |-> pool, input |-> input], ![c] = EmptyPool]
      BY <2>2 DEF TurnTo
    <3>2. /\ parked' = [d \in Clients |-> parked'[d]]
          /\ parked'[client].pool = pool
          /\ \A d \in Clients \ {client, c} : parked'[d] = parked[d]
      BY <1>3, <2>2, <3>1
    <3> QED
      BY <2>2, <3>1, <3>2 DEF PoolOf
  <2> QED
    BY <2>1, <2>2 DEF ServeLine
<1>5. SlotPools' = SlotPools
  BY <1>4 DEF SlotPools
<1>6. pool = SlotPools[client] /\ pool' = SlotPools[c]
  <2>1. pool' = SlotPools'[c]
    BY <1>4 DEF SlotPools, PoolOf
  <2> QED
    BY <1>3, <1>5, <2>1 DEF SlotPools, PoolOf
<1>7. \A d \in Clients : Front(SlotPools[d]) = NoPipe
  BY <1>1, <1>3, <1>6 DEF PoolInv, Fronts
<1>8. PICK P : P = SlotPools
  OBVIOUS
<1>9. PICK k : k = client
  OBVIOUS
<1>10. /\ P \in [Clients -> Seq(UnixPipe)] /\ k \in Clients /\ Distinct(P, F)
       /\ F \in SUBSET UnixPipe /\ PoolInv(Others(P, k, F))
       /\ pool = P[k] /\ pool' = P[c] /\ Front(P[c]) = NoPipe
  BY <1>3, <1>6, <1>7, <1>8, <1>9
<1>11. /\ Others(P, k, F) \in SUBSET UnixPipe /\ NoPipe \in Others(P, k, F)
       /\ Others(P, c, F) \in SUBSET UnixPipe /\ NoPipe \in Others(P, c, F)
       /\ Others(P, c, F) \cup Entries(pool') = Others(P, k, F) \cup Entries(pool)
  BY <1>10, OthersType
<1>12. Apart(pool', Others(P, c, F)) /\ pool' \in Seq(UnixPipe) /\ Front(pool') = NoPipe
  BY <1>10, DistinctApart
<1>13. PoolInv(Others(P, c, F))'
  BY ONLY <1>1, <1>2, <1>10, <1>11, <1>12, PromptStep
<1>14. PoolInv(Others(SlotPools, client, F))'
  BY <1>4, <1>5, <1>8, <1>13
<1> QED
  BY <1>1, <1>3, <1>4, <1>5, <1>7, <1>14 DEF SlotsInv

(* A step of the loop: of all pools only pipe_pool changes. *)
LEMMA LoopStep ==
  ASSUME NEW F, SlotsInv(F), Cut \/ MakePipes \/ Succeed \/ Fail \/ EndLine, UNCHANGED slotVars
  PROVE  SlotsInv(F)'
<1>1. /\ client \in Clients /\ parked = [d \in Clients |-> parked[d]]
      /\ SlotPools \in [Clients -> Seq(UnixPipe)] /\ F \in SUBSET UnixPipe
      /\ Distinct(SlotPools, F) /\ PoolInv(Others(SlotPools, client, F))
      /\ \A d \in Clients \ {client} : Front(SlotPools[d]) = NoPipe
      /\ forgotten = Named(F)
      /\ client' = client /\ parked' = parked /\ forgotten' = forgotten
  BY DEF SlotsInv, slotVars
<1>2. PICK P, k : P = SlotPools /\ k = client
  OBVIOUS
<1>3. P \in [Clients -> Seq(UnixPipe)] /\ k \in Clients /\ Distinct(P, F) /\ PoolInv(Others(P, k, F))
  BY <1>1, <1>2
<1>4. Others(P, k, F) \in SUBSET UnixPipe /\ NoPipe \in Others(P, k, F)
  BY <1>1, <1>3, OthersType
<1>5. PoolInv(Others(P, k, F))'
  BY <1>3, <1>4, RunStep
<1>6. pool' \in Seq(UnixPipe) /\ Apart(pool', Others(P, k, F))
  BY <1>5 DEF PoolInv, PoolTypes
<1>7. SlotPools' = [P EXCEPT ![k] = pool']
  BY <1>1, <1>2 DEF SlotPools, PoolOf
<1>8. /\ SlotPools' \in [Clients -> Seq(UnixPipe)] /\ Distinct(SlotPools', F)
      /\ Others(SlotPools', k, F) = Others(P, k, F)
  <2>1. PICK q, Q : q = pool' /\ Q = SlotPools'
    OBVIOUS
  <2>2. q \in Seq(UnixPipe) /\ Apart(q, Others(P, k, F)) /\ Q = [P EXCEPT ![k] = q]
    BY <1>6, <1>7, <2>1
  <2>3. SameBut(P, k, F, Q)
    BY <1>1, <1>3, <2>2, DistinctChanged
  <2> QED
    BY <2>1, <2>3 DEF SameBut
<1>9. \A d \in Clients \ {k} : SlotPools'[d] = P[d]
  BY <1>3, <1>7
<1>10. PoolInv(Others(SlotPools, client, F))'
  BY <1>1, <1>2, <1>5, <1>8
<1> QED
  BY <1>1, <1>2, <1>8, <1>9, <1>10 DEF SlotsInv

(* A session begins: the pipes of its slot's pool are forgotten. *)
LEMMA JoinStep ==
  ASSUME NEW F, SlotsInv(F), NEW c \in Clients, Join(c), NEW E, E = Entries(PoolOf(c))
  PROVE  SlotsInv(F \cup E)'
<1>1. /\ client \in Clients /\ parked = [d \in Clients |-> parked[d]]
      /\ SlotPools \in [Clients -> Seq(UnixPipe)] /\ F \in SUBSET UnixPipe
      /\ Distinct(SlotPools, F) /\ PoolInv(Others(SlotPools, client, F))
      /\ \A d \in Clients \ {client} : Front(SlotPools[d]) = NoPipe
      /\ forgotten = Named(F)
  BY DEF SlotsInv
<1>2. /\ pc = "prompt" /\ pc' = "prompt" /\ line' = line /\ client' = client
      /\ UNCHANGED <<fds, first, localVars>>
      /\ forgotten' = forgotten \cup FdsIn(PoolOf(c))
      /\ \/ c = client /\ pool' = <<NoPipe>> /\ parked' = parked
         \/ c # client /\ parked' = [parked EXCEPT ![c] = EmptyPool] /\ pool' = pool
  BY DEF Join, ResetPipePool
<1>3. PICK P, k : P = SlotPools /\ k = client
  OBVIOUS
<1>4. /\ P \in [Clients -> Seq(UnixPipe)] /\ k \in Clients /\ Distinct(P, F)
      /\ PoolInv(Others(P, k, F)) /\ PoolOf(c) = P[c] /\ E = Entries(P[c]) /\ pool = P[k]
  BY <1>1, <1>3 DEF SlotPools, PoolOf
<1> DEFINE Q == [P EXCEPT ![c] = <<NoPipe>>]
           G == F \cup E
<1>5. SlotPools' = Q /\ parked' = [d \in Clients |-> parked'[d]]
  <2>1. CASE c = client
    <3>1. pool' = <<NoPipe>> /\ parked' = parked
      BY <1>2, <2>1
    <3>2. \A d \in Clients : PoolOf(d)' = IF d = c THEN <<NoPipe>> ELSE PoolOf(d)
      BY <1>2, <2>1, <3>1 DEF PoolOf
    <3> QED
      BY <1>1, <1>3, <3>1, <3>2 DEF SlotPools
  <2>2. CASE c # client
    <3>1. pool' = pool /\ parked' = [parked EXCEPT ![c] = EmptyPool]
      BY <1>2, <2>2
    <3>2. /\ parked' = [d \in Clients |-> parked'[d]]
          /\ parked'[c] = EmptyPool /\ \A d \in Clients \ {c} : parked'[d] = parked[d]
      BY <1>1, <3>1
    <3>3. \A d \in Clients : PoolOf(d)' = IF d = c THEN <<NoPipe>> ELSE PoolOf(d)
      BY <1>2, <2>2, <3>1, <3>2 DEF PoolOf, EmptyPool
    <3> QED
      BY <1>1, <1>3, <3>2, <3>3 DEF SlotPools
  <2> QED
    BY <2>1, <2>2
<1>6. /\ <<NoPipe>> \in Seq(UnixPipe) /\ Front(<<NoPipe>>) = NoPipe /\ Entries(<<NoPipe>>) = {NoPipe}
      /\ Len(<<NoPipe>>) = 1 /\ \A n \in 1 .. 1 : <<NoPipe>>[n] = NoPipe
  BY NoPipeType DEF Front, Entries
<1>7. /\ Q \in [Clients -> Seq(UnixPipe)] /\ Q[c] = <<NoPipe>>
      /\ \A d \in Clients \ {c} : Q[d] = P[d]
  BY <1>4, <1>6
<1>8. G \in SUBSET UnixPipe
  BY <1>1, <1>4, EntriesType
<1> HIDE DEF Q
<1>9. Distinct(Q, G)
  <2>1. ASSUME NEW d \in Clients, NEW n \in 1 .. Len(Q[d]), Q[d][n] # NoPipe
        PROVE  d # c /\ Q[d] = P[d] /\ n \in 1 .. Len(P[d])
    BY <1>6, <1>7, <2>1
  <2>2. ASSUME NEW d \in Clients, NEW n \in 1 .. Len(Q[d]), Q[d][n] # NoPipe
        PROVE  Q[d][n] \notin G
    <3>1. d # c /\ Q[d] = P[d] /\ n \in 1 .. Len(P[d])
      BY <2>1, <2>2
    <3>2. Q[d][n] \notin F
      BY <1>4, <2>2, <3>1 DEF Distinct
    <3>3. \A m \in 1 .. Len(P[c]) : Q[d][n] # P[c][m]
      BY <1>4, <2>2, <3>1 DEF Distinct
    <3> QED
      BY <1>4, <3>2, <3>3 DEF Entries
  <2>3. ASSUME NEW d \in Clients, NEW e \in Clients,
               NEW n \in 1 .. Len(Q[d]), NEW m \in 1 .. Len(Q[e]),
               Q[d][n] = Q[e][m], Q[d][n] # NoPipe
        PROVE  d = e /\ n = m
    <3>1. Q[d] = P[d] /\ n \in 1 .. Len(P[d]) /\ Q[e] = P[e] /\ m \in 1 .. Len(P[e])
      BY <2>1, <2>3
    <3> QED
      BY <1>4, <2>3, <3>1 DEF Distinct
  <2> QED
    BY <2>2, <2>3 DEF Distinct
<1>10. \A d \in Clients : Front(Q[d]) = NoPipe
  <2>1. Front(P[k]) = NoPipe
    BY <1>2, <1>4 DEF PoolInv, Fronts
  <2>2. \A d \in Clients : Front(P[d]) = NoPipe
    BY <1>1, <1>3, <2>1
  <2> QED
    BY <1>6, <1>7, <2>2
<1>11. forgotten' = Named(G)
  <2>1. FdsIn(PoolOf(c)) = Named(E)
    BY <1>4 DEF FdsIn, Named, Entries
  <2>2. Named(G) = Named(F) \cup Named(E)
    BY DEF Named
  <2> QED
    BY <1>1, <1>2, <2>1, <2>2
<1>12. PoolInv(Others(Q, k, G))'
  <2>1. /\ Others(P, k, F) \in SUBSET UnixPipe /\ NoPipe \in Others(P, k, F)
        /\ Others(P, k, F) \cup Entries(pool) = ({NoPipe} \cup F) \cup Whole(P)
    BY <1>1, <1>4, OthersType
  <2>2. /\ Others(Q, k, G) \in SUBSET UnixPipe /\ NoPipe \in Others(Q, k, G)
        /\ Others(Q, k, G) \cup Entries(Q[k]) = ({NoPipe} \cup G) \cup Whole(Q)
    <3> HIDE DEF G
    <3> QED
      BY <1>4, <1>7, <1>8, OthersType
  <2>3. pool' = Q[k] /\ pool' \in Seq(UnixPipe) /\ Front(pool') = NoPipe
    <3>1. pool' = SlotPools'[k]
      BY <1>2, <1>3, <1>4 DEF SlotPools, PoolOf
    <3> QED
      BY <1>4, <1>5, <1>7, <1>10, <3>1
  <2>4. Apart(pool', Others(Q, k, G))
    <3> HIDE DEF G
    <3> QED
      BY <1>4, <1>7, <1>8, <1>9, <2>3, DistinctApart
  <2>5. ({NoPipe} \cup G) \cup Whole(Q) = ({NoPipe} \cup F) \cup Whole(P)
    <3>1. Whole(P) = E \cup Rest(P, c) /\ Whole(Q) = {NoPipe} \cup Rest(Q, c)
      <4>1. Whole(P) = Entries(P[c]) \cup Rest(P, c) /\ Whole(Q) = Entries(Q[c]) \cup Rest(Q, c)
        BY DEF Whole, Rest
      <4> QED
        BY <1>4, <1>6, <1>7, <4>1
    <3>2. Rest(Q, c) = Rest(P, c)
      BY <1>7 DEF Rest
    <3> QED
      BY <3>1, <3>2
  <2>6. Others(Q, k, G) \cup Entries(pool') = Others(P, k, F) \cup Entries(pool)
    BY <2>1, <2>2, <2>3, <2>5
  <2> HIDE DEF G
  <2> QED
    BY ONLY <1>2, <1>4, <2>1, <2>2, <2>3, <2>4, <2>6, PromptStep
<1>13. PoolInv(Others(SlotPools, client, G))'
  <2>1. SlotPools' = Q /\ client' = k
    BY <1>2, <1>3, <1>5
  <2> HIDE DEF G
  <2> QED
    BY <1>12, <2>1
<1>14. SlotsInv(G)'
  <2> HIDE DEF G
  <2> QED
    BY <1>1, <1>2, <1>5, <1>7, <1>8, <1>9, <1>10, <1>11, <1>13 DEF SlotsInv
<1> QED
  BY <1>14

(* Every step of the server keeps its invariant. *)
LEMMA SlotsKept ==
  ASSUME SoundLines, ServerInv, [ServerNext]_serverVars
  PROVE  ServerInv'
<1>1. PICK F \in SUBSET UnixPipe : SlotsInv(F)
  BY DEF ServerInv
<1>2. CASE \E c \in Clients : ServeLine(c)
  <2>1. SlotsInv(F)'
    BY <1>1, <1>2, ServeStep
  <2> QED
    BY <2>1 DEF ServerInv
<1>3. CASE \E c \in Clients : Join(c)
  <2>1. PICK c \in Clients : Join(c)
    BY <1>3
  <2>2. PICK E : E = Entries(PoolOf(c))
    OBVIOUS
  <2>3. SlotsInv(F \cup E)'
    BY <1>1, <2>1, <2>2, JoinStep
  <2>4. F \cup E \in SUBSET UnixPipe
    BY <2>3 DEF SlotsInv
  <2> QED
    BY <2>3, <2>4 DEF ServerInv
<1>4. CASE CutCommand \/ CreatePipes \/ RunCommand \/ LineDone
  <2>1. SlotsInv(F)'
    BY <1>1, <1>4, LoopStep DEF CutCommand, CreatePipes, RunCommand, LineDone
  <2> QED
    BY <2>1 DEF ServerInv
<1>5. CASE (\E c \in Clients : Leave(c)) \/ UNCHANGED serverVars
  <2>1. UNCHANGED <<poolVars, client, parked, forgotten>>
    BY <1>5 DEF Leave, serverVars, slotVars
  <2> USE <2>1 DEF poolVars, localVars
  <2>2. SlotPools' = SlotPools
    BY DEF SlotPools, PoolOf
  <2>3. PICK X : X = Others(SlotPools, client, F)
    OBVIOUS
  <2>4. PoolInv(X)' = PoolInv(X)
    <3>1. /\ PoolTypes' = PoolTypes /\ Sound(line)' = Sound(line) /\ Held(X)' = Held(X)
      BY DEF PoolTypes, Held, Locals
    <3>2. /\ Fronts' = Fronts /\ Waiting' = Waiting /\ LoopsOwn(X)' = LoopsOwn(X)
          /\ Forking(X)' = Forking(X)
      BY DEF Fronts, Waiting, LoopsOwn, Forking, Unset, Piped, Numbered, Sent
    <3> QED
      BY <3>1, <3>2 DEF PoolInv
  <2>5. PoolInv(Others(SlotPools, client, F))'
    BY <1>1, <2>2, <2>3, <2>4 DEF SlotsInv
  <2>6. SlotsInv(F)'
    BY <1>1, <2>2, <2>5 DEF SlotsInv
  <2> QED
    BY <2>6 DEF ServerInv
<1> QED
  BY <1>2, <1>3, <1>4, <1>5 DEF ServerNext

(* Pools that have no pipe in common have no descriptor in common. *)
LEMMA SlotsApart ==
  ASSUME ServerInv PROVE PoolsApart
<1>1. PICK F \in SUBSET UnixPipe : SlotsInv(F)
  BY DEF ServerInv
<1>2. PICK P, k : P = SlotPools /\ k = client
  OBVIOUS
<1> DEFINE X == Others(P, k, F)
<1>3. /\ P \in [Clients -> Seq(UnixPipe)] /\ k \in Clients /\ Distinct(P, F)
      /\ pool = P[k] /\ PoolInv(X) /\ forgotten = Named(F)
      /\ \A c \in Clients : PoolOf(c) = P[c]
  BY <1>1, <1>2 DEF SlotsInv, SlotPools, PoolOf
<1>4. X \in SUBSET UnixPipe /\ X \cup Entries(pool) = ({NoPipe} \cup F) \cup Whole(P)
  BY <1>1, <1>3, OthersType
<1>5. Tidy(fds, Held(X)) /\ fds \in Tables /\ Held(X) \in SUBSET UnixPipe
  BY <1>3, <1>4, HeldType DEF PoolInv, PoolTypes
<1> HIDE DEF X
<1>6. ({NoPipe} \cup F) \cup Whole(P) \subseteq Held(X)
  BY <1>4 DEF Held
<1>7. \A c \in Clients : FdsIn(PoolOf(c)) = Named(Entries(P[c]))
  BY <1>3 DEF FdsIn, Named, Entries
<1>8. AllFds = Named(Whole(P))
  BY <1>7 DEF AllFds, Named, Whole
<1>9. ASSUME NEW c \in Clients, NEW n \in 1 .. Len(P[c])
      PROVE  P[c][n] \in Held(X)
  <2>1. P[c][n] \in Whole(P)
    BY DEF Whole, Entries
  <2> QED
    BY <1>6, <2>1
<1>10. ASSUME pc = "prompt" PROVE OpenIn(fds) = AllFds \cup forgotten
  <2>1. Held(X) = ({NoPipe} \cup F) \cup Whole(P)
    BY <1>4, <1>10 DEF Held, Locals
  <2>2. OpenIn(fds) = Named(({NoPipe} \cup F) \cup Whole(P))
    BY <1>5, <2>1 DEF Tidy
  <2>3. Named(({NoPipe} \cup F) \cup Whole(P)) = Named(F) \cup Named(Whole(P))
    BY NoPipeNames DEF Named
  <2> QED
    BY <1>3, <1>8, <2>2, <2>3
<1>11. AllFds \cap forgotten = {}
  <2> SUFFICES ASSUME NEW m \in AllFds, m \in forgotten PROVE FALSE
    OBVIOUS
  <2>1. PICK q \in F : m \in FdsOf(q)
    BY <1>3 DEF Named
  <2>2. PICK c \in Clients : \E p \in Entries(P[c]) : m \in FdsOf(p)
    BY <1>8 DEF Named, Whole
  <2>3. PICK n \in 1 .. Len(P[c]) : m \in FdsOf(P[c][n])
    BY <2>2 DEF Entries
  <2>4. q \in Held(X) /\ P[c][n] \in Held(X) /\ FdsOf(P[c][n]) \cap FdsOf(q) # {}
    BY <1>6, <1>9, <2>1, <2>3
  <2>5. P[c][n] = q
    BY <1>5, <2>4, OneOwner
  <2>6. P[c][n] # NoPipe
    BY <2>3, NoPipeNames
  <2> QED
    BY <1>3, <2>1, <2>5, <2>6 DEF Distinct
<1>12. NoPipeShared
  <2> SUFFICES ASSUME NEW c \in Clients, NEW d \in Clients,
                      NEW m, m \in FdsIn(PoolOf(c)), m \in FdsIn(PoolOf(d))
               PROVE  c = d
    BY DEF NoPipeShared
  <2>1. PICK n \in 1 .. Len(P[c]) : m \in FdsOf(P[c][n])
    BY <1>3 DEF FdsIn
  <2>2. PICK l \in 1 .. Len(P[d]) : m \in FdsOf(P[d][l])
    BY <1>3 DEF FdsIn
  <2>3. P[c][n] \in Held(X) /\ P[d][l] \in Held(X) /\ FdsOf(P[c][n]) \cap FdsOf(P[d][l]) # {}
    BY <1>9, <2>1, <2>2
  <2>4. P[c][n] = P[d][l]
    BY <1>5, <2>3, OneOwner
  <2>5. P[c][n] # NoPipe
    BY <2>1, NoPipeNames
  <2> QED
    BY <1>3, <2>4, <2>5 DEF Distinct
<1> QED
  BY <1>10, <1>11, <1>12 DEF PoolsApart, OpenIn

(* In the one process of the first version no descriptor is named by the   *)
(* pools of two clients, for any number of clients that come, run sound    *)
(* lines and leave, though what reset_pipe_pool forgets stays open for     *)
(* ever.                                                                   *)
THEOREM SlotsShareNothing == SoundLines => (ServerSpec => []PoolsApart)
<1> SUFFICES ASSUME SoundLines PROVE ServerSpec => []PoolsApart
  OBVIOUS
<1>1. ServerInit => ServerInv
  BY ServerInitInv DEF ServerInv
<1>2. ServerInv /\ [ServerNext]_serverVars => ServerInv'
  BY SlotsKept
<1>3. ServerInv => PoolsApart
  BY SlotsApart
<1> QED
  BY <1>1, <1>2, <1>3, PTL DEF ServerSpec

-----------------------------------------------------------------------------
(* What the pipes contain.  Value is Content for any table and any data.   *)
Value(t, d, p) == IF Behind(t, p.r).end = "r" THEN d[t[p.r].pipe] ELSE <<>>

(* A pipe nobody has a descriptor of is empty.                             *)
Stored(t, d) ==
  /\ d \in [Pipes -> Seq(Texts)]
  /\ \A i \in Pipes : (\A n \in Fds : t[n].pipe # i) => d[i] = <<>>

(* A descriptor that is open before and after is the same pipe's.          *)
Steady(t, u) == \A n \in Fds : t[n] # Free /\ u[n] # Free => u[n] = t[n]

(* The number of p's pipe. *)
Id(t, p) == t[p.r].pipe

(* The reading end of a pipe tells which pipe it is. *)
LEMMA ValueOf ==
  ASSUME NEW t \in Tables, NEW H \in SUBSET UnixPipe, Tidy(t, H), NEW p \in H, p # NoPipe
  PROVE  /\ p.r \in Fds /\ t[p.r] = [pipe |-> Id(t, p), end |-> "r"] /\ Id(t, p) \in Pipes
         /\ \A d : Value(t, d, p) = d[Id(t, p)]
         /\ p.w # Closed => p.w \in Fds /\ t[p.w] = [pipe |-> Id(t, p), end |-> "w"]
<1>1. Good(t, p) /\ p.r \in Fds \cup {Closed} /\ p.w \in Fds \cup {Closed}
  BY DEF Tidy, UnixPipe
<1>2. p.r # Closed
  <2> SUFFICES ASSUME p.r = Closed PROVE p = NoPipe
    OBVIOUS
  <2>1. p.w = Closed
    BY <1>1 DEF Good
  <2> QED
    BY <2>1 DEF UnixPipe, NoPipe
<1>3. p.r \in Fds /\ t[p.r].end = "r" /\ t[p.r] \in Ends
  BY <1>1, <1>2 DEF Good, Tables
<1>4. t[p.r] = [pipe |-> Id(t, p), end |-> "r"] /\ Id(t, p) \in Pipes
  BY <1>3 DEF Ends, Free, Id
<1>5. Behind(t, p.r) = t[p.r]
  BY <1>2 DEF Behind
<1>6. \A d : Value(t, d, p) = d[Id(t, p)]
  BY <1>3, <1>5 DEF Value, Id
<1>7. ASSUME p.w # Closed PROVE p.w \in Fds /\ t[p.w] = [pipe |-> Id(t, p), end |-> "w"]
  <2>1. p.w \in Fds /\ t[p.w].end = "w" /\ t[p.w].pipe = Id(t, p) /\ t[p.w] \in Ends
    BY <1>1, <1>7 DEF Good, Tables, Id
  <2> QED
    BY <2>1 DEF Ends, Free
<1> QED
  BY <1>3, <1>4, <1>6, <1>7

(* Nothing can be read where there is no pipe. *)
LEMMA NoValue ==
  ASSUME NEW t, NEW d, NEW p, p.r = Closed
  PROVE  Value(t, d, p) = <<>>
BY DEF Value, Behind, Free

(* Two pipes of a tidy table have two numbers. *)
LEMMA OneId ==
  ASSUME NEW t \in Tables, NEW H \in SUBSET UnixPipe, Tidy(t, H),
         NEW p \in H, NEW q \in H, p # NoPipe, q # NoPipe, Id(t, p) = Id(t, q)
  PROVE  p = q
<1>1. p.r \in Fds /\ q.r \in Fds
  BY ValueOf
<1>2. q.r \in FdsOf(p)
  <2>1. Good(t, p) /\ p.r # Closed /\ t[q.r].pipe = t[p.r].pipe
    BY <1>1 DEF Tidy, Id, Fds, Closed
  <2> QED
    BY <1>1, <2>1 DEF Good
<1>3. q.r \in FdsOf(q)
  BY <1>1 DEF FdsOf, Fds, Closed
<1> QED
  BY <1>2, <1>3, OneOwner

(* Values of typed data are sequences of outputs. *)
LEMMA ValueType ==
  ASSUME NEW t \in Tables, NEW H \in SUBSET UnixPipe, Tidy(t, H), NEW p \in H,
         NEW d \in [Pipes -> Seq(Texts)]
  PROVE  Value(t, d, p) \in Seq(Texts)
<1>1. CASE p = NoPipe
  <2>1. p.r = Closed
    BY <1>1, NoPipeType
  <2>2. Value(t, d, p) = <<>>
    BY <2>1, NoValue
  <2> QED
    BY <2>2
<1>2. CASE p # NoPipe
  <2>1. Value(t, d, p) = d[Id(t, p)] /\ Id(t, p) \in Pipes
    BY <1>2, ValueOf
  <2> QED
    BY <2>1
<1> QED
  BY <1>1, <1>2

(* What a pipe contains stays with its reading end. *)
Same(t, d, H, u, e, G) ==
  \A p \in H, q \in G : q.r = p.r => Value(u, e, q) = Value(t, d, p)

(* It does: close() takes descriptors away, and the kernel drops what is   *)
(* in a pipe only when none is left.                                       *)
LEMMA SameKept ==
  ASSUME NEW t \in Tables, NEW u \in Tables, Steady(t, u),
         NEW H \in SUBSET UnixPipe, NEW G \in SUBSET UnixPipe, Tidy(t, H), Tidy(u, G),
         NEW d \in [Pipes -> Seq(Texts)], NEW e, e = d \/ e = Kept(d, u)
  PROVE  Same(t, d, H, u, e, G)
<1> SUFFICES ASSUME NEW p \in H, NEW q \in G, q.r = p.r PROVE Value(u, e, q) = Value(t, d, p)
  BY DEF Same
<1>1. CASE p.r = Closed
  BY <1>1, NoValue
<1>2. CASE p.r # Closed
  <2>1. p # NoPipe /\ q # NoPipe
    BY <1>2, NoPipeType
  <2>2. /\ p.r \in Fds /\ t[p.r] = [pipe |-> Id(t, p), end |-> "r"] /\ Id(t, p) \in Pipes
        /\ Value(t, d, p) = d[Id(t, p)]
    BY <2>1, ValueOf
  <2>3. /\ q.r \in Fds /\ u[q.r] = [pipe |-> Id(u, q), end |-> "r"] /\ Id(u, q) \in Pipes
        /\ Value(u, e, q) = e[Id(u, q)]
    BY <2>1, ValueOf
  <2>4. u[q.r] = t[p.r]
    <3>1. \A i : [pipe |-> i, end |-> "r"] # Free
      BY DEF Free
    <3>2. t[p.r] # Free /\ u[p.r] # Free
      BY <2>2, <2>3, <3>1
    <3> QED
      BY <2>2, <3>2 DEF Steady
  <2>5. Id(u, q) = Id(t, p)
    BY <2>4 DEF Id
  <2>6. e[Id(u, q)] = d[Id(u, q)]
    BY <2>3 DEF Kept, Id
  <2> QED
    BY <2>2, <2>3, <2>5, <2>6
<1> QED
  BY <1>1, <1>2

(* The kernel frees what nobody has open. *)
LEMMA StoredKept ==
  ASSUME NEW u \in Tables, NEW d \in [Pipes -> Seq(Texts)]
  PROVE  Stored(u, Kept(d, u))
BY DEF Stored, Kept

(* pipe() gives a pipe that is empty, and changes no other. *)
Grows(t, u) == \A n \in Fds : t[n] # Free => u[n] = t[n]

(* p has just been made. *)
New(u, d, p) == p.w # Closed /\ Value(u, d, p) = <<>>

(* pipe() takes a pipe that nobody has a descriptor of. *)
LEMMA MadeEmpty ==
  ASSUME NEW t \in Tables, NEW u \in Tables, NEW p, NewPipe(t, u, p), NEW d, Stored(t, d)
  PROVE  Grows(t, u) /\ New(u, d, p) /\ Stored(u, d)
<1>1. PICK i \in Pipes :
         /\ \A n \in Fds : t[n].pipe # i
         /\ u = [t EXCEPT ![p.r] = [pipe |-> i, end |-> "r"], ![p.w] = [pipe |-> i, end |-> "w"]]
  BY DEF NewPipe
<1>2. p.r \in Fds /\ p.w \in Fds /\ p.r # p.w /\ t[p.r] = Free /\ t[p.w] = Free /\ Closed \notin Fds
  BY DEF NewPipe, Fds, Closed
<1>3. u[p.r] = [pipe |-> i, end |-> "r"] /\ u[p.w] = [pipe |-> i, end |-> "w"]
      /\ \A n \in Fds \ {p.r, p.w} : u[n] = t[n]
  BY <1>1, <1>2 DEF Tables
<1>4. Grows(t, u)
  BY <1>2, <1>3 DEF Grows
<1>5. New(u, d, p)
  <2>1. Behind(u, p.r) = u[p.r]
    BY <1>2 DEF Behind
  <2> QED
    BY <1>1, <1>2, <1>3, <2>1 DEF New, Value, Stored
<1>6. Stored(u, d)
  <2> SUFFICES ASSUME NEW j \in Pipes, \A n \in Fds : u[n].pipe # j PROVE d[j] = <<>>
    BY DEF Stored
  <2>1. \A n \in Fds : t[n].pipe # j
    <3>1. Free.pipe # j
      BY DEF Free, Pipes
    <3> QED
      BY <1>2, <1>3, <3>1
  <2> QED
    BY <2>1 DEF Stored
<1> QED
  BY <1>4, <1>5, <1>6

-----------------------------------------------------------------------------
(* What the pipes contain.                                                 *)

(* A command that is followed by "| " names no number. *)
Parsed(l) == \A k \in 1 .. Len(l) : l[k].next => l[k].out = Closed /\ l[k].err = Closed

(* The shell cuts a line at "| " or at "|n" and "!n", never at both        *)
(* (v2/shell.hpp:142, :217): so are the lines of the run.                  *)
ParsedLines == \A l \in Lines : Parsed(l)

(* The entries of a pool that can still be written to begin at k.          *)
Writers(pl, k) == \A n \in k .. Len(pl) : pl[n] # NoPipe => pl[n].w # Closed

(* The next line reads the second entry; it may have been shifted already, *)
(* by a line whose first command was unknown.                              *)
Writable == Writers(pool, IF first /\ pc \in {"prompt", "cut"} THEN 3 ELSE 2)

(* A pipe made for number n is empty, one that is found can be written to. *)
Ready(n, p) == n # Closed => p.w # Closed /\ (~In(pool, n) => Value(fds, data, p) = <<>>)

(* The pipes of the command that is being run: error_pipe can be written   *)
(* to, the pipe to the next command is new, those to later lines are       *)
(* Ready.                                                                  *)
FreshPipes ==
  /\ pc \in {"made", "forking"} => error_pipe.w # Closed
  /\ pc = "forking" =>
       IF Head(line).next THEN New(fds, data, next_pipe)
       ELSE Ready(stdout_count, stdout_pipe) /\ Ready(stderr_count, stderr_pipe)

(* No entry of the pool is further away than the largest number. *)
Room == Len(pool) <= MaxCount + Shift

(* The invariant of the contents: PoolInv(X), and what it takes for the    *)
(* output of a command to arrive where it is due. NoPipe and the pipes of  *)
(* X are those of others.                                                  *)
StoreInv(X) ==
  /\ PoolInv(X)
  /\ Parsed(line) /\ Stored(fds, data) /\ Writable /\ FreshPipes /\ Room

(* What waits for the n-th line, in a pool with shift sh.                  *)
Due(pl, sh, t, d) ==
  [n \in 1 .. MaxCount |-> IF n + sh <= Len(pl) THEN Value(t, d, pl[n + sh]) ELSE <<>>]

(* What the pipes of X contain stays as it is. *)
Untouched(X) == \A p \in X : Value(fds, data, p)' = Value(fds, data, p)

(* The steps that deliver nothing. *)
Idle(X) ==
  /\ Untouched(X)
  /\ Due(pool, Shift, fds, data)' = Due(pool, Shift, fds, data)
  /\ Value(fds, data, last_pipe)' = Value(fds, data, last_pipe)
  /\ UNCHANGED <<line, input>> /\ (first \/ line = <<>>)' = (first \/ line = <<>>)

(* The front of the pool is there, or has been taken off. *)
LEMMA ShiftType == Shift \in {0, 1}
BY DEF Shift

(* What every state with the invariant has. *)
LEMMA StoreTypes ==
  ASSUME NEW X \in SUBSET UnixPipe, StoreInv(X)
  PROVE  /\ PoolTypes /\ Tidy(fds, Held(X)) /\ Held(X) \in SUBSET UnixPipe
         /\ fds \in Tables /\ pool \in Seq(UnixPipe) /\ line \in Seq(Stage) /\ first \in BOOLEAN
         /\ Sound(line) /\ Parsed(line) /\ Apart(pool, X)
         /\ Stored(fds, data) /\ data \in [Pipes -> Seq(Texts)]
         /\ X \subseteq Held(X) /\ Entries(pool) \subseteq Held(X)
         /\ \A n \in 1 .. Len(pool) : pool[n] \in Held(X) /\ pool[n] \in UnixPipe
         /\ last_pipe \in UnixPipe /\ (pc # "prompt" => last_pipe \in Held(X))
         /\ Len(pool) \in Nat /\ MaxCount \in Nat \ {0}
BY HeldType, PoolAssumption DEF StoreInv, PoolInv, PoolTypes, Held, Entries, Locals, Stored

(* A pool that has not changed delivers the same. *)
LEMMA SamePool ==
  ASSUME NEW X \in SUBSET UnixPipe, NoPipe \in X, StoreInv(X), PoolInv(X)',
         Same(fds, data, Held(X), fds', data', Held(X)'),
         pool' = pool, Shift' = Shift
  PROVE  Due(pool, Shift, fds, data)' = Due(pool, Shift, fds, data)
<1>1. /\ Entries(pool) \subseteq Held(X) /\ Entries(pool') \subseteq Held(X)'
      /\ Len(pool) \in Nat /\ Shift \in {0, 1} /\ MaxCount \in Nat
  BY ShiftType, StoreTypes DEF Held
<1>2. ASSUME NEW n \in 1 .. MaxCount, n + Shift <= Len(pool)
      PROVE  Value(fds', data', pool[n + Shift]) = Value(fds, data, pool[n + Shift])
  <2>1. n + Shift \in 1 .. Len(pool)
    BY <1>1, <1>2
  <2>2. pool[n + Shift] \in Held(X) /\ pool[n + Shift] \in Held(X)'
    BY <1>1, <2>1 DEF Entries
  <2> QED
    BY <2>2 DEF Same
<1> QED
  BY <1>2 DEF Due

(* A line has ended. *)
LEMMA EndLineStored ==
  ASSUME NEW X \in SUBSET UnixPipe, NoPipe \in X, StoreInv(X), EndLine
  PROVE  StoreInv(X)' /\ Idle(X)
<1>1. /\ pc = "cut" /\ line = <<>> /\ pc' = "prompt" /\ first' = TRUE
      /\ UNCHANGED <<line, fds, data, pool, input>> /\ last_pipe' = NoPipe
  BY DEF EndLine
<1>2. PoolInv(X)' /\ last_pipe = NoPipe
  BY <1>1, EndLineStep DEF StoreInv, PoolInv, Waiting
<1>3. Shift' = 1 /\ Shift = 1
  BY <1>1 DEF Shift
<1>4. Writable'
  BY <1>1, StoreTypes DEF StoreInv, Writable, Writers
<1>5. StoreInv(X)'
  BY <1>1, <1>2, <1>3, <1>4 DEF StoreInv, FreshPipes, Room
<1> QED
  BY <1>1, <1>2, <1>3, <1>5 DEF Idle, Untouched

(* Closing takes nothing else away, and gives nothing. *)
LEMMA SteadyClosed ==
  ASSUME NEW t \in Tables, NEW u \in Tables, Grows(t, u), NEW S
  PROVE  Steady(t, CloseAll(u, S)) /\ Steady(t, u)
<1>1. \A n \in Fds : CloseAll(u, S)[n] \in {Free, u[n]}
  BY DEF CloseAll, Tables
<1> QED
  BY <1>1 DEF Steady, Grows

(* q is pl without its front: what waits for the lines is the same,        *)
(* counted from the new front.                                             *)
Delayed(pl, q, t, d, u, e) ==
  /\ Due(q, 0, u, e) = Due(pl, 1, t, d)
  /\ Len(q) <= Len(pl) /\ (Len(pl) >= 1 => Len(q) <= Len(pl) - 1)
  /\ Writers(pl, 3) => Writers(q, 2)

(* A shifted pool: line n from here is line n - 1 from the new front. *)
LEMMA ShiftedDue ==
  ASSUME NEW t \in Tables, NEW H \in SUBSET UnixPipe, NEW d,
         NEW u \in Tables, NEW G \in SUBSET UnixPipe, NEW e, Same(t, d, H, u, e, G),
         NEW pl \in Seq(UnixPipe), Entries(pl) \subseteq H,
         NEW q, q = Shifted(pl), Entries(q) \subseteq G
  PROVE  Delayed(pl, q, t, d, u, e)
<1> USE DEF Delayed
<1>0. Len(pl) \in Nat /\ MaxCount \in Nat
  BY PoolAssumption
<1>1. CASE Len(pl) < 2
  <2>1. q = <<>>
    BY <1>1 DEF Shifted
  <2>2. ASSUME NEW n \in 1 .. MaxCount PROVE ~(n + 0 <= Len(q)) /\ ~(n + 1 <= Len(pl))
    BY <1>0, <1>1, <2>1
  <2> QED
    BY <1>0, <1>1, <2>1, <2>2 DEF Due, Writers
<1>2. CASE Len(pl) >= 2
  <2>1. /\ q \in Seq(UnixPipe) /\ Len(q) = Len(pl) - 1 /\ pl[2] \in UnixPipe
        /\ q[1] = [pl[2] EXCEPT !.w = Closed]
        /\ \A n \in 2 .. Len(pl) - 1 : q[n] = pl[n + 1]
    BY <1>2, ShiftedPool
  <2>2. q[1].r = pl[2].r
    BY <2>1 DEF UnixPipe
  <2>3. ASSUME NEW n \in 1 .. Len(q)
        PROVE  q[n].r = pl[n + 1].r /\ q[n] \in G /\ pl[n + 1] \in H
    <3>1. n + 1 \in 1 .. Len(pl) /\ (n = 1 \/ n \in 2 .. Len(pl) - 1)
      BY <1>0, <1>2, <2>1
    <3>2. q[n].r = pl[n + 1].r
      <4>1. CASE n = 1
        BY <2>2, <4>1
      <4>2. CASE n \in 2 .. Len(pl) - 1
        BY <2>1, <4>2
      <4> QED
        BY <3>1, <4>1, <4>2
    <3> QED
      BY <3>1, <3>2 DEF Entries
  <2>4. ASSUME NEW n \in 1 .. Len(q) PROVE Value(u, e, q[n]) = Value(t, d, pl[n + 1])
    BY <2>3 DEF Same
  <2>5. Due(q, 0, u, e) = Due(pl, 1, t, d)
    <3>1. ASSUME NEW n \in 1 .. MaxCount
          PROVE  (n + 0 <= Len(q) <=> n + 1 <= Len(pl)) /\ n + 0 = n
                 /\ (n + 0 <= Len(q) => n \in 1 .. Len(q))
      BY <1>0, <2>1
    <3> QED
      BY <2>4, <3>1 DEF Due
  <2>6. Writers(pl, 3) => Writers(q, 2)
    <3>1. \A n \in 2 .. Len(q) : q[n] = pl[n + 1] /\ n + 1 \in 3 .. Len(pl)
      BY <1>0, <2>1
    <3> QED
      BY <3>1 DEF Writers
  <2> QED
    BY <1>0, <2>1, <2>5, <2>6
<1> QED
  BY <1>0, <1>1, <1>2

(* A new command: the pool may be shifted, nothing is delivered. *)
LEMMA CutStored ==
  ASSUME NEW X \in SUBSET UnixPipe, NoPipe \in X, StoreInv(X), Cut
  PROVE  StoreInv(X)' /\ Idle(X)
<1>1. PICK t, e, u : /\ t = Made(fds).fds /\ e = Made(fds).pipe /\ u = fds'
  OBVIOUS
<1>2. /\ pc = "cut" /\ line # <<>> /\ pc' = "made" /\ error_pipe' = e
      /\ Cardinality(FreeFds(fds)) >= 0 + 2
      /\ UNCHANGED <<line, first, next_pipe, last_pipe, input>>
      /\ data' = Kept(data, u)
      /\ \/ first /\ u = CloseAll(t, ShiftCloses(pool)) /\ pool' = Shifted(pool)
         \/ ~first /\ u = t /\ pool' = pool
  BY <1>1 DEF Cut, RoomFor
<1>3. /\ fds \in Tables /\ pool \in Seq(UnixPipe) /\ Tidy(fds, Held(X)) /\ Held(X) \in SUBSET UnixPipe
      /\ Stored(fds, data) /\ data \in [Pipes -> Seq(Texts)] /\ first \in BOOLEAN
      /\ Entries(pool) \subseteq Held(X) /\ X \subseteq Held(X) /\ last_pipe \in Held(X)
      /\ Len(pool) \in Nat /\ MaxCount \in Nat
  BY <1>2, StoreTypes
<1>4. NewPipe(fds, t, e) /\ t \in Tables
  BY <1>1, <1>2, <1>3, MadeNew
<1>5. Grows(fds, t) /\ New(t, data, e)
  BY <1>3, <1>4, MadeEmpty
<1>6. PoolInv(X)'
  BY CutStep DEF StoreInv
<1>7. /\ u \in Tables /\ Tidy(u, Held(X)') /\ Held(X)' \in SUBSET UnixPipe /\ pool' \in Seq(UnixPipe)
      /\ Entries(pool') \subseteq Held(X)' /\ X \subseteq Held(X)' /\ last_pipe' \in Held(X)'
  <2>1. PoolTypes' /\ Tidy(fds, Held(X))'
    BY <1>6 DEF PoolInv
  <2>2. Held(X)' \in SUBSET UnixPipe
    BY <2>1 DEF PoolTypes, Held, Locals, Entries
  <2> QED
    BY <1>1, <1>2, <2>1, <2>2 DEF PoolTypes, Held, Locals
<1>8. Steady(fds, u)
  BY <1>2, <1>3, <1>4, <1>5, SteadyClosed
<1>9. Same(fds, data, Held(X), u, data', Held(X)')
  BY <1>2, <1>3, <1>7, <1>8, SameKept
<1>10. Stored(fds, data)'
  BY <1>1, <1>2, <1>3, <1>7, StoredKept
<1>11. Due(pool, Shift, fds, data)' = Due(pool, Shift, fds, data) /\ Writable' /\ Room'
  <2>1. CASE first /\ pool' = Shifted(pool)
    <3>1. Shift = 1 /\ Shift' = 0 /\ Writers(pool, 3)
      BY <1>2, <2>1 DEF Shift, StoreInv, Writable
    <3>2. /\ Due(pool', 0, u, data') = Due(pool, 1, fds, data)
          /\ Len(pool') <= Len(pool) /\ (Len(pool) >= 1 => Len(pool') <= Len(pool) - 1)
          /\ Writers(pool, 3) => Writers(pool', 2)
      <4>1. PICK q, G, f : q = pool' /\ G = Held(X)' /\ f = data'
        OBVIOUS
      <4>2. /\ fds \in Tables /\ pool \in Seq(UnixPipe) /\ Held(X) \in SUBSET UnixPipe
            /\ Entries(pool) \subseteq Held(X)
            /\ u \in Tables /\ G \in SUBSET UnixPipe /\ Entries(q) \subseteq G
            /\ Same(fds, data, Held(X), u, f, G) /\ q = Shifted(pool)
        BY <1>3, <1>7, <1>9, <2>1, <4>1
      <4>3. Delayed(pool, q, fds, data, u, f)
        BY ONLY <4>2, ShiftedDue
      <4> QED
        BY <4>1, <4>3 DEF Delayed
    <3>3. Writable'
      BY <1>2, <3>1, <3>2 DEF Writable
    <3>4. Room'
      <4>1. Len(pool) <= MaxCount + 1 /\ Len(pool') \in Nat
        BY <1>7, <3>1 DEF StoreInv, Room
      <4> QED
        BY <1>3, <3>1, <3>2, <4>1 DEF Room
    <3> QED
      BY <1>1, <3>1, <3>2, <3>3, <3>4
  <2>2. CASE ~first /\ pool' = pool
    <3>1. Shift' = Shift
      BY <1>2, <2>2 DEF Shift
    <3>2. Due(pool, Shift, fds, data)' = Due(pool, Shift, fds, data)
      BY <1>1, <1>6, <1>9, <2>2, <3>1, SamePool
    <3> QED
      BY <1>2, <2>2, <3>1, <3>2 DEF StoreInv, Writable, Room
  <2> QED
    BY <1>2, <2>1, <2>2
<1>12. FreshPipes'
  BY <1>2, <1>5 DEF FreshPipes, New
<1>13. Parsed(line)'
  BY <1>2 DEF StoreInv
<1>14. Idle(X)
  <2>1. Untouched(X) /\ Value(fds, data, last_pipe)' = Value(fds, data, last_pipe)
    BY <1>1, <1>2, <1>3, <1>7, <1>9 DEF Untouched, Same
  <2> QED
    BY <1>2, <1>11, <2>1 DEF Idle
<1> QED
  BY <1>6, <1>10, <1>11, <1>12, <1>13, <1>14 DEF StoreInv

(* What create_numbered_pipe gives can be written to; a new pipe is empty. *)
Ample(t, n, d, k, c) ==
  /\ c.fds \in Tables /\ Cardinality(FreeFds(c.fds)) >= k
  /\ Grows(t, c.fds) /\ Stored(c.fds, d)
  /\ n # Closed => c.pipe.w # Closed
  /\ n # Closed /\ ~In(pool, n) =>
       /\ Value(c.fds, d, c.pipe) = <<>>
       /\ c.pipe.r \in Fds /\ c.fds[c.pipe.r] # Free

(* create_numbered_pipe gives such a pipe, from the pool or from pipe(). *)
LEMMA CreatedAmple ==
  ASSUME NEW t \in Tables, NEW k \in Nat, Cardinality(FreeFds(t)) >= k + 2,
         pool \in Seq(UnixPipe), Writers(pool, 2), NEW d, Stored(t, d),
         NEW n \in {Closed} \cup (Nat \ {0}), NEW c, c = CreateNumberedPipe(t, n)
  PROVE  Ample(t, n, d, k, c)
<1>0. Cardinality(FreeFds(t)) \in Nat
  BY FreeCounted
<1>1. CASE n = Closed
  <2>1. c.fds = t
    BY <1>1 DEF CreateNumberedPipe
  <2> QED
    BY <1>0, <1>1, <2>1 DEF Ample, Grows
<1>2. CASE n # Closed /\ In(pool, n)
  <2>1. c.fds = t /\ c.pipe = pool[n + 1]
    BY <1>2 DEF CreateNumberedPipe, In, InPool
  <2>2. n + 1 \in 2 .. Len(pool) /\ pool[n + 1] # NoPipe
    BY <1>2, NoPipeType DEF In, IsAlive, Closed
  <2> QED
    BY <1>0, <1>2, <2>1, <2>2 DEF Ample, Grows, Writers
<1>3. CASE n # Closed /\ ~In(pool, n)
  <2>1. c = Made(t)
    BY <1>3 DEF CreateNumberedPipe, In, InPool
  <2>2. PICK u, p : u = c.fds /\ p = c.pipe
    OBVIOUS
  <2>3. NewPipe(t, u, p) /\ u \in Tables /\ Cardinality(FreeFds(u)) >= k
    BY <2>1, <2>2, MadeNew
  <2>4. Grows(t, u) /\ New(u, d, p) /\ Stored(u, d)
    BY <2>3, MadeEmpty
  <2>5. p.r \in Fds /\ u[p.r] # Free
    BY <2>3 DEF NewPipe, Tables, Free
  <2> QED
    BY <1>3, <2>2, <2>3, <2>4, <2>5 DEF Ample, New
<1> QED
  BY <1>1, <1>2, <1>3

(* The pipes of a command: nothing is delivered yet. *)
LEMMA MakePipesStored ==
  ASSUME NEW X \in SUBSET UnixPipe, NoPipe \in X, StoreInv(X), MakePipes
  PROVE  StoreInv(X)' /\ Idle(X)
<1>1. PICK s, u : s = Head(line) /\ u = fds'
  OBVIOUS
<1>2. /\ pc = "made" /\ pc' = "forking" /\ Cardinality(FreeFds(fds)) >= 2 + 2
      /\ UNCHANGED <<line, data, pool, first, last_pipe, error_pipe, input>>
  BY DEF MakePipes, RoomFor
<1>3. /\ fds \in Tables /\ pool \in Seq(UnixPipe) /\ Tidy(fds, Held(X)) /\ Held(X) \in SUBSET UnixPipe
      /\ Stored(fds, data) /\ data \in [Pipes -> Seq(Texts)] /\ first \in BOOLEAN
      /\ X \subseteq Held(X) /\ last_pipe \in Held(X)
      /\ line \in Seq(Stage) /\ line # <<>> /\ Sound(line)
  BY <1>2, StoreTypes DEF StoreInv, PoolInv, LoopsOwn
<1>4. PoolInv(X)'
  BY MakePipesStep DEF StoreInv
<1>5. /\ u \in Tables /\ Tidy(u, Held(X)') /\ Held(X)' \in SUBSET UnixPipe
      /\ X \subseteq Held(X)' /\ last_pipe' \in Held(X)'
  <2>1. PoolTypes' /\ Tidy(fds, Held(X))'
    BY <1>4 DEF PoolInv
  <2>2. Held(X)' \in SUBSET UnixPipe
    BY <2>1 DEF PoolTypes, Held, Locals, Entries
  <2> QED
    BY <1>1, <1>2, <2>1, <2>2 DEF PoolTypes, Held, Locals
<1>6. /\ s.next \in BOOLEAN
      /\ s.out \in {Closed} \cup (Nat \ {0}) /\ s.err \in {Closed} \cup (Nat \ {0})
  BY <1>1, <1>3, LineHead
<1>7. Writers(pool, 2)
  BY <1>2 DEF StoreInv, Writable
<1>8. Grows(fds, u) /\ Stored(u, data) /\ FreshPipes'
  <2>1. CASE s.next
    <3>1. next_pipe' = Made(fds).pipe /\ u = Made(fds).fds
      BY <1>1, <2>1 DEF MakePipes
    <3>2. NewPipe(fds, u, next_pipe')
      BY <1>2, <1>3, <3>1, MadeNew
    <3>3. Grows(fds, u) /\ New(u, data, next_pipe') /\ Stored(u, data)
      <4>1. PICK p : p = next_pipe'
        OBVIOUS
      <4> QED
        BY <1>3, <1>5, <3>2, <4>1, MadeEmpty
    <3>4. FreshPipes'
      <4>1. New(fds, data, next_pipe)'
        BY <1>1, <1>2, <3>3 DEF New
      <4> QED
        BY <1>1, <1>2, <2>1, <4>1 DEF FreshPipes, StoreInv
    <3> QED
      BY <3>3, <3>4
  <2>2. CASE ~s.next
    <3>1. PICK o, e : o = CreateNumberedPipe(fds, s.out) /\ e = CreateNumberedPipe(o.fds, s.err)
      OBVIOUS
    <3>2. /\ s.out # Closed => stdout_pipe' = o.pipe
          /\ s.err # Closed => stderr_pipe' = e.pipe
          /\ stdout_count' = s.out /\ stderr_count' = s.err
          /\ u = e.fds
      <4>1. Unset
        BY <1>2 DEF StoreInv, PoolInv, Waiting
      <4> QED
        BY <1>1, <2>2, <3>1, <4>1 DEF MakePipes, Unset
    <3>3. Ample(fds, s.out, data, 2, o)
      BY <1>2, <1>3, <1>6, <1>7, <3>1, CreatedAmple
    <3>4. o.fds \in Tables /\ Cardinality(FreeFds(o.fds)) >= 0 + 2 /\ Stored(o.fds, data)
      BY <3>3 DEF Ample
    <3>5. Ample(o.fds, s.err, data, 0, e)
      BY <1>3, <1>6, <1>7, <3>1, <3>4, CreatedAmple
    <3>6. Grows(fds, u) /\ Stored(u, data)
      BY <3>2, <3>3, <3>5 DEF Ample, Grows
    <3>7. s.err # Closed => e.pipe.w # Closed /\ (~In(pool, s.err) => Value(u, data, e.pipe) = <<>>)
      BY <3>2, <3>5 DEF Ample
    <3>8. s.out # Closed => o.pipe.w # Closed /\ (~In(pool, s.out) => Value(u, data, o.pipe) = <<>>)
      <4>1. ASSUME s.out # Closed, ~In(pool, s.out) PROVE Value(u, data, o.pipe) = <<>>
        <5>1. /\ Value(o.fds, data, o.pipe) = <<>>
              /\ o.pipe.r \in Fds /\ o.fds[o.pipe.r] # Free
          BY <3>3, <4>1 DEF Ample
        <5>2. u[o.pipe.r] = o.fds[o.pipe.r]
          BY <3>2, <3>5, <5>1 DEF Ample, Grows
        <5> QED
          BY <5>1, <5>2 DEF Value, Behind
      <4> QED
        BY <3>3, <4>1 DEF Ample
    <3>9. FreshPipes'
      <4>1. Ready(stdout_count, stdout_pipe)' /\ Ready(stderr_count, stderr_pipe)'
        BY <1>1, <1>2, <3>2, <3>7, <3>8 DEF Ready
      <4> QED
        BY <1>1, <1>2, <2>2, <4>1 DEF FreshPipes, StoreInv
    <3> QED
      BY <3>6, <3>9
  <2> QED
    BY <1>6, <2>1, <2>2
<1>9. Steady(fds, u)
  BY <1>8 DEF Steady, Grows
<1>10. Same(fds, data, Held(X), u, data, Held(X)')
  BY <1>3, <1>5, <1>9, SameKept
<1>11. Shift' = Shift /\ Writable' /\ Room'
  BY <1>2 DEF Shift, Writable, StoreInv, Room
<1>12. Due(pool, Shift, fds, data)' = Due(pool, Shift, fds, data)
  BY <1>1, <1>2, <1>4, <1>10, <1>11, SamePool
<1>13. Untouched(X) /\ Value(fds, data, last_pipe)' = Value(fds, data, last_pipe)
  BY <1>1, <1>2, <1>3, <1>5, <1>10 DEF Untouched, Same
<1> QED
  BY <1>1, <1>2, <1>4, <1>8, <1>11, <1>12, <1>13 DEF StoreInv, Idle

(* What is recorded under a number stands there, at the end at the latest. *)
Placed(pl, n, p, q) ==
  /\ n # Closed => In(q, n) /\ q[n + 1] = p
  /\ Len(q) = Len(pl) \/ (n # Closed /\ Len(q) = n + 1)

(* record_pipe_info puts a pipe there, and fills up with NoPipe. *)
LEMMA RecordedAt ==
  ASSUME NEW pl \in Seq(UnixPipe), NEW n \in {Closed} \cup (Nat \ {0}),
         NEW p \in UnixPipe, Fits(pl, n, p),
         NEW q, q = RecordPipeInfo(pl, n, p)
  PROVE  Placed(pl, n, p, q)
<1> USE DEF Placed
<1>1. CASE n = Closed
  BY <1>1 DEF RecordPipeInfo
<1>2. CASE n # Closed /\ In(pl, n)
  <2>1. n < Len(pl) /\ p = pl[n + 1] /\ n + 1 \in 1 .. Len(pl) /\ IsAlive(pl[n + 1])
    BY <1>2 DEF In, Fits, Closed
  <2>2. q = [pl EXCEPT ![n + 1] = pl[n + 1]]
    BY <1>2, <2>1 DEF RecordPipeInfo
  <2>3. q = pl
    BY ONLY <2>2, pl \in Seq(UnixPipe)
  <2> QED
    BY <1>2, <2>1, <2>3
<1>3. CASE n # Closed /\ ~In(pl, n) /\ n < Len(pl)
  <2>1. n + 1 \in 1 .. Len(pl) /\ ~IsAlive(pl[n + 1]) /\ p # NoPipe
    BY <1>3 DEF In, Fits, Closed
  <2>2. q = [pl EXCEPT ![n + 1] = p]
    BY <1>3, <2>1 DEF RecordPipeInfo
  <2>3. Len(q) = Len(pl) /\ q[n + 1] = p
    BY <2>1, <2>2
  <2> QED
    BY <1>3, <2>1, <2>3, Alive DEF In
<1>4. CASE n # Closed /\ ~(n < Len(pl))
  <2>1. n >= Len(pl) /\ n \in Nat /\ p # NoPipe
    BY <1>4 DEF Fits
  <2>2. q = pl \o [k \in 1 .. n - Len(pl) |-> NoPipe] \o <<p>>
    BY <1>4, <2>1 DEF RecordPipeInfo
  <2>3. Len(q) = n + 1 /\ q[n + 1] = p
    BY <2>1, <2>2, NoPipeType, SeqPadded
  <2> QED
    BY <1>4, <2>1, <2>3, Alive DEF In
<1> QED
  BY <1>1, <1>2, <1>3, <1>4

(* Pipes of a tidy table that differ have no descriptor in common. *)
LEMMA NoneCommon ==
  ASSUME NEW t \in Tables, NEW H \in SUBSET UnixPipe, Tidy(t, H),
         NEW p \in H, NEW q \in H, p # q
  PROVE  \A n : n \in FdsOf(p) => n \notin FdsOf(q)
BY OneOwner

(* What the command writes to. *)
Out == IF Head(line).next THEN next_pipe ELSE stdout_pipe

(* The pipes made for a command belong to nobody else. *)
LEMMA OutOwn ==
  ASSUME NEW X \in SUBSET UnixPipe, NoPipe \in X, PoolInv(X), pc = "forking"
  PROVE  /\ \A p \in {Out, stderr_pipe} :
              /\ p \in Held(X)
              /\ p # NoPipe => p \notin X \cup {last_pipe, error_pipe, Source}
         /\ Out # NoPipe => Out # stderr_pipe
         /\ error_pipe \in Held(X) /\ error_pipe # NoPipe
         /\ error_pipe \notin X \cup Entries(pool) \cup {last_pipe, Source}
         /\ Source \in Held(X) /\ (Source # NoPipe => Source \notin X)
         /\ \A n \in 2 .. Len(pool) : pool[n] # NoPipe => pool[n] # Source
<1>1. /\ Apart(pool, X) /\ Fronts /\ LoopsOwn(X) /\ Forking(X) /\ pool \in Seq(UnixPipe)
      /\ first \in BOOLEAN /\ line \in Seq(Stage) /\ line # <<>> /\ Sound(line)
  BY DEF PoolInv, PoolTypes, LoopsOwn
<1>2. /\ error_pipe # NoPipe /\ error_pipe \notin X \cup Entries(pool) \cup {last_pipe}
      /\ last_pipe # NoPipe => last_pipe \notin X \cup Entries(pool)
  BY <1>1 DEF LoopsOwn
<1>3. /\ Front(pool) # NoPipe => Front(pool) \in Entries(pool) /\ Front(pool) = pool[1] /\ pool # <<>>
      /\ pool # <<>> => 1 \in 1 .. Len(pool)
  BY <1>1, FrontType
<1>4. Source # NoPipe => Source \in Entries(pool) \cup {last_pipe} /\ Source \notin X
  BY <1>1, <1>2, <1>3 DEF Source, Apart
<1>5. Source \in Held(X) /\ error_pipe \in Held(X)
  BY AboutToRun
<1>6. error_pipe # Source
  BY <1>2, <1>4
<1>7. \A n \in 2 .. Len(pool) : pool[n] # NoPipe => pool[n] # Source
  <2> SUFFICES ASSUME NEW n \in 2 .. Len(pool), pool[n] # NoPipe, pool[n] = Source PROVE FALSE
    OBVIOUS
  <2>1. n \in 1 .. Len(pool) /\ 1 \in 1 .. Len(pool) /\ n # 1 /\ pool[n] \in Entries(pool)
    BY <1>1 DEF Entries
  <2>2. Source = Front(pool) /\ Front(pool) = pool[1]
    BY <1>2, <1>3, <2>1 DEF Source
  <2> QED
    BY <1>1, <2>1, <2>2 DEF Apart
<1>8. ASSUME NEW n \in {Closed} \cup (Nat \ {0}), NEW p, Sent(X, n, p), p # NoPipe
      PROVE  p \notin X \cup {last_pipe, error_pipe, Source}
  <2>1. p \notin X \cup {last_pipe, error_pipe} /\ Fits(pool, n, p) /\ n \in Nat \ {0} /\ n # Closed
    BY <1>8 DEF Sent, Fits
  <2>2. p # Source
    <3>1. CASE In(pool, n)
      <4>1. p = pool[n + 1] /\ n + 1 \in 2 .. Len(pool)
        BY <1>1, <2>1, <3>1 DEF Fits, In
      <4> QED
        BY <1>7, <1>8, <4>1
    <3>2. CASE ~In(pool, n)
      <4>1. p \notin Entries(pool)
        BY <2>1, <3>2 DEF Fits
      <4> QED
        BY <1>4, <1>8, <2>1, <4>1
    <3> QED
      BY <3>1, <3>2
  <2> QED
    BY <2>1, <2>2
<1>9. /\ \A p \in {Out, stderr_pipe} :
           /\ p \in Held(X)
           /\ p # NoPipe => p \notin X \cup {last_pipe, error_pipe, Source}
      /\ Out # NoPipe => Out # stderr_pipe
  <2>1. CASE Head(line).next
    <3>1. /\ stderr_pipe = NoPipe /\ next_pipe # NoPipe
          /\ next_pipe \notin X \cup Entries(pool) \cup {last_pipe, error_pipe}
      BY <1>1, <2>1 DEF Forking, Piped, Unset
    <3>2. next_pipe \in Held(X) /\ NoPipe \in Held(X)
      BY <2>1 DEF Held, Locals
    <3> QED
      BY <1>4, <2>1, <3>1, <3>2 DEF Out
  <2>2. CASE ~Head(line).next
    <3>1. /\ Sent(X, Head(line).out, stdout_pipe) /\ Sent(X, Head(line).err, stderr_pipe)
          /\ Head(line).out \in {Closed} \cup (Nat \ {0})
          /\ Head(line).err \in {Closed} \cup (Nat \ {0})
          /\ stdout_pipe # NoPipe => stdout_pipe # stderr_pipe
      BY <1>1, <2>2, LineHead DEF Forking, Numbered
    <3>2. stdout_pipe \in Held(X) /\ stderr_pipe \in Held(X)
      BY <2>2 DEF Held, Locals
    <3>3. Out = stdout_pipe
      BY <2>2 DEF Out
    <3>4. stdout_pipe # NoPipe => stdout_pipe \notin X \cup {last_pipe, error_pipe, Source}
      BY <1>8, <3>1
    <3>5. stderr_pipe # NoPipe => stderr_pipe \notin X \cup {last_pipe, error_pipe, Source}
      BY <1>8, <3>1
    <3> QED
      BY <3>1, <3>2, <3>3, <3>4, <3>5
  <2> QED
    BY <2>1, <2>2
<1> QED
  BY <1>2, <1>4, <1>5, <1>6, <1>7, <1>9

(* Where the child's three streams go. *)
LEMMA ChildEnds ==
  ASSUME NEW X \in SUBSET UnixPipe, NoPipe \in X, PoolInv(X), pc = "forking"
  PROVE  /\ Stdin = Behind(fds, Source.r)
         /\ Stdout = Behind(fds, Out.w) /\ Stderr = Behind(fds, stderr_pipe.w)
<1>1. /\ fds \in Tables /\ Tidy(fds, Held(X)) /\ Held(X) \in SUBSET UnixPipe
      /\ last_pipe \in Held(X) /\ error_pipe \in Held(X) /\ Source \in Held(X) /\ first \in BOOLEAN
      /\ Source.w = Closed \/ (~first /\ Source = last_pipe)
  BY AboutToRun
<1>2. Closed \notin Fds /\ DOMAIN fds = Fds
  BY <1>1 DEF Fds, Closed, Tables
<1>3. \A n \in Fds : ChildFds[n] = IF n \in {last_pipe.w, error_pipe.r} THEN Free ELSE fds[n]
  BY <1>2 DEF ChildFds, CloseAll
<1>4. ASSUME NEW p \in Held(X), p # NoPipe => p # last_pipe /\ p # error_pipe,
             NEW n \in {p.r, p.w}
      PROVE  Behind(ChildFds, n) = Behind(fds, n)
  <2>1. CASE n = Closed
    BY <2>1 DEF Behind
  <2>2. CASE n # Closed
    <3>1. p # NoPipe /\ n \in FdsOf(p)
      BY <1>4, <2>2, NoPipeType DEF FdsOf
    <3>2. n \notin FdsOf(last_pipe) /\ n \notin FdsOf(error_pipe)
      BY <1>1, <1>4, <3>1, NoneCommon
    <3>3. n \notin {last_pipe.w, error_pipe.r} /\ n \in Fds
      BY <1>1, <2>2, <3>1, <3>2, OpenEnd DEF FdsOf
    <3> QED
      BY <1>3, <3>3 DEF Behind
  <2> QED
    BY <2>1, <2>2
<1>5. Stdout = Behind(fds, Out.w) /\ Stderr = Behind(fds, stderr_pipe.w)
  <2>1. \A p \in {Out, stderr_pipe} : p \in Held(X) /\ (p # NoPipe => p # last_pipe /\ p # error_pipe)
    BY OutOwn
  <2>2. Behind(ChildFds, Out.w) = Behind(fds, Out.w)
    BY <1>4, <2>1
  <2>3. Behind(ChildFds, stderr_pipe.w) = Behind(fds, stderr_pipe.w)
    BY <1>4, <2>1
  <2> QED
    BY <2>2, <2>3 DEF Stdout, Stderr, Out
<1>6. Behind(ChildFds, Source.r) = Behind(fds, Source.r)
  <2>1. CASE Source.r = Closed
    BY <2>1 DEF Behind
  <2>2. CASE Source.r # Closed
    <3>1. Source # NoPipe /\ Source # error_pipe
      BY <2>2, NoPipeType, OutOwn
    <3>2. Source.r \in Fds /\ Source.r \in FdsOf(Source) /\ fds[Source.r].end = "r"
      <4>1. PICK s : s = Source
        OBVIOUS
      <4>2. s.r \in Fds /\ fds[s.r] = [pipe |-> Id(fds, s), end |-> "r"]
        BY <1>1, <3>1, <4>1, ValueOf
      <4>3. fds[s.r].end = "r"
        BY <4>2
      <4> QED
        BY <2>2, <4>1, <4>2, <4>3 DEF FdsOf
    <3>3. Source.r # error_pipe.r
      BY <1>1, <3>1, <3>2, NoneCommon DEF FdsOf
    <3>4. Source.r # last_pipe.w
      <4>1. CASE Source = last_pipe
        <5>1. CASE last_pipe.w = Closed
          BY <1>2, <3>2, <5>1
        <5>2. CASE last_pipe.w # Closed
          <6>1. fds[last_pipe.w] = [pipe |-> Id(fds, last_pipe), end |-> "w"]
            BY <1>1, <3>1, <4>1, <5>2, ValueOf
          <6>2. fds[last_pipe.w].end = "w"
            BY <6>1
          <6> QED
            BY <3>2, <6>2
        <5> QED
          BY <5>1, <5>2
      <4>2. CASE Source # last_pipe
        <5>1. Source.r \notin FdsOf(last_pipe)
          BY <1>1, <3>2, <4>2, NoneCommon
        <5> QED
          BY <1>2, <3>2, <5>1 DEF FdsOf
      <4> QED
        BY <4>1, <4>2
    <3> QED
      BY <1>3, <3>2, <3>3, <3>4 DEF Behind
  <2> QED
    BY <2>1, <2>2
<1>7. Stdin = Behind(ChildFds, Source.r)
  <2>1. CASE first
    <3>1. Front(pool) = Source /\ Front(pool).w = Closed
      BY <1>1, <2>1 DEF Source
    <3>2. \A n \in Fds : CloseAll(ChildFds, {Closed})[n] = ChildFds[n]
      <4>1. DOMAIN ChildFds = Fds
        BY <1>2 DEF ChildFds, CloseAll
      <4> QED
        BY <1>2, <4>1 DEF CloseAll
    <3>3. Source.r \in Fds \cup {Closed}
      BY <1>1 DEF UnixPipe
    <3> QED
      BY <2>1, <3>1, <3>2, <3>3 DEF Stdin, Behind
  <2>2. CASE ~first
    BY <2>2 DEF Stdin, Source
  <2> QED
    BY <1>1, <2>1, <2>2
<1> QED
  BY <1>5, <1>6, <1>7

(* The message of exit_error (v2/shell.hpp) arrives: the child still has   *)
(* the writing end of error_pipe, the shell the reading end.               *)
LEMMA UnknownReported ==
  ASSUME NEW X \in SUBSET UnixPipe, NoPipe \in X, StoreInv(X), pc = "forking", ~Head(line).known
  PROVE  Reported
<1>1. /\ PoolInv(X) /\ error_pipe.w # Closed
  BY DEF StoreInv, FreshPipes
<1>2. /\ fds \in Tables /\ Tidy(fds, Held(X)) /\ Held(X) \in SUBSET UnixPipe /\ first \in BOOLEAN
      /\ last_pipe \in Held(X) /\ error_pipe \in Held(X) /\ error_pipe # NoPipe
      /\ error_pipe # last_pipe /\ error_pipe \notin Entries(pool)
      /\ Entries(pool) \subseteq Held(X) /\ Front(pool).w = Closed
  BY <1>1, AboutToRun, OutOwn DEF Held, PoolInv, Fronts
<1>3. PICK e, i : e = error_pipe /\ i = Id(fds, error_pipe)
  OBVIOUS
<1>4. /\ e.r \in Fds /\ fds[e.r] = [pipe |-> i, end |-> "r"]
      /\ e.w \in Fds /\ fds[e.w] = [pipe |-> i, end |-> "w"] /\ i \in Pipes
  BY <1>1, <1>2, <1>3, ValueOf
<1>5. e.r # e.w /\ Closed \notin Fds /\ e.r \in FdsOf(e) /\ e.w \in FdsOf(e)
  <2>1. fds[e.r].end = "r" /\ fds[e.w].end = "w"
    BY <1>4
  <2> QED
    BY <1>4, <2>1 DEF FdsOf, Fds, Closed
<1>6. \A p \in Held(X) : p # e => e.r \notin FdsOf(p) /\ e.w \notin FdsOf(p)
  BY <1>2, <1>3, <1>5, NoneCommon
<1>7. e.r \notin FdsOf(last_pipe) /\ e.w \notin FdsOf(last_pipe) /\ e.w # last_pipe.w /\ e.w # Closed
  BY <1>2, <1>3, <1>4, <1>5, <1>6 DEF FdsOf
<1>8. WaitFds[e.r] = fds[e.r]
  <2>1. Without(fds, FdsOf(last_pipe) \cup {error_pipe.w}, WaitFds)
    BY <1>2, Closing DEF WaitFds
  <2> QED
    BY <1>3, <1>4, <1>5, <1>7, <2>1 DEF Without
<1>9. ExecFds[e.w] = fds[e.w]
  <2>1. Without(fds, {last_pipe.w, error_pipe.r}, ChildFds)
    BY <1>2, Closing DEF ChildFds
  <2> DEFINE S == (IF first THEN {Front(pool).w} ELSE {})
                    \cup UNION {FdsOf(pool[n]) : n \in (IF first THEN 3 ELSE 2) .. Len(pool)}
  <2>2. Without(ChildFds, S, ExecFds)
    BY <2>1, Closing DEF ExecFds, Without
  <2>3. e.w \notin S
    <3>1. \A n \in (IF first THEN 3 ELSE 2) .. Len(pool) : n \in 1 .. Len(pool)
      OBVIOUS
    <3>2. \A n \in 1 .. Len(pool) : pool[n] \in Held(X) /\ pool[n] # e
      BY <1>2, <1>3 DEF Entries
    <3> QED
      BY <1>2, <1>6, <1>7, <3>1, <3>2
  <2> HIDE DEF S
  <2> QED
    BY <1>3, <1>4, <1>5, <1>7, <2>1, <2>2, <2>3 DEF Without
<1>10. ErrorEnd = [pipe |-> i, end |-> "r"] /\ Behind(ExecFds, error_pipe.w) = [pipe |-> i, end |-> "w"]
  BY <1>3, <1>4, <1>5, <1>8, <1>9 DEF ErrorEnd, Behind
<1>11. i \in Into([pipe |-> i, end |-> "w"])
  BY DEF Into
<1> QED
  BY <1>10, <1>11 DEF Reported

(* What the command adds to pipe p. *)
Added(p) == IF p \in {Out, stderr_pipe} THEN <<Head(line).text>> ELSE <<>>

(* The pipes made for a command can be written to, if they are pipes. *)
LEMMA OutWritable ==
  ASSUME NEW X \in SUBSET UnixPipe, NoPipe \in X, StoreInv(X), pc = "forking"
  PROVE  \A p \in {Out, stderr_pipe} : p # NoPipe => p.w # Closed
<1>1. Forking(X) /\ FreshPipes /\ Head(line).next \in BOOLEAN
  <2>1. line \in Seq(Stage) /\ line # <<>> /\ Sound(line)
    BY DEF StoreInv, PoolInv, LoopsOwn, PoolTypes
  <2> QED
    BY <2>1, LineHead DEF StoreInv, PoolInv
<1>2. CASE Head(line).next
  BY <1>1, <1>2 DEF Forking, Piped, Unset, FreshPipes, New, Out
<1>3. CASE ~Head(line).next
  BY <1>1, <1>3 DEF Forking, Numbered, Sent, Fits, FreshPipes, Ready, Out
<1> QED
  BY <1>1, <1>2, <1>3

(* One copy of what the command prints goes to each of its pipes. *)
LEMMA OutputOf ==
  ASSUME NEW X \in SUBSET UnixPipe, NoPipe \in X, StoreInv(X), pc = "forking",
         NEW p \in Held(X), p # NoPipe
  PROVE  Output(Id(fds, p)) = Added(p)
<1>1. /\ fds \in Tables /\ Tidy(fds, Held(X)) /\ Held(X) \in SUBSET UnixPipe
      /\ Out \in Held(X) /\ stderr_pipe \in Held(X) /\ (Out # NoPipe => Out # stderr_pipe)
      /\ Stdout = Behind(fds, Out.w) /\ Stderr = Behind(fds, stderr_pipe.w)
  BY AboutToRun, OutOwn, ChildEnds DEF StoreInv
<1>2. ASSUME NEW q \in {Out, stderr_pipe}, NEW e, e = Behind(fds, q.w)
      PROVE  (e.end = "w" /\ e.pipe = Id(fds, p)) <=> p = q
  <2>1. CASE q = NoPipe
    <3>1. e = Free
      BY <1>2, <2>1, NoPipeType DEF Behind
    <3> QED
      BY <2>1, <3>1 DEF Free
  <2>2. CASE q # NoPipe
    <3>1. q \in Held(X) /\ q.w # Closed
      BY <1>1, <2>2, OutWritable
    <3>2. fds[q.w] = [pipe |-> Id(fds, q), end |-> "w"]
      BY <1>1, <2>2, <3>1, ValueOf
    <3>3. e.end = "w" /\ e.pipe = Id(fds, q)
      BY <1>2, <3>1, <3>2 DEF Behind
    <3> QED
      BY <1>1, <2>2, <3>1, <3>3, OneId
  <2> QED
    BY <2>1, <2>2
<1>3. (Stdout.end = "w" /\ Stdout.pipe = Id(fds, p)) <=> p = Out
  BY <1>1, <1>2
<1>4. (Stderr.end = "w" /\ Stderr.pipe = Id(fds, p)) <=> p = stderr_pipe
  BY <1>1, <1>2
<1>5. <<>> \o <<>> = <<>> /\ <<Head(line).text>> \o <<>> = <<Head(line).text>>
      /\ <<>> \o <<Head(line).text>> = <<Head(line).text>>
  OBVIOUS
<1> QED
  BY <1>1, <1>3, <1>4, <1>5 DEF Output, Added

(* After a command its pipes have its output, after what they had before;  *)
(* no other pipe but its input's has changed.                              *)
LEMMA DataWritten ==
  ASSUME NEW X \in SUBSET UnixPipe, NoPipe \in X, StoreInv(X), pc = "forking", Head(line).known
  PROVE  /\ DataAfter \in [Pipes -> Seq(Texts)]
         /\ \A p \in Held(X) : p # NoPipe /\ p # Source =>
              Value(fds, DataAfter, p) = Value(fds, data, p) \o Added(p)
<1>1. /\ fds \in Tables /\ Tidy(fds, Held(X)) /\ Held(X) \in SUBSET UnixPipe
      /\ Source \in Held(X) /\ Stdin = Behind(fds, Source.r)
  BY AboutToRun, ChildEnds DEF StoreInv
<1>2. data \in [Pipes -> Seq(Texts)] /\ Head(line).text \in Texts
  <2>1. line \in Seq(Stage) /\ line # <<>> /\ Sound(line)
    BY DEF StoreInv, PoolInv, LoopsOwn, PoolTypes
  <2> QED
    BY <2>1, LineHead, StoreTypes DEF Stage
<1>3. \A i : Output(i) \in Seq(Texts)
  <2>1. <<>> \in Seq(Texts) /\ <<Head(line).text>> \in Seq(Texts)
    BY <1>2
  <2> QED
    BY <2>1 DEF Output
<1>4. DataAfter = [i \in Pipes |->
                     (IF Stdin.end = "r" /\ Stdin.pipe = i THEN <<>> ELSE data[i]) \o Output(i)]
  BY DEF DataAfter
<1>5. DataAfter \in [Pipes -> Seq(Texts)]
  BY <1>2, <1>3, <1>4
<1>6. ASSUME NEW p \in Held(X), p # NoPipe, p # Source
      PROVE  Value(fds, DataAfter, p) = Value(fds, data, p) \o Added(p)
  <2>1. PICK i, d : i = Id(fds, p) /\ d = DataAfter
    OBVIOUS
  <2>2. i \in Pipes /\ Value(fds, d, p) = d[i] /\ Value(fds, data, p) = data[i]
    BY <1>1, <1>6, <2>1, ValueOf
  <2>3. ~(Stdin.end = "r" /\ Stdin.pipe = i)
    <3>1. CASE Source = NoPipe
      BY <1>1, <3>1, NoPipeType DEF Behind, Free
    <3>2. CASE Source # NoPipe
      <4>1. /\ Source.r \in Fds /\ fds[Source.r] = [pipe |-> Id(fds, Source), end |-> "r"]
        BY <1>1, <3>2, ValueOf
      <4>2. Stdin.pipe = Id(fds, Source)
        BY <1>1, <4>1 DEF Behind, Fds, Closed
      <4> QED
        BY <1>1, <1>6, <2>1, <3>2, <4>2, OneId
    <3> QED
      BY <3>1, <3>2
  <2>4. d[i] = data[i] \o Output(i)
    BY <1>4, <2>1, <2>2, <2>3
  <2>5. Output(i) = Added(p)
    BY <1>6, <2>1, OutputOf
  <2> QED
    BY <2>1, <2>2, <2>4, <2>5
<1> QED
  BY <1>5, <1>6

(* What a command reads is what its input pipe has. *)
LEMMA InputRead ==
  ASSUME NEW X \in SUBSET UnixPipe, NoPipe \in X, StoreInv(X), pc = "forking", Head(line).known, Ran
  PROVE  input' = Value(fds, data, Source)
<1>1. Stdin = Behind(fds, Source.r) /\ Source \in UnixPipe /\ fds \in Tables
  BY AboutToRun, ChildEnds DEF StoreInv
<1>2. input' = IF Stdin.end = "r" THEN data[Stdin.pipe] ELSE <<>>
  BY DEF Ran
<1>3. Stdin.end = "r" => Stdin = fds[Source.r]
  BY <1>1 DEF Behind, Free
<1> QED
  BY <1>1, <1>2, <1>3 DEF Value

(* The pipe of the m-th line after the front, or none. *)
Entry(pl, m) == IF In(pl, m) THEN pl[m + 1] ELSE NoPipe

(* What waits for a line is what its pipe contains. *)
LEMMA DueEntry ==
  ASSUME NEW t, NEW d, NEW pl \in Seq(UnixPipe), NEW m \in 1 .. MaxCount
  PROVE  Due(pl, 1, t, d)[m] = Value(t, d, Entry(pl, m))
<1>0. m \in Nat /\ Len(pl) \in Nat /\ (m + 1 <= Len(pl) <=> m < Len(pl)) /\ (m < Len(pl) => m + 1 \in 1 .. Len(pl))
  BY PoolAssumption
<1>1. Value(t, d, NoPipe) = <<>>
  BY NoPipeType, NoValue
<1>2. CASE In(pl, m)
  BY <1>0, <1>2 DEF Entry, In, Due
<1>3. CASE ~In(pl, m) /\ m < Len(pl)
  <2>1. pl[m + 1] = NoPipe
    BY <1>0, <1>3, Alive DEF In
  <2> QED
    BY <1>0, <1>1, <1>3, <2>1 DEF Entry, Due
<1>4. CASE ~(m < Len(pl))
  BY <1>0, <1>1, <1>4 DEF Entry, In, Due
<1> QED
  BY <1>2, <1>3, <1>4

(* The command's numbers and the pipes it was given for them. *)
Given(X) ==
  /\ stdout_count = Head(line).out /\ stderr_count = Head(line).err
  /\ stdout_count \in {Closed} \cup 1 .. MaxCount /\ stderr_count \in {Closed} \cup 1 .. MaxCount
  /\ stdout_count = stderr_count => stdout_count = Closed
  /\ Sent(X, stdout_count, stdout_pipe) /\ Sent(X, stderr_count, stderr_pipe)
  /\ Ready(stdout_count, stdout_pipe) /\ Ready(stderr_count, stderr_pipe)
  /\ Head(line).next => Unset
  /\ ~Head(line).next => Out = stdout_pipe

(* When a command is forked its pipes are as the invariant says. *)
LEMMA GivenPipes ==
  ASSUME NEW X \in SUBSET UnixPipe, NoPipe \in X, StoreInv(X), pc = "forking"
  PROVE  Given(X)
<1>1. /\ line \in Seq(Stage) /\ line # <<>> /\ Sound(line) /\ Parsed(line)
      /\ Forking(X) /\ FreshPipes
  BY DEF StoreInv, PoolInv, PoolTypes, LoopsOwn
<1>2. /\ Head(line) \in Stage /\ Head(line).next \in BOOLEAN
      /\ Head(line).out \in {Closed} \cup (Nat \ {0}) /\ Head(line).err \in {Closed} \cup (Nat \ {0})
      /\ Head(line).out = Head(line).err => Head(line).out = Closed
  BY <1>1, LineHead
<1>3. Head(line).out \in {Closed} \cup 1 .. MaxCount /\ Head(line).err \in {Closed} \cup 1 .. MaxCount
  <2>1. Head(line).out \in Closed .. MaxCount /\ Head(line).err \in Closed .. MaxCount
    BY <1>2 DEF Stage
  <2> QED
    BY <1>2, <2>1, PoolAssumption DEF Closed
<1>4. CASE Head(line).next
  <2>1. Head(line).out = Closed /\ Head(line).err = Closed
    <3>1. Head(line) = line[1] /\ 1 \in 1 .. Len(line)
      BY <1>1
    <3> QED
      BY <1>1, <1>4, <3>1 DEF Parsed
  <2>2. Unset
    BY <1>1, <1>4 DEF Forking, Piped
  <2> QED
    BY <1>4, <2>1, <2>2 DEF Given, Unset, Sent, Fits, Ready
<1>5. CASE ~Head(line).next
  BY <1>1, <1>2, <1>3, <1>5 DEF Given, Forking, Numbered, FreshPipes, Out
<1> QED
  BY <1>2, <1>4, <1>5

(* Which pipe waits for which line after a command: its own for its        *)
(* numbers, the old ones for the others.                                   *)
Rewritten(q) ==
  /\ \A m \in 1 .. MaxCount :
       Entry(q, m) = IF m = stdout_count THEN stdout_pipe
                     ELSE IF m = stderr_count THEN stderr_pipe ELSE Entry(pool, m)
  /\ Len(q) <= MaxCount + 1

(* Both calls of record_pipe_info together, after the front was closed. *)
LEMMA RecordedEntries ==
  ASSUME NEW X \in SUBSET UnixPipe, NoPipe \in X, StoreInv(X), pc = "forking",
         NEW p1, p1 = IF first THEN FrontClosed(pool) ELSE pool,
         NEW p2, p2 = RecordPipeInfo(p1, stdout_count, stdout_pipe),
         NEW q, q = RecordPipeInfo(p2, stderr_count, stderr_pipe)
  PROVE  Rewritten(q)
<1>1. Recorded(X, p1, p2, q)
  BY Recording DEF StoreInv
<1>2. PICK o, so, e, se : /\ o = stdout_count /\ so = stdout_pipe
                          /\ e = stderr_count /\ se = stderr_pipe
  OBVIOUS
<1>3. /\ p1 \in Seq(UnixPipe) /\ Len(p1) = Len(pool) /\ \A n \in 2 .. Len(pool) : p1[n] = pool[n]
      /\ o \in {Closed} \cup 1 .. MaxCount /\ e \in {Closed} \cup 1 .. MaxCount
      /\ o \in {Closed} \cup (Nat \ {0}) /\ e \in {Closed} \cup (Nat \ {0})
      /\ o = e => o = Closed
      /\ Fits(p1, o, so) /\ Grown(p1, X, o, so, p2)
      /\ Fits(p2, e, se) /\ Grown(p2, X, e, se, q)
  BY <1>1, <1>2, GivenPipes DEF Recorded, Given
<1>4. /\ so \in UnixPipe /\ se \in UnixPipe /\ p2 \in Seq(UnixPipe) /\ q \in Seq(UnixPipe)
      /\ Len(pool) \in Nat /\ MaxCount \in Nat \ {0}
  BY <1>2, <1>3, AboutToRun, StoreTypes DEF Grown, StoreInv
<1>5. Placed(p1, o, so, p2)
  <2>1. p2 = RecordPipeInfo(p1, o, so)
    BY <1>2
  <2> QED
    BY ONLY <1>3, <1>4, <2>1, RecordedAt
<1>6. Placed(p2, e, se, q)
  <2>1. q = RecordPipeInfo(p2, e, se)
    BY <1>2
  <2> QED
    BY ONLY <1>3, <1>4, <2>1, RecordedAt
<1>7. Len(q) <= MaxCount + 1
  <2>1. Len(pool) <= MaxCount + 1
    <3>1. Len(pool) <= MaxCount + Shift
      BY DEF StoreInv, Room
    <3> QED
      BY <1>4, <3>1, ShiftType
  <2>2. Closed \notin 1 .. MaxCount
    BY DEF Closed
  <2> QED
    BY <1>3, <1>4, <1>5, <1>6, <2>1, <2>2 DEF Placed
<1>8. ASSUME NEW m \in 1 .. MaxCount
      PROVE  Entry(q, m) = IF m = o THEN so ELSE IF m = e THEN se ELSE Entry(pool, m)
  <2>1. m \in Nat \ {0} /\ m # Closed
    BY <1>4 DEF Closed
  <2>2. CASE m = e
    BY <1>3, <1>6, <2>1, <2>2 DEF Entry, Placed
  <2>3. CASE m # e
    <3>1. Entry(q, m) = Entry(p2, m)
      BY <1>3, <2>1, <2>3 DEF Grown, Entry
    <3>2. CASE m = o
      BY <1>5, <2>1, <2>3, <3>1, <3>2 DEF Entry, Placed
    <3>3. CASE m # o
      <4>1. Entry(p2, m) = Entry(p1, m)
        BY <1>3, <2>1, <3>3 DEF Grown, Entry
      <4>2. m < Len(pool) => m + 1 \in 2 .. Len(pool)
        BY <1>4, <2>1
      <4>3. Entry(p1, m) = Entry(pool, m)
        BY <1>3, <4>2 DEF Entry, In
      <4> QED
        BY <2>3, <3>1, <3>3, <4>1, <4>3
    <3> QED
      BY <3>2, <3>3
  <2> QED
    BY <2>2, <2>3
<1> QED
  BY <1>2, <1>7, <1>8 DEF Rewritten

(* One more output at the end. *)
With(s, c, m) == IF m \in {c.out, c.err} THEN Append(s, c.text) ELSE s

(* A command has run: what its input pipe had is read, what it printed is  *)
(* in the pipe to the next command or after what waited for its lines.     *)
Carried(X) ==
  /\ Untouched(X)
  /\ input' = Value(fds, data, Source)
  /\ Value(fds, data, last_pipe)' = IF Head(line).next THEN <<Head(line).text>> ELSE <<>>
  /\ \A m \in 1 .. MaxCount :
       Due(pool, 1, fds, data)'[m] = With(Due(pool, 1, fds, data)[m], Head(line), m)

(* What Succeed leaves of a pipe that is kept. *)
Moved(X, p) ==
  p \in Held(X)' /\ (p # NoPipe => p # Source) =>
    Value(fds, data, p)' = IF p = NoPipe THEN <<>> ELSE Value(fds, data, p) \o Added(p)

(* The command takes what is in its source, puts its text into the pipes   *)
(* it is given, and every other pipe that is kept is left as it was.       *)
LEMMA SucceedMoves ==
  ASSUME NEW X \in SUBSET UnixPipe, NoPipe \in X, StoreInv(X), Succeed
  PROVE  /\ Head(line).known /\ Stored(fds, data)' /\ \A p \in Held(X) : Moved(X, p)
         /\ PoolInv(X)' /\ Held(X)' \in SUBSET UnixPipe
<1>1. PICK S : pc = "forking" /\ Ran /\ ~Reported /\ fds' = CloseAll(WaitFds, S)
                 /\ data' = Kept(DataAfter, fds')
  BY DEF Succeed, Ran
<1>2. Head(line).known
  BY <1>1, UnknownReported
<1>3. PICK d, u, G : d = DataAfter /\ u = fds' /\ G = Held(X)'
  OBVIOUS
<1>4. /\ fds \in Tables /\ Tidy(fds, Held(X)) /\ Held(X) \in SUBSET UnixPipe
  BY <1>1, AboutToRun DEF StoreInv
<1>5. PoolInv(X)'
  BY SucceedStep DEF StoreInv
<1>6. u \in Tables /\ Tidy(u, G) /\ G \in SUBSET UnixPipe
  <2>1. PoolTypes' /\ Tidy(fds, Held(X))'
    BY <1>5 DEF PoolInv
  <2>2. Held(X)' \in SUBSET UnixPipe
    BY <2>1 DEF PoolTypes, Held, Locals, Entries
  <2> QED
    BY <1>3, <2>1, <2>2 DEF PoolTypes
<1>7. Steady(fds, u)
  <2>1. Without(fds, FdsOf(last_pipe) \cup {error_pipe.w}, WaitFds)
    BY <1>4, Closing DEF WaitFds
  <2>2. Without(WaitFds, S, u)
    BY <1>1, <1>3, <2>1, Closing DEF Without
  <2> QED
    BY <2>1, <2>2 DEF Without, Steady
<1>8. /\ d \in [Pipes -> Seq(Texts)]
      /\ \A p \in Held(X) : p # NoPipe /\ p # Source =>
           Value(fds, d, p) = Value(fds, data, p) \o Added(p)
  BY <1>1, <1>2, <1>3, DataWritten
<1>9. Same(fds, d, Held(X), u, data', G)
  <2>1. PICK e : e = data'
    OBVIOUS
  <2>2. e = Kept(d, u)
    BY <1>1, <1>3, <2>1
  <2> QED
    BY <1>4, <1>6, <1>7, <1>8, <2>1, <2>2, SameKept
<1>10. Stored(fds, data)'
  BY <1>1, <1>3, <1>6, <1>8, StoredKept
<1>11. ASSUME NEW p \in Held(X), p \in G, p # NoPipe => p # Source
       PROVE  Value(fds', data', p) = IF p = NoPipe THEN <<>> ELSE Value(fds, data, p) \o Added(p)
  <2>1. CASE p = NoPipe
    BY <2>1, NoPipeType, NoValue
  <2>2. CASE p # NoPipe
    <3>1. Value(u, data', p) = Value(fds, d, p)
      BY <1>9, <1>11 DEF Same
    <3> QED
      BY <1>3, <1>8, <1>11, <2>2, <3>1
  <2> QED
    BY <2>1, <2>2
<1>12. ASSUME NEW p \in Held(X) PROVE Moved(X, p)
  <2>1. Value(fds, data, p)' = Value(fds', data', p)
    OBVIOUS
  <2> QED
    BY <1>3, <1>11, <2>1 DEF Moved
<1> QED
  BY <1>2, <1>3, <1>5, <1>6, <1>10, <1>12

(* The pipe of a line is not the one that is read, and it is written to if *)
(* and only if the command was given it for that line.                     *)
LEMMA EntryAdded ==
  ASSUME NEW X \in SUBSET UnixPipe, NoPipe \in X, StoreInv(X), pc = "forking",
         NEW m \in 1 .. MaxCount, NEW p,
         p = IF m = stdout_count THEN stdout_pipe
             ELSE IF m = stderr_count THEN stderr_pipe ELSE Entry(pool, m)
  PROVE  /\ p \in Held(X) /\ (p # NoPipe => p # Source /\ p.w # Closed)
         /\ m \in {stdout_count, stderr_count} =>
              p # NoPipe /\ Added(p) = <<Head(line).text>>
              /\ Value(fds, data, p) = Value(fds, data, Entry(pool, m))
         /\ m \notin {stdout_count, stderr_count} /\ p # NoPipe => Added(p) = <<>>
<1>1. /\ pool \in Seq(UnixPipe) /\ Len(pool) \in Nat /\ MaxCount \in Nat \ {0} /\ Apart(pool, X)
      /\ \A n \in 1 .. Len(pool) : pool[n] \in Held(X) /\ pool[n] \in Entries(pool)
      /\ NoPipe \in Held(X) /\ Writers(pool, 2)
  BY StoreTypes DEF StoreInv, Writable, Entries
<1>2. Given(X)
  BY GivenPipes
<1>3. /\ \A r \in {Out, stderr_pipe} :
           r \in Held(X) /\ (r # NoPipe => r # Source /\ r.w # Closed)
      /\ \A n \in 2 .. Len(pool) : pool[n] # NoPipe => pool[n] # Source
  BY OutOwn, OutWritable DEF StoreInv
<1>4. m \in Nat \ {0} /\ m # Closed /\ (m < Len(pool) => m + 1 \in 2 .. Len(pool) /\ m + 1 \in 1 .. Len(pool))
  BY <1>1 DEF Closed
<1>5. Value(fds, data, NoPipe) = <<>>
  BY NoPipeType, NoValue
<1>6. ASSUME NEW n, m = n, NEW r, Sent(X, n, r), Ready(n, r)
      PROVE  r # NoPipe /\ Value(fds, data, r) = Value(fds, data, Entry(pool, m))
  <2>1. r # NoPipe /\ (In(pool, m) => r = pool[m + 1])
    BY <1>4, <1>6 DEF Sent, Fits
  <2>2. ~In(pool, m) => Value(fds, data, r) = <<>>
    BY <1>4, <1>6 DEF Ready
  <2> QED
    BY <1>5, <2>1, <2>2 DEF Entry
<1>7. ASSUME m = stdout_count \/ m = stderr_count PROVE ~Head(line).next /\ Out = stdout_pipe
  BY <1>2, <1>4, <1>7 DEF Given, Unset
<1>8. CASE m = stdout_count
  <2>1. p = Out /\ p = stdout_pipe
    BY <1>7, <1>8
  <2>2. p # NoPipe /\ Value(fds, data, p) = Value(fds, data, Entry(pool, m))
    BY <1>2, <1>6, <1>8, <2>1 DEF Given
  <2> QED
    BY <1>3, <1>8, <2>1, <2>2 DEF Added
<1>9. CASE m # stdout_count /\ m = stderr_count
  <2>1. p = stderr_pipe
    BY <1>9
  <2>2. p # NoPipe /\ Value(fds, data, p) = Value(fds, data, Entry(pool, m))
    BY <1>2, <1>6, <1>9, <2>1 DEF Given
  <2> QED
    BY <1>3, <1>9, <2>1, <2>2 DEF Added
<1>10. CASE m # stdout_count /\ m # stderr_count
  <2>1. p = Entry(pool, m)
    BY <1>10
  <2>2. CASE ~In(pool, m)
    BY <1>1, <1>10, <2>1, <2>2 DEF Entry
  <2>3. CASE In(pool, m)
    <3>1. p = pool[m + 1] /\ m + 1 \in 2 .. Len(pool) /\ m + 1 \in 1 .. Len(pool) /\ p \in Entries(pool)
      BY <1>1, <1>4, <2>1, <2>3 DEF Entry, In
    <3>2. p # NoPipe
      BY <2>3, <3>1, NoPipeType DEF In, IsAlive
    <3>3. ASSUME NEW n \in {Closed} \cup (Nat \ {0}), NEW r, Sent(X, n, r), m # n
          PROVE  p # r
      <4>1. CASE n = Closed
        BY <3>2, <3>3, <4>1 DEF Sent, Fits
      <4>2. CASE n # Closed /\ In(pool, n)
        <5>1. r = pool[n + 1] /\ n + 1 \in 1 .. Len(pool) /\ n + 1 # m + 1
          BY <1>1, <1>4, <3>3, <4>2 DEF Sent, Fits, In
        <5> QED
          BY <1>1, <3>1, <3>2, <5>1 DEF Apart
      <4>3. CASE n # Closed /\ ~In(pool, n)
        BY <3>1, <3>3, <4>3 DEF Sent, Fits
      <4> QED
        BY <4>1, <4>2, <4>3
    <3>4. p # stdout_pipe /\ p # stderr_pipe
      BY <1>1, <1>2, <1>10, <3>3 DEF Given
    <3>5. p # Out
      <4>1. CASE Head(line).next
        <5>1. next_pipe \notin Entries(pool)
          BY <4>1 DEF StoreInv, PoolInv, Forking, Piped
        <5> QED
          BY <3>1, <4>1, <5>1 DEF Out
      <4> QED
        BY <1>2, <3>4, <4>1 DEF Given
    <3>6. Added(p) = <<>>
      BY <3>4, <3>5 DEF Added
    <3> QED
      BY <1>1, <1>3, <1>10, <3>1, <3>2, <3>6 DEF Writers
  <2> QED
    BY <2>2, <2>3
<1> QED
  BY <1>8, <1>9, <1>10

(* A command that exists: everybody who is to get its output gets it. *)
LEMMA SucceedStored ==
  ASSUME NEW X \in SUBSET UnixPipe, NoPipe \in X, StoreInv(X), Succeed
  PROVE  StoreInv(X)' /\ Carried(X)
<1>0. PICK p1, p2, q : /\ p1 = IF first THEN FrontClosed(pool) ELSE pool
                       /\ p2 = RecordPipeInfo(p1, stdout_count, stdout_pipe)
                       /\ q = pool'
  OBVIOUS
<1>1. /\ pc = "forking" /\ Ran /\ first' = FALSE /\ line' = Tail(line) /\ pc' = "cut"
      /\ q = RecordPipeInfo(p2, stderr_count, stderr_pipe)
      /\ last_pipe' = IF Head(line).next THEN next_pipe ELSE NoPipe
  BY <1>0 DEF Succeed, Ran
<1>2. /\ line \in Seq(Stage) /\ line # <<>> /\ Sound(line) /\ Parsed(line)
      /\ Head(line).next \in BOOLEAN /\ MaxCount \in Nat \ {0} /\ data \in [Pipes -> Seq(Texts)]
      /\ X \subseteq Held(X) /\ fds \in Tables /\ Tidy(fds, Held(X)) /\ Held(X) \in SUBSET UnixPipe
      /\ pool \in Seq(UnixPipe)
  <2>1. line # <<>>
    BY <1>1 DEF StoreInv, PoolInv, LoopsOwn
  <2> QED
    BY <2>1, StoreTypes, LineHead
<1>3. /\ Head(line).known /\ Stored(fds, data)' /\ PoolInv(X)' /\ Held(X)' \in SUBSET UnixPipe
      /\ \A p \in Held(X) : Moved(X, p)
  BY SucceedMoves
<1>4. Rewritten(q)
  BY <1>0, <1>1, RecordedEntries
<1>5. q \in Seq(UnixPipe) /\ Len(q) \in Nat /\ Entries(q) \subseteq Held(X)' /\ NoPipe \in Held(X)'
      /\ X \subseteq Held(X)' /\ last_pipe' \in Held(X)'
  <2>1. PoolTypes'
    BY <1>3 DEF PoolInv
  <2> QED
    BY <1>0, <1>1, <2>1 DEF PoolTypes, Held, Locals
<1>6. \A m \in 1 .. MaxCount : Entry(q, m) \in Held(X)'
  <2> SUFFICES ASSUME NEW m \in 1 .. MaxCount PROVE Entry(q, m) \in Held(X)'
    OBVIOUS
  <2>1. In(q, m) => m + 1 \in 1 .. Len(q)
    BY <1>2, <1>5 DEF In
  <2> QED
    BY <1>5, <2>1 DEF Entry, Entries
<1>7. ASSUME NEW m \in 1 .. MaxCount
      PROVE  /\ Entry(q, m) # NoPipe => Entry(q, m).w # Closed
             /\ Value(fds', data', Entry(q, m)) = With(Value(fds, data, Entry(pool, m)), Head(line), m)
  <2>1. PICK p : p = Entry(q, m)
    OBVIOUS
  <2>2. p = IF m = stdout_count THEN stdout_pipe
            ELSE IF m = stderr_count THEN stderr_pipe ELSE Entry(pool, m)
    BY <1>4, <2>1 DEF Rewritten
  <2>3. /\ p \in Held(X) /\ (p # NoPipe => p # Source /\ p.w # Closed)
        /\ m \in {stdout_count, stderr_count} =>
             p # NoPipe /\ Added(p) = <<Head(line).text>>
             /\ Value(fds, data, p) = Value(fds, data, Entry(pool, m))
        /\ m \notin {stdout_count, stderr_count} /\ p # NoPipe => Added(p) = <<>>
    BY <1>1, <2>2, EntryAdded
  <2>4. Value(fds', data', p) = IF p = NoPipe THEN <<>> ELSE Value(fds, data, p) \o Added(p)
    <3>1. Moved(X, p) /\ p \in Held(X)'
      BY <1>3, <1>6, <2>1, <2>3
    <3>2. Value(fds, data, p)' = Value(fds', data', p)
      OBVIOUS
    <3> QED
      BY <2>3, <3>1, <3>2 DEF Moved
  <2>5. Value(fds, data, p) \in Seq(Texts) /\ Value(fds, data, NoPipe) = <<>>
    BY <1>2, <2>3, ValueType, NoPipeType, NoValue
  <2>6. stdout_count = Head(line).out /\ stderr_count = Head(line).err
    BY <1>1, GivenPipes DEF Given
  <2>7. CASE m \in {stdout_count, stderr_count}
    <3>1. Value(fds, data, p) \o <<Head(line).text>> = Append(Value(fds, data, p), Head(line).text)
      BY <2>5
    <3> QED
      BY <2>1, <2>3, <2>4, <2>6, <2>7, <3>1 DEF With
  <2>8. CASE m \notin {stdout_count, stderr_count}
    <3>1. p = Entry(pool, m)
      BY <2>2, <2>8
    <3>2. Value(fds, data, p) \o <<>> = Value(fds, data, p)
      BY <2>5
    <3> QED
      BY <2>1, <2>3, <2>4, <2>5, <2>6, <2>8, <3>1, <3>2 DEF With
  <2> QED
    BY <2>1, <2>3, <2>7, <2>8
<1>8. ASSUME NEW m \in 1 .. MaxCount
      PROVE  Due(pool, 1, fds, data)'[m] = With(Due(pool, 1, fds, data)[m], Head(line), m)
  <2>1. Due(pool, 1, fds, data)[m] = Value(fds, data, Entry(pool, m))
    BY <1>2, DueEntry
  <2>2. PICK u, e : u = fds' /\ e = data'
    OBVIOUS
  <2>3. Due(q, 1, u, e)[m] = Value(u, e, Entry(q, m))
    BY <1>5, DueEntry
  <2>4. Due(pool, 1, fds, data)'[m] = Due(q, 1, u, e)[m]
    BY <1>0, <2>2
  <2> QED
    BY <1>7, <2>1, <2>2, <2>3, <2>4
<1>9. Untouched(X)
  <2> SUFFICES ASSUME NEW p \in X PROVE Value(fds, data, p)' = Value(fds, data, p)
    BY DEF Untouched
  <2>1. p \in Held(X) /\ p \in Held(X)' /\ Moved(X, p)
    BY <1>2, <1>3, <1>5
  <2>2. CASE p = NoPipe
    <3>1. Value(fds, data, p) = <<>>
      BY <2>2, NoPipeType, NoValue
    <3> QED
      BY <2>1, <2>2, <3>1 DEF Moved
  <2>3. CASE p # NoPipe
    <3>1. p # Source /\ p # Out /\ p # stderr_pipe
      BY <1>1, <2>3, OutOwn DEF StoreInv
    <3>2. Value(fds, data, p) \in Seq(Texts)
      BY <1>2, <2>1, ValueType
    <3>3. Value(fds, data, p) \o <<>> = Value(fds, data, p)
      BY <3>2
    <3> QED
      BY <2>1, <2>3, <3>1, <3>3 DEF Moved, Added
  <2> QED
    BY <2>2, <2>3
<1>10. Value(fds, data, last_pipe)' = IF Head(line).next THEN <<Head(line).text>> ELSE <<>>
  <2>0. Value(fds, data, last_pipe)' = Value(fds', data', last_pipe')
    OBVIOUS
  <2>1. CASE Head(line).next
    <3>1. last_pipe' = next_pipe /\ next_pipe = Out /\ next_pipe \in Held(X)' /\ next_pipe # NoPipe
          /\ Value(fds, data, next_pipe) = <<>>
      BY <1>1, <1>5, <2>1 DEF Out, StoreInv, PoolInv, Forking, Piped, FreshPipes, New
    <3>2. next_pipe \in Held(X) /\ next_pipe # Source
      BY <1>1, <3>1, OutOwn DEF StoreInv
    <3>3. Value(fds, data, next_pipe)' = <<>> \o <<Head(line).text>>
      <4>1. PICK o : o = Out
        OBVIOUS
      <4>2. Moved(X, o) /\ o = next_pipe
        BY <1>3, <3>1, <3>2, <4>1
      <4>3. Value(fds, data, o)' = Value(fds, data, o) \o Added(o)
        BY <3>1, <3>2, <4>2 DEF Moved
      <4>4. Value(fds, data, o)' = Value(fds', data', o) /\ next_pipe' = next_pipe
        BY DEF Succeed
      <4>5. Value(fds, data, next_pipe)' = Value(fds', data', next_pipe')
        OBVIOUS
      <4> QED
        BY <3>1, <4>1, <4>2, <4>3, <4>4, <4>5 DEF Added
    <3>4. <<>> \o <<Head(line).text>> = <<Head(line).text>>
      OBVIOUS
    <3>5. Value(fds, data, next_pipe)' = Value(fds', data', next_pipe') /\ next_pipe' = next_pipe
      BY DEF Succeed
    <3> QED
      BY <2>0, <2>1, <3>1, <3>3, <3>4, <3>5
  <2>2. CASE ~Head(line).next
    <3>1. last_pipe' = NoPipe /\ Value(fds', data', NoPipe) = <<>>
      BY <1>1, <2>2, NoPipeType, NoValue
    <3> QED
      BY <2>0, <2>2, <3>1
  <2> QED
    BY <1>2, <2>1, <2>2
<1>11. input' = Value(fds, data, Source)
  BY <1>1, <1>3, InputRead
<1>12. Carried(X)
  BY <1>8, <1>9, <1>10, <1>11 DEF Carried
<1>13. Writable'
  <2>1. ASSUME NEW n \in 2 .. Len(q), q[n] # NoPipe PROVE q[n].w # Closed
    <3>1. n - 1 \in 1 .. MaxCount /\ (n - 1) + 1 = n /\ n - 1 < Len(q) /\ n \in 1 .. Len(q)
      BY <1>2, <1>4, <1>5, <2>1 DEF Rewritten
    <3>2. q[n] = Entry(q, n - 1)
      <4>1. IsAlive(q[n])
        BY <1>5, <2>1, <3>1, Alive
      <4> QED
        BY <3>1, <4>1 DEF Entry, In
    <3> QED
      BY <1>7, <2>1, <3>1, <3>2
  <2> QED
    BY <1>0, <1>1, <2>1 DEF Writable, Writers
<1>14. Room' /\ FreshPipes'
  BY <1>0, <1>1, <1>4 DEF Room, Shift, FreshPipes, Rewritten
<1>15. Parsed(line)'
  <2>1. Len(line) \in Nat /\ Len(Tail(line)) = Len(line) - 1
        /\ \A k \in 1 .. Len(Tail(line)) : Tail(line)[k] = line[k + 1] /\ k + 1 \in 1 .. Len(line)
    BY <1>2
  <2>2. Parsed(Tail(line))
    BY <1>2, <2>1 DEF Parsed
  <2> QED
    BY <1>1, <2>2
<1> QED
  BY <1>3, <1>12, <1>13, <1>14, <1>15 DEF StoreInv

(* A line whose first command is unknown is not counted: the pool has its  *)
(* front back.                                                             *)
Restored(pl, q, t, d, u, e) ==
  /\ Due(q, 1, u, e) = Due(pl, 0, t, d) /\ Len(q) = Len(pl) + 1
  /\ Writers(pl, 2) => Writers(q, 3)

(* push_front(UnixPipe(false)) restores a pool. *)
LEMMA RestoredDue ==
  ASSUME NEW t \in Tables, NEW H \in SUBSET UnixPipe, NEW d,
         NEW u \in Tables, NEW G \in SUBSET UnixPipe, NEW e, Same(t, d, H, u, e, G),
         NEW pl \in Seq(UnixPipe), Entries(pl) \subseteq H,
         NEW q, q = <<NoPipe>> \o pl, Entries(q) \subseteq G
  PROVE  Restored(pl, q, t, d, u, e)
<1>1. /\ q \in Seq(UnixPipe) /\ Len(q) = Len(pl) + 1 /\ Len(pl) \in Nat /\ MaxCount \in Nat
      /\ \A n \in 1 .. Len(pl) : q[n + 1] = pl[n] /\ n + 1 \in 1 .. Len(q)
  BY NoPipeType, PoolAssumption
<1>2. ASSUME NEW n \in 1 .. MaxCount
      PROVE  /\ n + 1 <= Len(q) <=> n + 0 <= Len(pl)
             /\ n + 0 <= Len(pl) => Value(u, e, q[n + 1]) = Value(t, d, pl[n + 0])
  <2>1. (n + 1 <= Len(q) <=> n + 0 <= Len(pl)) /\ n + 0 = n
    BY <1>1
  <2>2. ASSUME n + 0 <= Len(pl) PROVE Value(u, e, q[n + 1]) = Value(t, d, pl[n])
    <3>1. n \in 1 .. Len(pl) /\ q[n + 1] = pl[n] /\ pl[n] \in H /\ q[n + 1] \in G
      BY <1>1, <2>1, <2>2 DEF Entries
    <3> QED
      BY <3>1 DEF Same
  <2> QED
    BY <2>1, <2>2
<1>3. Due(q, 1, u, e) = Due(pl, 0, t, d)
  BY <1>2 DEF Due
<1>4. ASSUME Writers(pl, 2) PROVE Writers(q, 3)
  <2>1. ASSUME NEW n \in 3 .. Len(q) PROVE n - 1 \in 2 .. Len(pl) /\ q[n] = pl[n - 1]
    <3>1. n - 1 \in 2 .. Len(pl) /\ n - 1 \in 1 .. Len(pl) /\ (n - 1) + 1 = n
      BY <1>1
    <3> QED
      BY <1>1, <3>1
  <2> QED
    BY <1>4, <2>1 DEF Writers
<1> QED
  BY <1>1, <1>3, <1>4 DEF Restored

(* A command that does not exist delivers nothing and takes nothing. *)
Refused(X) ==
  /\ Untouched(X)
  /\ Due(pool, Shift, fds, data)' = Due(pool, Shift, fds, data)
  /\ Value(fds, data, last_pipe)' = <<>> /\ input' = input

(* A line that ends at an unknown command keeps the invariant. *)
LEMMA FailStored ==
  ASSUME NEW X \in SUBSET UnixPipe, NoPipe \in X, StoreInv(X), Fail
  PROVE  /\ StoreInv(X)' /\ ~Head(line).known /\ Refused(X)
<1>1. /\ pc = "forking" /\ Ran /\ Reported
      /\ fds' = CloseAll(WaitFds, {error_pipe.r} \cup FdsOf(stdout_pipe))
      /\ data' = Kept(DataAfter, fds')
      /\ pool' = IF first THEN <<NoPipe>> \o pool ELSE pool
      /\ line' = <<>> /\ pc' = "cut" /\ first' = first
      /\ last_pipe' = IF Head(line).next THEN next_pipe ELSE NoPipe
  BY DEF Fail, Ran
<1>2. ~Head(line).known /\ ~Head(line).next
  <2>1. /\ line \in Seq(Stage) /\ line # <<>> /\ Sound(line)
    BY <1>1 DEF StoreInv, PoolInv, PoolTypes, LoopsOwn
  <2> QED
    BY <1>1, <2>1, NothingReported, LineHead DEF StoreInv
<1>3. DataAfter = data /\ input' = input /\ last_pipe' = NoPipe
  BY <1>1, <1>2 DEF DataAfter, Ran
<1>4. PICK u, e, q, G : u = fds' /\ e = data' /\ q = pool' /\ G = Held(X)'
  OBVIOUS
<1>5. /\ fds \in Tables /\ Tidy(fds, Held(X)) /\ Held(X) \in SUBSET UnixPipe
      /\ pool \in Seq(UnixPipe) /\ data \in [Pipes -> Seq(Texts)] /\ first \in BOOLEAN
      /\ Entries(pool) \subseteq Held(X) /\ X \subseteq Held(X) /\ Len(pool) \in Nat /\ MaxCount \in Nat
  BY StoreTypes
<1>6. PoolInv(X)'
  BY FailStep DEF StoreInv
<1>7. u \in Tables /\ Tidy(u, G) /\ G \in SUBSET UnixPipe /\ Entries(q) \subseteq G /\ X \subseteq G
  <2>1. PoolTypes' /\ Tidy(fds, Held(X))'
    BY <1>6 DEF PoolInv
  <2>2. Held(X)' \in SUBSET UnixPipe
    BY <2>1 DEF PoolTypes, Held, Locals, Entries
  <2>3. Entries(pool') \subseteq Held(X)' /\ X \subseteq Held(X)'
    BY DEF Held
  <2> QED
    BY <1>4, <2>1, <2>2, <2>3 DEF PoolTypes
<1>8. Steady(fds, u)
  <2>1. Without(fds, FdsOf(last_pipe) \cup {error_pipe.w}, WaitFds)
    BY <1>5, Closing DEF WaitFds
  <2>2. PICK S : u = CloseAll(WaitFds, S)
    BY <1>1, <1>4
  <2>3. Without(WaitFds, S, u)
    BY <2>1, <2>2, Closing DEF Without
  <2> QED
    BY <2>1, <2>3 DEF Without, Steady
<1>9. Same(fds, data, Held(X), u, e, G) /\ Stored(u, e)
  <2>1. e = Kept(data, u)
    BY <1>1, <1>3, <1>4
  <2> QED
    BY <1>5, <1>7, <1>8, <2>1, SameKept, StoredKept
<1>10. Untouched(X)
  <2>1. \A p \in X : Value(u, e, p) = Value(fds, data, p)
    BY <1>5, <1>7, <1>9 DEF Same
  <2> QED
    BY <1>4, <2>1 DEF Untouched
<1>11. Value(fds, data, last_pipe)' = <<>>
  BY <1>3, NoPipeType, NoValue
<1>12. Due(pool, Shift, fds, data)' = Due(pool, Shift, fds, data) /\ Writable' /\ Room'
  <2>1. Writers(pool, 2) /\ Len(pool) <= MaxCount + Shift /\ Shift' = 1
    BY <1>1 DEF StoreInv, Writable, Room, Shift
  <2>2. CASE first
    <3>1. q = <<NoPipe>> \o pool /\ Shift = 0
      BY <1>1, <1>4, <2>2 DEF Shift
    <3>2. Restored(pool, q, fds, data, u, e)
      BY <1>5, <1>7, <1>9, <2>1, <3>1, RestoredDue
    <3>3. Writable' /\ Room'
      BY <1>1, <1>4, <1>5, <2>1, <2>2, <3>1, <3>2 DEF Writable, Room, Restored
    <3> QED
      BY <1>4, <2>1, <3>1, <3>2, <3>3 DEF Restored
  <2>3. CASE ~first
    <3>1. pool' = pool /\ Shift' = Shift
      BY <1>1, <2>1, <2>3 DEF Shift
    <3>2. Same(fds, data, Held(X), fds', data', Held(X)')
      BY <1>4, <1>9
    <3>3. Due(pool, Shift, fds, data)' = Due(pool, Shift, fds, data)
      BY <1>6, <3>1, <3>2, SamePool
    <3> QED
      BY <1>1, <2>1, <2>3, <3>1, <3>3 DEF Writable, Room
  <2> QED
    BY <1>5, <2>2, <2>3
<1>13. StoreInv(X)'
  BY <1>1, <1>4, <1>6, <1>9, <1>12 DEF StoreInv, FreshPipes, Parsed
<1> QED
  BY <1>2, <1>3, <1>10, <1>11, <1>12, <1>13 DEF Refused

(* In the beginning nothing is open and nothing is stored. *)
LEMMA StoreInit ==
  PoolInit => StoreInv({NoPipe})
<1> SUFFICES ASSUME PoolInit PROVE StoreInv({NoPipe})
  OBVIOUS
<1>1. PoolInv({NoPipe})
  BY InitInv
<1>2. /\ pc = "prompt" /\ line = <<>> /\ data = [i \in Pipes |-> <<>>] /\ pool = <<NoPipe>> /\ first = TRUE
  BY DEF PoolInit
<1>3. data \in [Pipes -> Seq(Texts)] /\ Stored(fds, data)
  <2>1. <<>> \in Seq(Texts)
    OBVIOUS
  <2> QED
    BY <1>2, <2>1 DEF Stored
<1>4. Len(pool) = 1 /\ MaxCount \in Nat
  BY <1>2, PoolAssumption
<1> QED
  BY <1>1, <1>2, <1>3, <1>4 DEF StoreInv, Parsed, Writable, Writers, FreshPipes, Room, Shift

(* A line is typed. *)
LEMMA ReadLineStored ==
  ASSUME SoundLines, ParsedLines, StoreInv({NoPipe}), ReadLine
  PROVE  /\ StoreInv({NoPipe})' /\ line = <<>> /\ line' \in Lines /\ first /\ first'
         /\ UNCHANGED <<fds, data, last_pipe, input>>
         /\ Due(pool, Shift, fds, data)' = Due(pool, Shift, fds, data)
<1>1. /\ pc = "prompt" /\ pc' = "cut" /\ line' \in Lines
      /\ UNCHANGED <<fds, data, pool, first, localVars, input>>
  BY DEF ReadLine
<1>2. line' \in Seq(Stage) /\ Sound(line') /\ Parsed(line')
  BY <1>1, LineTaken DEF ParsedLines
<1>3. pool \in Seq(UnixPipe) /\ Apart(pool, {NoPipe}) /\ Front(pool) = NoPipe
  BY <1>1 DEF StoreInv, PoolInv, PoolTypes, Fronts
<1>4. PoolInv({NoPipe})'
  <2>1. {NoPipe} \in SUBSET UnixPipe
    BY NoPipeType
  <2> QED
    BY <1>1, <1>2, <1>3, <2>1, PromptStep DEF StoreInv
<1>5. line = <<>> /\ first
  BY <1>1 DEF StoreInv, PoolInv, Waiting
<1>6. Shift = 1 /\ Shift' = 1 /\ last_pipe' = last_pipe
  BY <1>1 DEF Shift, localVars
<1>7. Stored(fds, data)' /\ Writable' /\ FreshPipes' /\ Room'
  <2>1. Stored(fds, data) /\ Writers(pool, 3) /\ Len(pool) <= MaxCount + 1
    BY <1>1, <1>5, <1>6 DEF StoreInv, Writable, Room
  <2>2. Stored(fds, data)'
    BY <1>1, <2>1 DEF Stored
  <2> QED
    BY <1>1, <1>5, <1>6, <2>1, <2>2 DEF Writable, FreshPipes, Room, Writers
<1> QED
  BY <1>1, <1>2, <1>4, <1>5, <1>6, <1>7 DEF StoreInv

(* With lines that are sound and parsed the pipes keep that invariant too. *)
LEMMA StoreStep ==
  ASSUME SoundLines, ParsedLines, StoreInv({NoPipe}), [PoolNext]_poolVars
  PROVE  StoreInv({NoPipe})'
<1>0. {NoPipe} \in SUBSET UnixPipe /\ NoPipe \in {NoPipe}
  BY NoPipeType
<1>1. CASE ReadLine
  BY <1>1, ReadLineStored
<1>2. CASE EndLine
  BY <1>0, <1>2, EndLineStored
<1>3. CASE Cut
  BY <1>0, <1>3, CutStored
<1>4. CASE MakePipes
  BY <1>0, <1>4, MakePipesStored
<1>5. CASE Succeed
  BY <1>0, <1>5, SucceedStored
<1>6. CASE Fail
  BY <1>0, <1>6, FailStored
<1>7. CASE UNCHANGED poolVars
  <2> USE <1>7 DEF poolVars, localVars
  <2>1. PoolInv({NoPipe})'
    <3>1. /\ PoolTypes' = PoolTypes /\ Sound(line)' = Sound(line)
          /\ Held({NoPipe})' = Held({NoPipe})
      BY DEF PoolTypes, Held, Locals
    <3>2. /\ Fronts' = Fronts /\ Waiting' = Waiting /\ LoopsOwn({NoPipe})' = LoopsOwn({NoPipe})
          /\ Forking({NoPipe})' = Forking({NoPipe})
      BY DEF Fronts, Waiting, LoopsOwn, Forking, Unset, Piped, Numbered, Sent
    <3> QED
      BY <3>1, <3>2 DEF PoolInv, StoreInv
  <2>2. /\ Stored(fds, data)' = Stored(fds, data) /\ Writable' = Writable
        /\ FreshPipes' = FreshPipes /\ Room' = Room /\ Parsed(line)' = Parsed(line)
    BY DEF Stored, Writable, FreshPipes, Ready, New, Room, Shift
  <2> QED
    BY <2>1, <2>2 DEF StoreInv
<1> QED
  BY <1>1, <1>2, <1>3, <1>4, <1>5, <1>6, <1>7 DEF PoolNext

(* What the refinement mapping says waits for the lines and the next       *)
(* command, in terms of Due and Value.                                     *)
Waits == [n \in 1 .. MaxCount |->
            IF n + Shift <= Len(pool) THEN Content(pool[n + Shift]) ELSE <<>>]

(* The refinement mapping of Delivers in these terms, before and after a   *)
(* step.                                                                   *)
LEMMA Mapping ==
  /\ Waits = Due(pool, Shift, fds, data) /\ Content(last_pipe) = Value(fds, data, last_pipe)
  /\ Waits' = Due(pool, Shift, fds, data)' /\ Content(last_pipe)' = Value(fds, data, last_pipe)'
BY DEF Waits, Due, Content, Value

(* What waits for line m once the first command has taken its input. *)
LEMMA WaitingFor ==
  ASSUME NEW X \in SUBSET UnixPipe, NoPipe \in X, StoreInv(X), pc = "forking", NEW m \in 1 .. MaxCount
  PROVE  Due(pool, 1, fds, data)[m] =
           IF ~first THEN Due(pool, Shift, fds, data)[m]
           ELSE IF m = MaxCount THEN <<>> ELSE Due(pool, Shift, fds, data)[m + 1]
<1>1. Len(pool) \in Nat /\ MaxCount \in Nat \ {0} /\ first \in BOOLEAN
  BY StoreTypes
<1>2. CASE ~first
  <2>1. Shift = 1
    BY <1>2 DEF Shift
  <2> QED
    BY <1>2, <2>1
<1>3. CASE first
  <2>1. Shift = 0 /\ Len(pool) <= MaxCount
    <3>1. Shift = 0 /\ Len(pool) <= MaxCount + Shift
      BY <1>3 DEF Shift, StoreInv, Room
    <3> QED
      BY <1>1, <3>1
  <2>2. CASE m = MaxCount
    BY <1>1, <1>3, <2>1, <2>2 DEF Due
  <2>3. CASE m # MaxCount
    <3>1. m + 1 \in 1 .. MaxCount /\ (m + 1) + 0 = m + 1
      BY <1>1, <2>3
    <3> QED
      BY <1>3, <2>1, <2>3, <3>1 DEF Due
  <2> QED
    BY <2>2, <2>3
<1> QED
  BY <1>1, <1>2, <1>3

(* What a command reads. *)
LEMMA SourceValue ==
  ASSUME NEW X \in SUBSET UnixPipe, NoPipe \in X, StoreInv(X), pc = "forking"
  PROVE  Value(fds, data, Source) =
           IF first THEN Due(pool, Shift, fds, data)[1] ELSE Value(fds, data, last_pipe)
<1>1. pool \in Seq(UnixPipe) /\ Len(pool) \in Nat /\ MaxCount \in Nat \ {0} /\ first \in BOOLEAN
  BY StoreTypes
<1>2. CASE ~first
  BY <1>2 DEF Source
<1>3. CASE first
  <2>1. Shift = 0 /\ Source = Front(pool) /\ 1 \in 1 .. MaxCount
    BY <1>1, <1>3 DEF Shift, Source
  <2>2. CASE pool = <<>>
    <3>1. Value(fds, data, Source) = <<>> /\ Len(pool) = 0
      BY <2>1, <2>2, NoPipeType, NoValue DEF Front
    <3> QED
      BY <1>3, <2>1, <3>1 DEF Due
  <2>3. CASE pool # <<>>
    <3>1. Front(pool) = pool[1] /\ 1 + 0 <= Len(pool) /\ 1 + 0 = 1
      BY <1>1, <2>3 DEF Front
    <3> QED
      BY <1>3, <2>1, <3>1 DEF Due
  <2> QED
    BY <2>2, <2>3
<1> QED
  BY <1>1, <1>2, <1>3

(* A command of a line is a command of the specification. *)
LEMMA SucceedDelivers ==
  ASSUME NEW X \in SUBSET UnixPipe, NoPipe \in X, StoreInv(X), Succeed
  PROVE  Delivery!Command
<1>1. /\ pc = "forking" /\ first' = FALSE /\ line' = Tail(line) /\ pc' = "cut"
  BY DEF Succeed, Ran
<1>2. line # <<>> /\ first \in BOOLEAN
  BY <1>1, StoreTypes DEF StoreInv, PoolInv, LoopsOwn
<1>3. Carried(X) /\ Head(line).known
  BY SucceedStored, SucceedMoves
<1>4. Shift' = 1
  BY <1>1 DEF Shift
<1>5. PICK D, P, T, f : /\ D = Due(pool, Shift, fds, data) /\ P = Value(fds, data, last_pipe)
                        /\ T = Due(pool, 1, fds, data) /\ f = (first \/ line = <<>>)
  OBVIOUS
<1>6. f = first
  BY <1>2, <1>5
<1>7. input' = IF f THEN D[1] ELSE P
  <2>1. input' = Value(fds, data, Source)
    BY <1>3 DEF Carried
  <2> QED
    BY <1>1, <1>5, <1>6, <2>1, SourceValue
<1>8. Content(last_pipe)' = IF Head(line).next THEN <<Head(line).text>> ELSE <<>>
  <2>1. Value(fds, data, last_pipe)' = IF Head(line).next THEN <<Head(line).text>> ELSE <<>>
    BY <1>3 DEF Carried
  <2> QED
    BY <2>1, Mapping
<1>9. Waits' = [m \in 1 .. MaxCount |->
                  IF m \in {Head(line).out, Head(line).err}
                  THEN Append(IF ~f THEN D[m] ELSE IF m = MaxCount THEN <<>> ELSE D[m + 1], Head(line).text)
                  ELSE IF ~f THEN D[m] ELSE IF m = MaxCount THEN <<>> ELSE D[m + 1]]
  <2>1. Waits' = Due(pool, Shift, fds, data)'
    BY Mapping
  <2>2. Due(pool, Shift, fds, data)' = Due(pool, 1, fds, data)'
    BY <1>4 DEF Due
  <2>3. ASSUME NEW m \in 1 .. MaxCount
        PROVE  Due(pool, 1, fds, data)'[m] =
                 IF m \in {Head(line).out, Head(line).err}
                 THEN Append(IF ~f THEN D[m] ELSE IF m = MaxCount THEN <<>> ELSE D[m + 1], Head(line).text)
                 ELSE IF ~f THEN D[m] ELSE IF m = MaxCount THEN <<>> ELSE D[m + 1]
    <3>1. T[m] = IF ~f THEN D[m] ELSE IF m = MaxCount THEN <<>> ELSE D[m + 1]
      BY <1>1, <1>5, <1>6, WaitingFor
    <3>2. Due(pool, 1, fds, data)'[m] = With(T[m], Head(line), m)
      BY <1>3, <1>5 DEF Carried
    <3> QED
      BY <3>1, <3>2 DEF With
  <2>4. PICK R : R = Due(pool, 1, fds, data)'
    OBVIOUS
  <2>5. R = [m \in 1 .. MaxCount |-> R[m]]
    BY <2>4 DEF Due
  <2> QED
    BY <2>1, <2>2, <2>3, <2>4, <2>5
<1>10. (first \/ line = <<>>)' = (line' = <<>>)
  BY <1>1
<1>11. Waits = D /\ Content(last_pipe) = P
  BY <1>5, Mapping
<1> QED
  BY <1>1, <1>2, <1>3, <1>5, <1>7, <1>8, <1>9, <1>10, <1>11
     DEF Delivery!Command, Delivery!Numbers, Waits

(* An unknown command is one of the specification. *)
LEMMA FailDelivers ==
  ASSUME NEW X \in SUBSET UnixPipe, NoPipe \in X, StoreInv(X), Fail
  PROVE  Delivery!Unknown
<1>1. /\ pc = "forking" /\ line' = <<>> /\ line # <<>>
  BY DEF Fail, Ran, StoreInv, PoolInv, LoopsOwn
<1>2. ~Head(line).known /\ Refused(X)
  BY FailStored
<1>3. Waits' = Waits /\ Content(last_pipe)' = <<>> /\ input' = input
  BY <1>2, Mapping DEF Refused
<1> QED
  BY <1>1, <1>2, <1>3 DEF Delivery!Unknown, Waits

(* Between two commands the specification does not move. *)
LEMMA IdleStutters ==
  ASSUME NEW X, Idle(X)
  PROVE  UNCHANGED Delivery!dueVars
<1>1. Waits' = Waits /\ Content(last_pipe)' = Content(last_pipe)
  BY Mapping DEF Idle
<1> QED
  BY <1>1 DEF Idle, Delivery!dueVars, Waits

(* A line is typed there as here. *)
LEMMA ReadLineDelivers ==
  ASSUME SoundLines, ParsedLines, StoreInv({NoPipe}), ReadLine
  PROVE  Delivery!Type
<1>1. /\ line = <<>> /\ line' \in Lines /\ first /\ first'
      /\ UNCHANGED <<fds, data, last_pipe, input>>
      /\ Due(pool, Shift, fds, data)' = Due(pool, Shift, fds, data)
  BY ReadLineStored
<1>2. Waits' = Waits
  BY <1>1, Mapping
<1>3. Content(last_pipe)' = Content(last_pipe)
  BY <1>1 DEF Content
<1> QED
  BY <1>1, <1>2, <1>3 DEF Delivery!Type, Waits

(* Whatever lines a user types, as long as they are sound and name no      *)
(* number in front of a "| ": the n-th line after a "|n" or "!n" reads     *)
(* what was sent to it, whole, in the order it was sent, and nothing else; *)
(* a line whose first command is unknown is not counted.                   *)
THEOREM EverythingDelivered == SoundLines /\ ParsedLines => (PoolSpec => Delivers)
<1> SUFFICES ASSUME SoundLines, ParsedLines PROVE PoolSpec => Delivers
  OBVIOUS
<1>1. PoolInit => StoreInv({NoPipe}) /\ Delivery!DueInit
  <2> SUFFICES ASSUME PoolInit PROVE StoreInv({NoPipe}) /\ Delivery!DueInit
    OBVIOUS
  <2>1. \A p : p = NoPipe => Content(p) = <<>>
    BY NoPipeType DEF Content, Behind, Free
  <2>2. /\ pc = "prompt" /\ line = <<>> /\ first = TRUE /\ last_pipe = NoPipe /\ input = <<>>
        /\ pool = <<NoPipe>>
    BY DEF PoolInit
  <2>3. Shift = 1 /\ Len(pool) = 1 /\ MaxCount \in Nat
    BY <2>2, PoolAssumption DEF Shift
  <2>4. Waits = [n \in 1 .. MaxCount |-> <<>>]
    BY <2>3 DEF Waits
  <2> QED
    BY <2>1, <2>2, <2>4, StoreInit DEF Delivery!DueInit, Delivery!Numbers, Waits
<1>2. StoreInv({NoPipe}) /\ [PoolNext]_poolVars => StoreInv({NoPipe})'
  BY StoreStep
<1>3. StoreInv({NoPipe}) /\ [PoolNext]_poolVars => [Delivery!DueNext]_(Delivery!dueVars)
  <2> SUFFICES ASSUME StoreInv({NoPipe}), [PoolNext]_poolVars
               PROVE  Delivery!DueNext \/ UNCHANGED Delivery!dueVars
    OBVIOUS
  <2>0. {NoPipe} \in SUBSET UnixPipe /\ NoPipe \in {NoPipe}
    BY NoPipeType
  <2>1. CASE ReadLine
    BY <2>1, ReadLineDelivers DEF Delivery!DueNext
  <2>2. CASE EndLine
    BY <2>0, <2>2, EndLineStored, IdleStutters
  <2>3. CASE Cut
    BY <2>0, <2>3, CutStored, IdleStutters
  <2>4. CASE MakePipes
    BY <2>0, <2>4, MakePipesStored, IdleStutters
  <2>5. CASE Succeed
    BY <2>0, <2>5, SucceedDelivers DEF Delivery!DueNext
  <2>6. CASE Fail
    BY <2>0, <2>6, FailDelivers DEF Delivery!DueNext
  <2>7. CASE UNCHANGED poolVars
    BY <2>7 DEF poolVars, localVars, Delivery!dueVars, Content, Shift
  <2> QED
    BY <2>1, <2>2, <2>3, <2>4, <2>5, <2>6, <2>7 DEF PoolNext
<1> QED
  BY <1>1, <1>2, <1>3, PTL DEF PoolSpec, Delivers, Delivery!DueSpec

-----------------------------------------------------------------------------
(* What StoreInv says of the pipes besides PoolInv. *)
Store == Parsed(line) /\ Stored(fds, data) /\ Writable /\ FreshPipes /\ Room

(* A pool between two lines. *)
Poised(pl) == Writers(pl, 3) /\ Len(pl) <= MaxCount + 1

(* The contents of the pipes of all slots. *)
SlotStore == Store /\ \A c \in Clients \ {client} : Poised(PoolOf(c))

(* StoreInv is PoolInv for some others and Store, whoever they are. *)
LEMMA StoreParts ==
  ASSUME NEW X PROVE StoreInv(X) <=> PoolInv(X) /\ Store
BY DEF StoreInv, Store

(* A slot's pool of its own. *)
LEMMA SlotPipes ==
  ASSUME NEW F, SlotsInv(F), SlotStore, NEW X, X = Others(SlotPools, client, F)
  PROVE  /\ X \in SUBSET UnixPipe /\ NoPipe \in X /\ StoreInv(X)
         /\ \A c \in Clients \ {client} : Entries(PoolOf(c)) \subseteq X
         /\ \A c \in Clients : PoolOf(c) \in Seq(UnixPipe)
<1>1. /\ client \in Clients /\ SlotPools \in [Clients -> Seq(UnixPipe)] /\ F \in SUBSET UnixPipe
      /\ PoolInv(Others(SlotPools, client, F))
  BY DEF SlotsInv
<1>2. \A c \in Clients : SlotPools[c] = PoolOf(c)
  BY DEF SlotPools
<1> QED
  BY <1>1, <1>2, OthersType, StoreParts DEF SlotStore

(* Nothing is due in an empty pool, and it is poised. *)
LEMMA EmptyPoised ==
  Poised(<<NoPipe>>) /\ \A t, d : Due(<<NoPipe>>, 1, t, d) = [n \in 1 .. MaxCount |-> <<>>]
<1>1. Len(<<NoPipe>>) = 1 /\ MaxCount \in Nat
  BY PoolAssumption
<1>2. \A n \in 1 .. MaxCount : ~(n + 1 <= 1)
  BY <1>1
<1> QED
  BY <1>1, <1>2 DEF Poised, Writers, Due

(* At the prompt the pool is poised, and a poised pool can be the next. *)
LEMMA PromptPoised ==
  ASSUME NEW X, PoolInv(X), Store, pc = "prompt"
  PROVE  Poised(pool) /\ line = <<>> /\ first /\ last_pipe = NoPipe /\ Shift = 1
<1>1. first /\ line = <<>> /\ last_pipe = NoPipe
  BY DEF PoolInv, Waiting, Fronts
<1>2. Shift = 1
  BY DEF Shift
<1> QED
  BY <1>1, <1>2 DEF Store, Poised, Writable, Room

(* The loop can go on with any pool that is poised. *)
LEMMA PoisedStore ==
  ASSUME Stored(fds, data), first, pc' \in {"prompt", "cut"}, UNCHANGED <<fds, data, first>>,
         Poised(pool'), Parsed(line')
  PROVE  Store'
<1>1. Shift' = 1
  BY DEF Shift
<1>2. Stored(fds, data)'
  BY DEF Stored
<1>3. Writable' /\ Room'
  BY <1>1 DEF Writable, Room, Poised, Writers
<1> QED
  BY <1>2, <1>3 DEF Store, FreshPipes

(* All slots begin with an empty pool. *)
LEMMA SlotStoreInit ==
  ASSUME ServerInit PROVE SlotStore
<1>1. Store
  BY StoreInit, StoreParts DEF ServerInit
<1>2. ASSUME NEW c \in Clients PROVE PoolOf(c) = <<NoPipe>>
  BY DEF ServerInit, PoolInit, PoolOf, EmptyPool
<1> QED
  BY <1>1, <1>2, EmptyPoised DEF SlotStore

(* What a change of the client leaves alone. *)
LEMMA PoolsMoved ==
  ASSUME NEW F, SlotsInv(F), NEW c \in Clients, ServeLine(c)
  PROVE  /\ client' = c
         /\ \A d \in Clients : PoolOf(d)' = PoolOf(d) /\ InputOf(d)' = InputOf(d)
<1>1. client \in Clients /\ parked = [d \in Clients |-> parked[d]]
  BY DEF SlotsInv
<1>2. CASE c = client /\ UNCHANGED <<client, parked, pool, input>>
  BY <1>1, <1>2 DEF PoolOf, InputOf
<1>3. CASE c # client /\ TurnTo(c)
  <2>1. /\ client' = c /\ pool' = PoolOf(c) /\ input' = InputOf(c)
        /\ parked' = [parked EXCEPT ![client] = [pool |-> pool, input |-> input], ![c] = EmptyPool]
    BY <1>3 DEF TurnTo
  <2>2. /\ parked'[client] = [pool |-> pool, input |-> input]
        /\ \A d \in Clients \ {client, c} : parked'[d] = parked[d]
    BY <1>1, <1>3, <2>1
  <2>3. parked'[client].pool = pool /\ parked'[client].input = input
    BY <2>2
  <2>4. ASSUME NEW d \in Clients PROVE PoolOf(d)' = PoolOf(d) /\ InputOf(d)' = InputOf(d)
    <3>1. CASE d = c
      <4>1. PoolOf(d)' = pool' /\ InputOf(d)' = input'
        BY <2>1, <3>1 DEF PoolOf, InputOf
      <4> QED
        BY <2>1, <3>1, <4>1
    <3>2. CASE d # c /\ d = client
      <4>1. PoolOf(d)' = parked'[d].pool /\ InputOf(d)' = parked'[d].input
        BY <2>1, <3>2 DEF PoolOf, InputOf
      <4>2. PoolOf(d) = pool /\ InputOf(d) = input
        BY <3>2 DEF PoolOf, InputOf
      <4> QED
        BY <2>3, <3>2, <4>1, <4>2
    <3>3. CASE d \notin {c, client}
      <4>1. PoolOf(d)' = parked'[d].pool /\ InputOf(d)' = parked'[d].input
        BY <2>1, <3>3 DEF PoolOf, InputOf
      <4>2. PoolOf(d) = parked[d].pool /\ InputOf(d) = parked[d].input
        BY <3>3 DEF PoolOf, InputOf
      <4>3. parked'[d] = parked[d]
        BY <2>2, <3>3
      <4> QED
        BY <4>1, <4>2, <4>3
    <3> QED
      BY <3>1, <3>2, <3>3
  <2> QED
    BY <2>1, <2>4
<1> QED
  BY <1>2, <1>3 DEF ServeLine

(* A line of any client: the pool of the client before is put away         *)
(* poised, and that of the next is poised too.                             *)
LEMMA ServeLineStored ==
  ASSUME SoundLines, ParsedLines, NEW F, SlotsInv(F), SlotStore, NEW c \in Clients, ServeLine(c)
  PROVE  SlotStore'
<1>1. /\ pc = "prompt" /\ pc' = "cut" /\ line' \in Lines
      /\ UNCHANGED <<fds, data, first, localVars>>
  BY DEF ServeLine, poolVars
<1>2. /\ client' = c
      /\ \A d \in Clients : PoolOf(d)' = PoolOf(d) /\ InputOf(d)' = InputOf(d)
  BY PoolsMoved
<1>3. PICK X : X = Others(SlotPools, client, F)
  OBVIOUS
<1>4. PoolInv(X) /\ Store /\ client \in Clients
  BY <1>3 DEF SlotsInv, SlotStore
<1>5. Poised(pool) /\ first
  BY <1>1, <1>4, PromptPoised
<1>6. \A d \in Clients : Poised(PoolOf(d))
  BY <1>5 DEF SlotStore, PoolOf
<1>7. pool' = PoolOf(c)
  <2>1. pool' = PoolOf(c)'
    BY <1>2 DEF PoolOf
  <2> QED
    BY <1>2, <2>1
<1>8. Store'
  BY <1>1, <1>4, <1>5, <1>6, <1>7, PoisedStore DEF Store, ParsedLines
<1>9. \A d \in Clients : Poised(PoolOf(d))'
  BY <1>2, <1>6 DEF Poised, Writers
<1> QED
  BY <1>8, <1>9 DEF SlotStore

(* The loop changes the pool of its client only. *)
LEMMA LoopParked ==
  ASSUME UNCHANGED slotVars
  PROVE  client' = client /\ \A c \in Clients \ {client} : PoolOf(c)' = PoolOf(c) /\ InputOf(c)' = InputOf(c)
BY DEF slotVars, PoolOf, InputOf

(* The loop keeps the contents in order, as for one shell. *)
LEMMA LoopStored ==
  ASSUME NEW F, SlotsInv(F), SlotStore, Cut \/ MakePipes \/ Succeed \/ Fail \/ EndLine,
         UNCHANGED slotVars
  PROVE  SlotStore'
<1>1. PICK X : X = Others(SlotPools, client, F)
  OBVIOUS
<1>2. X \in SUBSET UnixPipe /\ NoPipe \in X /\ StoreInv(X)
  BY <1>1, SlotPipes
<1>3. StoreInv(X)'
  <2>1. CASE Cut
    BY <1>2, <2>1, CutStored
  <2>2. CASE MakePipes
    BY <1>2, <2>2, MakePipesStored
  <2>3. CASE Succeed
    BY <1>2, <2>3, SucceedStored
  <2>4. CASE Fail
    BY <1>2, <2>4, FailStored
  <2>5. CASE EndLine
    BY <1>2, <2>5, EndLineStored
  <2> QED
    BY <2>1, <2>2, <2>3, <2>4, <2>5
<1>4. Store'
  BY <1>3 DEF StoreInv, Store
<1>5. \A c \in Clients \ {client} : Poised(PoolOf(c))'
  BY LoopParked DEF SlotStore, Poised, Writers
<1>6. client' = client
  BY LoopParked
<1> QED
  BY <1>4, <1>5, <1>6 DEF SlotStore

(* A session begins with nothing, and changes nothing for the others. *)
LEMMA JoinMoves ==
  ASSUME NEW F, SlotsInv(F), NEW c \in Clients, Join(c)
  PROVE  /\ client' = client /\ pc = "prompt" /\ pc' = pc
         /\ UNCHANGED <<line, fds, data, first, last_pipe>>
         /\ PoolOf(c)' = <<NoPipe>> /\ InputOf(c)' = <<>>
         /\ \A d \in Clients \ {c} : PoolOf(d)' = PoolOf(d) /\ InputOf(d)' = InputOf(d)
<1>1. client \in Clients /\ parked = [d \in Clients |-> parked[d]]
  BY DEF SlotsInv
<1>2. /\ client' = client /\ pc = "prompt" /\ pc' = pc
      /\ UNCHANGED <<line, fds, data, first, last_pipe>>
  BY DEF Join, localVars
<1>3. CASE c = client /\ pool' = <<NoPipe>> /\ input' = <<>> /\ parked' = parked
  BY <1>1, <1>2, <1>3 DEF PoolOf, InputOf
<1>4. CASE c # client /\ parked' = [parked EXCEPT ![c] = EmptyPool] /\ pool' = pool /\ input' = input
  <2>1. parked'[c] = EmptyPool /\ \A d \in Clients \ {c} : parked'[d] = parked[d]
    BY <1>1, <1>4
  <2> QED
    BY <1>1, <1>2, <1>4, <2>1 DEF PoolOf, InputOf, EmptyPool
<1> QED
  BY <1>2, <1>3, <1>4 DEF Join, ResetPipePool

(* reset_pipe_pool leaves an empty pool, which is poised. *)
LEMMA JoinStored ==
  ASSUME NEW F, SlotsInv(F), SlotStore, NEW c \in Clients, Join(c)
  PROVE  SlotStore'
<1>1. /\ client' = client /\ pc = "prompt" /\ pc' = pc
      /\ UNCHANGED <<line, fds, data, first, last_pipe>>
      /\ PoolOf(c)' = <<NoPipe>>
      /\ \A d \in Clients \ {c} : PoolOf(d)' = PoolOf(d)
  BY JoinMoves
<1>2. PICK X : X = Others(SlotPools, client, F)
  OBVIOUS
<1>3. PoolInv(X) /\ Store /\ client \in Clients
  BY <1>2 DEF SlotsInv, SlotStore
<1>4. Poised(pool) /\ first
  BY <1>1, <1>3, PromptPoised
<1>5. \A d \in Clients : Poised(PoolOf(d))
  BY <1>4 DEF SlotStore, PoolOf
<1>6. \A d \in Clients : Poised(PoolOf(d)')
  BY <1>1, <1>5, EmptyPoised
<1>7. pool' = PoolOf(client)'
  BY <1>1 DEF PoolOf
<1>8. Store'
  BY <1>1, <1>3, <1>4, <1>6, <1>7, PoisedStore DEF Store
<1>9. \A d \in Clients : Poised(PoolOf(d))'
  BY <1>6 DEF Poised, Writers
<1> QED
  BY <1>8, <1>9 DEF SlotStore

(* Nothing that a pool or the loop has is touched. *)
LEMMA RestStored ==
  ASSUME SlotStore, UNCHANGED <<poolVars, client, parked, forgotten>>
  PROVE  SlotStore'
<1> USE DEF poolVars, localVars
<1>1. \A c \in Clients : PoolOf(c)' = PoolOf(c)
  BY DEF PoolOf
<1>2. /\ Stored(fds, data)' = Stored(fds, data) /\ Writable' = Writable
      /\ FreshPipes' = FreshPipes /\ Room' = Room /\ Parsed(line)' = Parsed(line)
  BY DEF Stored, Writable, FreshPipes, Ready, New, Room, Shift
<1>3. \A c \in Clients \ {client} : Poised(PoolOf(c))'
  BY <1>1 DEF SlotStore, Poised, Writers
<1> QED
  BY <1>2, <1>3 DEF SlotStore, Store

(* The contents of all slots' pipes are kept in order. *)
LEMMA SlotStoreKept ==
  ASSUME SoundLines, ParsedLines, ServerInv, SlotStore, [ServerNext]_serverVars
  PROVE  SlotStore'
<1>1. PICK F \in SUBSET UnixPipe : SlotsInv(F)
  BY DEF ServerInv
<1>2. CASE \E c \in Clients : ServeLine(c)
  BY <1>1, <1>2, ServeLineStored
<1>3. CASE \E c \in Clients : Join(c)
  BY <1>1, <1>3, JoinStored
<1>4. CASE CutCommand \/ CreatePipes \/ RunCommand \/ LineDone
  BY <1>1, <1>4, LoopStored DEF CutCommand, CreatePipes, RunCommand, LineDone
<1>5. CASE (\E c \in Clients : Leave(c)) \/ UNCHANGED serverVars
  BY <1>5, RestStored DEF Leave, serverVars, slotVars
<1> QED
  BY <1>2, <1>3, <1>4, <1>5 DEF ServerNext

(* No line of client c is being run. *)
AtRest(c) == c # client \/ (line = <<>> /\ first /\ last_pipe = NoPipe /\ Shift = 1)

(* What the refinement mapping of client c says then. *)
ToRun(c) == IF c = client THEN line ELSE <<>>
Begins(c) == c # client \/ first \/ line = <<>>
Awaited(c) ==
  LET pl == PoolOf(c)
      shift == IF c = client THEN Shift ELSE 1
  IN [n \in 1 .. MaxCount |->
        IF n + shift <= Len(pl) THEN Content(pl[n + shift]) ELSE <<>>]
Handed(c) == IF c = client THEN Content(last_pipe) ELSE <<>>

(* The values of the mapping for a client at rest. *)
Resting(c) ==
  /\ ToRun(c) = <<>> /\ Begins(c) = TRUE /\ Handed(c) = <<>>
  /\ Awaited(c) = Due(PoolOf(c), 1, fds, data)

(* A client at rest: no line, nothing piped, and its whole pool is due. *)
LEMMA RestMapping ==
  ASSUME NEW c
  PROVE  (AtRest(c) => Resting(c)) /\ (AtRest(c)' => Resting(c)')
<1>1. ASSUME AtRest(c) PROVE Resting(c)
  <2>1. last_pipe = NoPipe => Content(last_pipe) = <<>>
    BY NoPipeType DEF Content, Behind, Free
  <2>2. Awaited(c) = Due(PoolOf(c), 1, fds, data)
    BY <1>1 DEF AtRest, Awaited, Due, Content, Value
  <2> QED
    BY <1>1, <2>1, <2>2 DEF AtRest, Resting, ToRun, Begins, Handed
<1>2. ASSUME AtRest(c)' PROVE Resting(c)'
  <2>1. last_pipe' = NoPipe => Content(last_pipe)' = <<>>
    BY NoPipeType DEF Content, Behind, Free
  <2>2. Awaited(c)' = Due(PoolOf(c), 1, fds, data)'
    BY <1>2 DEF AtRest, Awaited, Due, Content, Value
  <2> QED
    BY <1>2, <2>1, <2>2 DEF AtRest, Resting, ToRun, Begins, Handed
<1> QED
  BY <1>1, <1>2

(* What the pipes of pool pl contain stays as it is. *)
Intact(pl) == \A p \in Entries(pl) : Value(fds, data, p)' = Value(fds, data, p)

(* What is due from a pool depends on its pipes only. *)
LEMMA IntactDue ==
  ASSUME NEW pl, Len(pl) \in Nat, Intact(pl), NEW t, NEW d, t = fds', d = data'
  PROVE  Due(pl, 1, t, d) = Due(pl, 1, fds, data)
<1>1. ASSUME NEW n \in 1 .. MaxCount, n + 1 <= Len(pl)
      PROVE  Value(t, d, pl[n + 1]) = Value(fds, data, pl[n + 1])
  <2>1. n + 1 \in 1 .. Len(pl)
    BY <1>1, PoolAssumption
  <2>2. PICK p : p = pl[n + 1]
    OBVIOUS
  <2>3. p \in Entries(pl)
    BY <2>1, <2>2 DEF Entries
  <2>4. Value(fds', data', p) = Value(fds, data, p)
    BY <2>3 DEF Intact
  <2> QED
    BY <2>2, <2>4
<1> QED
  BY <1>1 DEF Due

(* A client whose lines do not run notices nothing. *)
LEMMA Bystander ==
  ASSUME NEW c, AtRest(c), AtRest(c)', PoolOf(c) \in Seq(UnixPipe),
         PoolOf(c)' = PoolOf(c), InputOf(c)' = InputOf(c), Intact(PoolOf(c))
  PROVE  UNCHANGED Promise(c)!dueVars
<1>1. Resting(c) /\ Resting(c)'
  BY RestMapping
<1>2. Due(PoolOf(c), 1, fds, data)' = Due(PoolOf(c), 1, fds, data)
  <2>1. PICK pl, t, d : pl = PoolOf(c) /\ t = fds' /\ d = data'
    OBVIOUS
  <2>2. Intact(pl) /\ Len(pl) \in Nat
    BY <2>1 DEF Intact
  <2>3. Due(pl, 1, t, d) = Due(pl, 1, fds, data)
    BY <2>1, <2>2, IntactDue
  <2>4. Due(PoolOf(c), 1, fds, data)' = Due(pl, 1, t, d)
    BY <2>1
  <2> QED
    BY <2>1, <2>3, <2>4
<1>3. Awaited(c)' = Awaited(c) /\ ToRun(c)' = ToRun(c) /\ Begins(c)' = Begins(c) /\ Handed(c)' = Handed(c)
  BY <1>1, <1>2 DEF Resting
<1> QED
  BY <1>3 DEF Promise!dueVars, Awaited, ToRun, Begins, Handed

(* The client whose line runs is served as the user of a shell is. *)
LEMMA ServedOne ==
  ASSUME NEW c, c = client, client' = client
  PROVE  /\ Delivery!Command => Promise(c)!Command
         /\ Delivery!Unknown => Promise(c)!Unknown
         /\ UNCHANGED Delivery!dueVars => UNCHANGED Promise(c)!dueVars
<1>1. /\ ToRun(c) = line /\ Begins(c) = (first \/ line = <<>>) /\ Awaited(c) = Waits
      /\ Handed(c) = Content(last_pipe) /\ InputOf(c) = input
  BY DEF ToRun, Begins, Awaited, Waits, Handed, InputOf, PoolOf
<1>2. /\ ToRun(c)' = line' /\ Begins(c)' = (first \/ line = <<>>)' /\ Awaited(c)' = Waits'
      /\ Handed(c)' = Content(last_pipe)' /\ InputOf(c)' = input'
  BY DEF ToRun, Begins, Awaited, Waits, Handed, InputOf, PoolOf
<1>3. Delivery!Command => Promise(c)!Command
  <2> SUFFICES ASSUME Delivery!Command PROVE Promise(c)!Command
    OBVIOUS
  <2>1. PICK l, f, D, P, Q : /\ l = line /\ f = (first \/ line = <<>>) /\ D = Waits
                             /\ P = Content(last_pipe) /\ Q = Waits'
    OBVIOUS
  <2>2. /\ l # <<>> /\ Head(l).known /\ line' = Tail(l)
    BY <2>1 DEF Delivery!Command
  <2>7. (first \/ line = <<>>)' = (line' = <<>>)
    BY DEF Delivery!Command
  <2>8. input' = IF f THEN D[1] ELSE P
    <3>1. input' = IF first \/ line = <<>> THEN Waits[1] ELSE Content(last_pipe)
      BY DEF Delivery!Command, Waits
    <3> QED
      BY <2>1, <3>1
  <2>9. Content(last_pipe)' = IF Head(l).next THEN <<Head(l).text>> ELSE <<>>
    BY <2>1 DEF Delivery!Command
  <2>3. Q = [m \in 1 .. MaxCount |->
               IF m \in {Head(l).out, Head(l).err}
               THEN Append(IF ~f THEN D[m] ELSE IF m = MaxCount THEN <<>> ELSE D[m + 1], Head(l).text)
               ELSE IF ~f THEN D[m] ELSE IF m = MaxCount THEN <<>> ELSE D[m + 1]]
    BY <2>1 DEF Delivery!Command, Delivery!Numbers, Waits
  <2>4. /\ ToRun(c) = l /\ Begins(c) = f /\ Awaited(c) = D /\ Handed(c) = P
        /\ ToRun(c)' = line' /\ Begins(c)' = (first \/ line = <<>>)' /\ Awaited(c)' = Q
        /\ Handed(c)' = Content(last_pipe)' /\ InputOf(c)' = input'
    BY <1>1, <1>2, <2>1
  <2>5. /\ ToRun(c) # <<>> /\ Head(ToRun(c)).known /\ ToRun(c)' = Tail(ToRun(c))
        /\ Begins(c)' = (ToRun(c)' = <<>>)
        /\ InputOf(c)' = IF Begins(c) THEN Awaited(c)[1] ELSE Handed(c)
        /\ Handed(c)' = IF Head(ToRun(c)).next THEN <<Head(ToRun(c)).text>> ELSE <<>>
    BY <2>2, <2>4, <2>7, <2>8, <2>9
  <2>6. Awaited(c)' =
          [m \in 1 .. MaxCount |->
             IF m \in {Head(ToRun(c)).out, Head(ToRun(c)).err}
             THEN Append(IF ~Begins(c) THEN Awaited(c)[m]
                         ELSE IF m = MaxCount THEN <<>> ELSE Awaited(c)[m + 1], Head(ToRun(c)).text)
             ELSE IF ~Begins(c) THEN Awaited(c)[m]
                  ELSE IF m = MaxCount THEN <<>> ELSE Awaited(c)[m + 1]]
    BY <2>3, <2>4
  <2> QED
    BY <2>5, <2>6 DEF Promise!Command, Promise!Numbers, ToRun, Begins, Awaited, Handed
<1>4. Delivery!Unknown => Promise(c)!Unknown
  BY <1>1, <1>2 DEF Delivery!Unknown, Promise!Unknown, ToRun, Begins, Awaited, Waits, Handed
<1>5. UNCHANGED Delivery!dueVars => UNCHANGED Promise(c)!dueVars
  BY <1>1, <1>2 DEF Delivery!dueVars, Promise!dueVars, ToRun, Begins, Awaited, Waits, Handed
<1> QED
  BY <1>3, <1>4, <1>5

(* What ServedAlone says of a step for client c. *)
Served(c) ==
  \/ SessionBegins(c) /\ Promise(c)!DueInit'
  \/ ~SessionBegins(c) /\ (Promise(c)!DueNext \/ UNCHANGED Promise(c)!dueVars)

(* At the prompt no line runs. *)
LEMMA PromptRests ==
  ASSUME NEW F, SlotsInv(F), SlotStore, pc = "prompt"
  PROVE  \A c : AtRest(c)
<1>1. PICK X : X = Others(SlotPools, client, F)
  OBVIOUS
<1>2. PoolInv(X) /\ Store
  BY <1>1 DEF SlotsInv, SlotStore
<1> QED
  BY <1>2, PromptPoised DEF AtRest

(* A line of client c: it is typed there, and nothing happens elsewhere. *)
LEMMA ServeLineServed ==
  ASSUME SoundLines, NEW F, SlotsInv(F), SlotStore, NEW c \in Clients, ServeLine(c), NEW d \in Clients
  PROVE  Served(d)
<1>1. /\ pc = "prompt" /\ pc' = "cut" /\ line' \in Lines /\ joined' = joined
      /\ UNCHANGED <<fds, data, first, last_pipe>>
  BY DEF ServeLine, localVars
<1>2. /\ client' = c
      /\ \A e \in Clients : PoolOf(e)' = PoolOf(e) /\ InputOf(e)' = InputOf(e)
  BY PoolsMoved
<1>3. AtRest(d) /\ first /\ last_pipe = NoPipe
  <2>1. PICK X : X = Others(SlotPools, client, F)
    OBVIOUS
  <2>2. PoolInv(X) /\ Store
    BY <2>1 DEF SlotsInv, SlotStore
  <2> QED
    BY <1>1, <2>2, PromptPoised, PromptRests
<1>4. \A e \in Clients : PoolOf(e) \in Seq(UnixPipe)
  BY SlotPipes
<1>5. \A pl : Intact(pl)
  BY <1>1 DEF Intact
<1>6. ~SessionBegins(d)
  BY <1>1 DEF SessionBegins
<1>7. CASE d # c
  <2>1. AtRest(d)'
    BY <1>2, <1>7 DEF AtRest
  <2>2. UNCHANGED Promise(d)!dueVars
    BY <1>2, <1>3, <1>4, <1>5, <2>1, Bystander
  <2> QED
    BY <1>6, <2>2 DEF Served
<1>8. CASE d = c
  <2>1. Resting(d)
    BY <1>3, RestMapping
  <2>2. /\ ToRun(d)' = line' /\ Begins(d)' = TRUE /\ Handed(d)' = <<>>
        /\ Awaited(d)' = Due(PoolOf(d), 1, fds, data)'
    <3>1. Shift' = 1 /\ first' /\ last_pipe' = NoPipe
      BY <1>1, <1>3 DEF Shift
    <3>2. Content(last_pipe)' = <<>>
      BY <3>1, NoPipeType DEF Content, Behind, Free
    <3>3. Awaited(d)' = Due(PoolOf(d), 1, fds, data)'
      BY <1>2, <1>8, <3>1 DEF Awaited, Due, Content, Value
    <3> QED
      BY <1>2, <1>8, <3>1, <3>2, <3>3 DEF ToRun, Begins, Handed
  <2>3. Due(PoolOf(d), 1, fds, data)' = Due(PoolOf(d), 1, fds, data)
    BY <1>1, <1>2 DEF Due, Value, Behind
  <2>4. /\ ToRun(d) = <<>> /\ ToRun(d)' \in Lines /\ Begins(d)' = Begins(d)
        /\ Awaited(d)' = Awaited(d) /\ Handed(d)' = Handed(d) /\ InputOf(d)' = InputOf(d)
    BY <1>1, <1>2, <2>1, <2>2, <2>3 DEF Resting
  <2>5. Promise(d)!Type
    BY <2>4 DEF Promise!Type, ToRun, Begins, Awaited, Handed
  <2> QED
    BY <1>6, <2>5 DEF Served, Promise!DueNext
<1> QED
  BY <1>7, <1>8

(* A session begins: nothing is due in it, and nothing changes elsewhere. *)
LEMMA JoinServed ==
  ASSUME NEW F, SlotsInv(F), SlotStore, NEW c \in Clients, Join(c), NEW d \in Clients
  PROVE  Served(d)
<1>1. /\ client' = client /\ pc = "prompt" /\ pc' = pc
      /\ UNCHANGED <<line, fds, data, first, last_pipe>>
      /\ PoolOf(c)' = <<NoPipe>> /\ InputOf(c)' = <<>>
      /\ \A e \in Clients \ {c} : PoolOf(e)' = PoolOf(e) /\ InputOf(e)' = InputOf(e)
  BY JoinMoves
<1>2. c \notin joined /\ joined' = joined \cup {c}
  BY DEF Join
<1>3. AtRest(d) /\ AtRest(d)'
  <2>1. AtRest(d)
    BY <1>1, PromptRests
  <2>2. Shift' = Shift
    BY <1>1 DEF Shift
  <2> QED
    BY <1>1, <2>1, <2>2 DEF AtRest
<1>4. CASE d # c
  <2>1. ~SessionBegins(d)
    BY <1>2, <1>4 DEF SessionBegins
  <2>2. PoolOf(d) \in Seq(UnixPipe) /\ Intact(PoolOf(d))
    BY <1>1, SlotPipes DEF Intact
  <2>3. UNCHANGED Promise(d)!dueVars
    BY <1>1, <1>3, <1>4, <2>2, Bystander
  <2> QED
    BY <2>1, <2>3 DEF Served
<1>5. CASE d = c
  <2>1. SessionBegins(d)
    BY <1>2, <1>5 DEF SessionBegins
  <2>2. Resting(d)'
    BY <1>3, RestMapping
  <2>3. Due(PoolOf(d), 1, fds, data)' = [n \in 1 .. MaxCount |-> <<>>]
    <3>1. PICK t, e : t = fds' /\ e = data'
      OBVIOUS
    <3>2. Due(PoolOf(d), 1, fds, data)' = Due(<<NoPipe>>, 1, t, e)
      BY <1>1, <1>5, <3>1 DEF Due
    <3> QED
      BY <3>2, EmptyPoised
  <2>4. /\ ToRun(d)' = <<>> /\ Begins(d)' = TRUE /\ Handed(d)' = <<>> /\ InputOf(d)' = <<>>
        /\ Awaited(d)' = [n \in 1 .. MaxCount |-> <<>>]
    BY <1>1, <1>5, <2>2, <2>3 DEF Resting
  <2>5. Promise(d)!DueInit'
    BY <2>4 DEF Promise!DueInit, Promise!Numbers, ToRun, Begins, Awaited, Handed
  <2> QED
    BY <2>1, <2>5 DEF Served
<1> QED
  BY <1>4, <1>5

(* A step of the loop is one of the client whose line it is. *)
LEMMA LoopServed ==
  ASSUME NEW F, SlotsInv(F), SlotStore, Cut \/ MakePipes \/ Succeed \/ Fail \/ EndLine,
         UNCHANGED slotVars, NEW d \in Clients
  PROVE  Served(d)
<1>1. PICK X : X = Others(SlotPools, client, F)
  OBVIOUS
<1>2. /\ X \in SUBSET UnixPipe /\ NoPipe \in X /\ StoreInv(X)
      /\ \A c \in Clients \ {client} : Entries(PoolOf(c)) \subseteq X
      /\ \A c \in Clients : PoolOf(c) \in Seq(UnixPipe)
  BY <1>1, SlotPipes
<1>3. ~SessionBegins(d)
  BY DEF SessionBegins, slotVars
<1>4. Untouched(X) /\ (Delivery!Command \/ Delivery!Unknown \/ UNCHANGED Delivery!dueVars)
  <2>1. CASE Cut \/ MakePipes \/ EndLine
    <3>1. Idle(X)
      BY <1>2, <2>1, CutStored, MakePipesStored, EndLineStored
    <3> QED
      BY <3>1, IdleStutters DEF Idle
  <2>2. CASE Succeed
    BY <1>2, <2>2, SucceedStored, SucceedDelivers DEF Carried
  <2>3. CASE Fail
    BY <1>2, <2>3, FailStored, FailDelivers DEF Refused
  <2> QED
    BY <2>1, <2>2, <2>3
<1>5. client' = client /\ \A c \in Clients \ {client} : PoolOf(c)' = PoolOf(c) /\ InputOf(c)' = InputOf(c)
  BY LoopParked
<1>6. CASE d = client
  BY <1>3, <1>4, <1>5, <1>6, ServedOne DEF Served, Promise!DueNext
<1>7. CASE d # client
  <2>1. AtRest(d) /\ AtRest(d)'
    BY <1>5, <1>7 DEF AtRest
  <2>2. Intact(PoolOf(d))
    BY <1>2, <1>4, <1>7 DEF Intact, Untouched
  <2>3. UNCHANGED Promise(d)!dueVars
    BY <1>2, <1>5, <1>7, <2>1, <2>2, Bystander
  <2> QED
    BY <1>3, <2>3 DEF Served
<1> QED
  BY <1>6, <1>7

(* Nobody's line runs and nothing that is open or recorded changes.        *)
LEMMA LeaveServed ==
  ASSUME NEW d \in Clients, (\E c \in Clients : Leave(c)) \/ UNCHANGED serverVars
  PROVE  Served(d)
<1>1. UNCHANGED <<poolVars, client, parked>> /\ ~SessionBegins(d)
  BY DEF Leave, serverVars, slotVars, SessionBegins
<1>2. UNCHANGED Promise(d)!dueVars
  BY <1>1 DEF Promise!dueVars, poolVars, localVars, PoolOf, InputOf, Content, Behind, Shift
<1> QED
  BY <1>1, <1>2 DEF Served

(* Every client of the select server is served as if it had a shell of its *)
(* own: one process runs the lines of all, run_command changes the pool it *)
(* works on (v1/shell.hpp), and still the numbered pipes of each session   *)
(* carry what NumberedPipes says they carry, whoever else's lines run in   *)
(* between and whoever had the slot before.                                *)
THEOREM EveryoneServed == SoundLines /\ ParsedLines => (ServerSpec => ServedAlone)
<1> SUFFICES ASSUME SoundLines, ParsedLines PROVE ServerSpec => ServedAlone
  OBVIOUS
<1>1. ServerInit => ServerInv /\ SlotStore /\ \A c \in Clients : Promise(c)!DueInit
  <2> SUFFICES ASSUME ServerInit PROVE ServerInv /\ SlotStore /\ \A c \in Clients : Promise(c)!DueInit
    OBVIOUS
  <2>1. SlotsInv({}) /\ SlotStore
    BY ServerInitInv, SlotStoreInit
  <2>2. ASSUME NEW c \in Clients PROVE Promise(c)!DueInit
    <3>1. PoolOf(c) = <<NoPipe>> /\ InputOf(c) = <<>> /\ pc = "prompt"
      BY DEF ServerInit, PoolInit, PoolOf, InputOf, EmptyPool
    <3>2. Resting(c)
      BY <2>1, <3>1, PromptRests, RestMapping
    <3>3. Due(PoolOf(c), 1, fds, data) = [n \in 1 .. MaxCount |-> <<>>]
      BY <3>1, EmptyPoised
    <3> QED
      BY <3>1, <3>2, <3>3 DEF Resting, Promise!DueInit, Promise!Numbers, ToRun, Begins, Awaited, Handed
  <2> QED
    BY <2>1, <2>2 DEF ServerInv
<1>2. ServerInv /\ SlotStore /\ [ServerNext]_serverVars => (ServerInv /\ SlotStore)'
  BY SlotsKept, SlotStoreKept
<1>3. ServerInv /\ SlotStore /\ [ServerNext]_serverVars
      => [\A c \in Clients :
            \/ SessionBegins(c) /\ Promise(c)!DueInit'
            \/ ~SessionBegins(c) /\ (Promise(c)!DueNext \/ UNCHANGED Promise(c)!dueVars)]_serverVars
  <2> SUFFICES ASSUME ServerInv, SlotStore, [ServerNext]_serverVars, NEW d \in Clients
               PROVE  Served(d)
    BY DEF Served
  <2>1. PICK F \in SUBSET UnixPipe : SlotsInv(F)
    BY DEF ServerInv
  <2>2. CASE \E c \in Clients : ServeLine(c)
    BY <2>1, <2>2, ServeLineServed
  <2>3. CASE \E c \in Clients : Join(c)
    BY <2>1, <2>3, JoinServed
  <2>4. CASE CutCommand \/ CreatePipes \/ RunCommand \/ LineDone
    BY <2>1, <2>4, LoopServed DEF CutCommand, CreatePipes, RunCommand, LineDone
  <2>5. CASE (\E c \in Clients : Leave(c)) \/ UNCHANGED serverVars
    BY <2>5, LeaveServed
  <2> QED
    BY <2>2, <2>3, <2>4, <2>5 DEF ServerNext
<1> QED
  BY <1>1, <1>2, <1>3, PTL DEF ServerSpec, ServedAlone
=============================================================================
