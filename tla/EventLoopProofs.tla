---------------------------- MODULE EventLoopProofs ----------------------------
(***************************************************************************)
(* The event loop and its connections, for any number of slots, buffers    *)
(* and fds, any size of the SQ, and a kernel that may refuse: every        *)
(* receive buffer has one owner, the kernel writes into none but its own   *)
(* connection's, and the fds and the closes agree.  Reorder is FALSE: with *)
(* it CloseHitsCloser is false, and with it what depends on it.            *)
(***************************************************************************)
EXTENDS EventLoop, FiniteSetTheorems, SequenceTheorems, TLAPS

-------------------------------------------------------------------------------
(* Sequences.                                                                  *)

LEMMA AtEnd ==
  ASSUME NEW T, NEW q \in Seq(T), NEW e \in T
  PROVE  /\ Append(q, e) \in Seq(T) /\ Len(q) \in Nat
         /\ DOMAIN q = 1 .. Len(q)
         /\ DOMAIN Append(q, e) = 1 .. Len(q) + 1
         /\ Len(Append(q, e)) = Len(q) + 1
         /\ \A i \in 1 .. Len(q) : Append(q, e)[i] = q[i]
         /\ Append(q, e)[Len(q) + 1] = e
<1>1. /\ Append(q, e) \in Seq(T)
      /\ Len(Append(q, e)) = Len(q) + 1
      /\ \A i \in 1 .. Len(q) : Append(q, e)[i] = q[i]
      /\ Append(q, e)[Len(q) + 1] = e
  BY AppendProperties
<1>2. DOMAIN q = 1 .. Len(q) /\ Len(q) \in Nat
  BY LenProperties
<1>3. DOMAIN Append(q, e) = 1 .. Len(Append(q, e))
  BY <1>1, LenProperties
<1> QED
  BY <1>1, <1>2, <1>3

LEMMA AtFront ==
  ASSUME NEW T, NEW q \in Seq(T), q # << >>
  PROVE  /\ Tail(q) \in Seq(T) /\ Len(q) \in Nat \ {0}
         /\ DOMAIN q = 1 .. Len(q)
         /\ DOMAIN Tail(q) = 1 .. Len(q) - 1
         /\ Len(Tail(q)) = Len(q) - 1
         /\ \A i \in 1 .. Len(q) - 1 : Tail(q)[i] = q[i + 1]
         /\ Head(q) = q[1] /\ Head(q) \in T /\ q[1] \in T
<1>1. /\ Tail(q) \in Seq(T) /\ Len(Tail(q)) = Len(q) - 1
      /\ \A i \in 1 .. Len(Tail(q)) : Tail(q)[i] = q[i + 1]
      /\ Head(q) \in T
  BY HeadTailProperties
<1>2. DOMAIN q = 1 .. Len(q) /\ Len(q) \in Nat \ {0}
  BY LenProperties, EmptySeq
<1>3. DOMAIN Tail(q) = 1 .. Len(Tail(q))
  BY <1>1, LenProperties
<1>4. Head(q) = q[1]
  OBVIOUS
<1> QED
  BY <1>1, <1>2, <1>3, <1>4

LEMMA NthLemma ==
  ASSUME NEW S, IsFiniteSet(S), S \subseteq Int, NEW k \in 1 .. Cardinality(S)
  PROVE  /\ Nth(S, k) \in S
         /\ Cardinality({j \in S : j <= Nth(S, k)}) = k
<1> DEFINE Below(x) == {j \in S : j <= x}
           rank == [x \in S |-> Cardinality(Below(x))]
<1>1. /\ Cardinality(S) \in Nat
      /\ IsFiniteSet(1 .. Cardinality(S))
      /\ Cardinality(1 .. Cardinality(S)) = Cardinality(S)
  <2>1. Cardinality(S) \in Nat
    BY FS_CardinalityType
  <2> QED
    BY <2>1, FS_Interval
<1>2. ASSUME NEW x \in S
      PROVE  /\ IsFiniteSet(Below(x))
             /\ Cardinality(Below(x)) \in 1 .. Cardinality(S)
  <2>1. IsFiniteSet(Below(x)) /\ Cardinality(Below(x)) <= Cardinality(S)
    BY FS_Subset, Below(x) \in SUBSET S
  <2>2. Cardinality(Below(x)) \in Nat
    BY <2>1, FS_CardinalityType
  <2>3. x \in Below(x)
    OBVIOUS
  <2>4. Cardinality(Below(x)) # 0
    BY <2>1, <2>3, FS_EmptySet
  <2> QED
    BY <2>1, <2>2, <2>4, <1>1
<1>3. ASSUME NEW x \in S, NEW y \in S, x < y
      PROVE  rank[x] # rank[y]
  <2>1. Below(x) \in SUBSET Below(y)
    <3>1. ASSUME NEW j \in S, j <= x
          PROVE  j <= y
      <4>1. j \in Int /\ x \in Int /\ y \in Int
        OBVIOUS
      <4> QED
        BY <4>1, <3>1, <1>3
    <3> QED
      BY <3>1
  <2>2. y \in Below(y) /\ y \notin Below(x)
    BY <1>3
  <2>3. Below(x) # Below(y)
    BY <2>2
  <2>4. Cardinality(Below(x)) # Cardinality(Below(y))
    BY <2>1, <2>3, <1>2, FS_Subset
  <2> QED
    BY <2>4
<1>4. rank \in Injection(S, 1 .. Cardinality(S))
  <2>1. rank \in [S -> 1 .. Cardinality(S)]
    BY <1>2
  <2>2. \A x, y \in S : rank[x] = rank[y] => x = y
    <3> SUFFICES ASSUME NEW x \in S, NEW y \in S, x # y
                 PROVE  rank[x] # rank[y]
      OBVIOUS
    <3>1. x < y \/ y < x
      OBVIOUS
    <3> QED
      BY <3>1, <1>3
  <2> QED
    BY <2>1, <2>2 DEF Injection, IsInjective
<1>5. rank \in Surjection(S, 1 .. Cardinality(S))
  BY <1>1, <1>4, FS_Injection
<1>6. PICK x \in S : rank[x] = k
  BY <1>5 DEF Surjection
<1>7. Cardinality({j \in S : j <= x}) = k
  BY <1>6
<1> HIDE DEF rank, Below
<1> QED
  BY <1>7 DEF Nth

(* The elements at some places of a sequence: those and no others, each once.  *)
LEMMA SelectedLemma ==
  ASSUME NEW T, NEW q \in Seq(T), NEW n \in Nat, n <= Len(q), NEW P \in SUBSET (1 .. n)
  PROVE  /\ Selected(q, P) \in Seq(T) /\ Cardinality(P) \in Nat
         /\ Len(Selected(q, P)) = Cardinality(P)
         /\ \A k \in 1 .. Cardinality(P) : Nth(P, k) \in P /\ Selected(q, P)[k] = q[Nth(P, k)]
         /\ \A k, l \in 1 .. Cardinality(P) : Nth(P, k) = Nth(P, l) => k = l
         /\ \A i \in P : \E k \in 1 .. Cardinality(P) : Nth(P, k) = i
<1>1. /\ IsFiniteSet(1 .. n) /\ IsFiniteSet(P) /\ P \subseteq Int /\ Cardinality(P) \in Nat
  <2>1. IsFiniteSet(1 .. n)
    BY FS_Interval
  <2>2. IsFiniteSet(P)
    BY <2>1, FS_Subset
  <2> QED
    BY <2>1, <2>2, FS_CardinalityType
<1> DEFINE K == Cardinality(P)
           Below(x) == {j \in P : j <= x}
<1>2. \A k \in 1 .. K : Nth(P, k) \in P /\ Cardinality(Below(Nth(P, k))) = k
  BY <1>1, NthLemma
<1>3. \A i \in P : q[i] \in T
  <2>1. DOMAIN q = 1 .. Len(q) /\ Len(q) \in Nat
    BY LenProperties
  <2>2. \A i \in P : i \in DOMAIN q
    BY <2>1
  <2> QED
    BY <2>2, ElementOfSeq
<1>4. Selected(q, P) = [k \in 1 .. K |-> q[Nth(P, k)]]
  BY DEF Selected
<1> HIDE DEF K
<1>5. K \in Nat
  BY <1>1 DEF K
<1>6. Selected(q, P) \in [1 .. K -> T]
  BY <1>2, <1>3, <1>4
<1>7. Selected(q, P) \in Seq(T) /\ Len(Selected(q, P)) = K
  <2>1. \A f \in [1 .. K -> T] : f \in Seq(T)
    BY <1>5
  <2>2. DOMAIN Selected(q, P) = 1 .. K
    BY <1>4
  <2>3. Len(Selected(q, P)) = K
    BY <1>5, <1>6, <2>1, <2>2, LenProperties
  <2> QED
    BY <1>6, <2>1, <2>3
<1>8. ASSUME NEW i \in P PROVE \E k \in 1 .. K : Nth(P, k) = i
  <2>1. IsFiniteSet(Below(i)) /\ Cardinality(Below(i)) <= K
    BY <1>1, FS_Subset, Below(i) \in SUBSET P DEF K
  <2>2. Cardinality(Below(i)) \in Nat /\ Cardinality(Below(i)) # 0
    BY <2>1, FS_CardinalityType, FS_EmptySet, i \in Below(i)
  <2>3. PICK k \in 1 .. K : k = Cardinality(Below(i))
    <3> DEFINE b == Cardinality(Below(i))
    <3>1. b \in Nat /\ b # 0 /\ b <= K
      BY <2>1, <2>2
    <3> HIDE DEF b
    <3>2. b \in 1 .. K
      BY <1>5, <3>1
    <3> QED
      BY <3>2 DEF b
  <2>4. Nth(P, k) \in P /\ Cardinality(Below(Nth(P, k))) = Cardinality(Below(i))
    BY <1>2, <2>3
  <2>5. ASSUME NEW x \in P, NEW y \in P, x < y
        PROVE  Cardinality(Below(x)) # Cardinality(Below(y))
    <3>1. Below(x) \in SUBSET Below(y)
      <4>1. ASSUME NEW j \in P, j <= x PROVE j <= y
        BY <1>1, <2>5, <4>1
      <4> QED
        BY <4>1
    <3>2. y \in Below(y) /\ y \notin Below(x)
      BY <1>1, <2>5
    <3>3. IsFiniteSet(Below(y))
      BY <1>1, FS_Subset, Below(y) \in SUBSET P
    <3> QED
      BY <3>1, <3>2, <3>3, FS_Subset
  <2>6. ~(Nth(P, k) < i) /\ ~(i < Nth(P, k))
    BY <2>4, <2>5
  <2>7. i \in Int /\ Nth(P, k) \in Int
    BY <1>1, <2>4
  <2> QED
    BY <2>3, <2>6, <2>7
<1>9. \A k, l \in 1 .. K : Nth(P, k) = Nth(P, l) => k = l
  BY <1>2
<1> QED
  BY <1>1, <1>2, <1>4, <1>7, <1>8, <1>9 DEF K

-------------------------------------------------------------------------------
(* What a ring holds.                                                          *)

Rings == [sq : Seq(Requests), visible : Nat, cq : Seq(Requests), seen : Nat,
          pending : SUBSET Requests, accepts : Nat, open : SUBSET Fds]

(* A request of this kind for slot c, at each of the three places it can be at. *)
Is(e, op, c) == e.op = op /\ e.slot = c
SqHas(r, op, c)   == \E i \in DOMAIN r.sq : Is(r.sq[i], op, c)
CqHas(r, op, c)   == \E i \in DOMAIN r.cq : Is(r.cq[i], op, c)
HeldHas(r, op, c) == \E e \in r.pending : Is(e, op, c)
Has(r, op, c) == SqHas(r, op, c) \/ CqHas(r, op, c) \/ HeldHas(r, op, c)

(* There is one of it at most. *)
One(r, op, c) ==
  /\ \A i, j \in DOMAIN r.sq : Is(r.sq[i], op, c) /\ Is(r.sq[j], op, c) => i = j
  /\ \A i, j \in DOMAIN r.cq : Is(r.cq[i], op, c) /\ Is(r.cq[j], op, c) => i = j
  /\ \A d, e \in r.pending : Is(d, op, c) /\ Is(e, op, c) => d = e
  /\ SqHas(r, op, c) => ~CqHas(r, op, c) /\ ~HeldHas(r, op, c)
  /\ CqHas(r, op, c) => ~HeldHas(r, op, c)

Holds(r, e) == \/ \E i \in DOMAIN r.sq : r.sq[i] = e
               \/ \E i \in DOMAIN r.cq : r.cq[i] = e
               \/ e \in r.pending

(* A request but an accept is of a slot and an fd; a completed accept has an fd *)
(* or failed.                                                                   *)
Owned(e) == e.op # "ACCEPT" => e.slot \in Slots /\ e.fd \in Fds
Prepared(e) == Owned(e) /\ e.res = "none"
Answered(e) ==
  /\ Owned(e)
  /\ e.op = "ACCEPT" => \/ e.res = "ok" /\ e.fd \in Fds
                        \/ e.res = "error" /\ e.fd = NoFd
  /\ e.op = "RECV" => e.res \in {"data", "end"}

RingOK(r) ==
  /\ r \in Rings
  /\ r.visible <= Len(r.sq) /\ r.seen <= Len(r.cq)
  /\ \A i \in DOMAIN r.sq : Prepared(r.sq[i])
  /\ \A i \in DOMAIN r.cq : Answered(r.cq[i])
  /\ \A e \in r.pending : Prepared(e) /\ e.op \in {"RECV", "EGRESS", "SEND_RESP"}

Accepts(q) == Cardinality({i \in DOMAIN q : q[i].op = "ACCEPT"})
AcceptsOf(r) == Accepts(r.sq) + r.accepts + Accepts(r.cq)

LEMMA RingParts ==
  ASSUME NEW r, RingOK(r)
  PROVE  /\ r.sq \in Seq(Requests) /\ r.cq \in Seq(Requests)
         /\ Len(r.sq) \in Nat /\ DOMAIN r.sq = 1 .. Len(r.sq)
         /\ Len(r.cq) \in Nat /\ DOMAIN r.cq = 1 .. Len(r.cq)
         /\ \A i \in DOMAIN r.sq : r.sq[i] \in Requests
         /\ \A i \in DOMAIN r.cq : r.cq[i] \in Requests
         /\ r.pending \subseteq Requests /\ r.open \subseteq Fds
         /\ r.visible \in Nat /\ r.seen \in Nat /\ r.accepts \in Nat
BY LenProperties, ElementOfSeq DEF RingOK, Rings

LEMMA FiniteParts ==
  \A n \in Nat : \A P \in SUBSET (1 .. n) : IsFiniteSet(P) /\ Cardinality(P) \in Nat
<1> SUFFICES ASSUME NEW n \in Nat, NEW P \in SUBSET (1 .. n)
             PROVE  IsFiniteSet(P) /\ Cardinality(P) \in Nat
  OBVIOUS
<1>1. IsFiniteSet(1 .. n)
  BY FS_Interval
<1>2. IsFiniteSet(P)
  BY <1>1, FS_Subset
<1> QED
  BY <1>2, FS_CardinalityType

(* The number of accepts in a queue.                                           *)
AcceptPlaces(q) == {i \in DOMAIN q : q[i].op = "ACCEPT"}

LEMMA AcceptsParts ==
  ASSUME NEW q \in Seq(Requests)
  PROVE  /\ IsFiniteSet(AcceptPlaces(q))
         /\ Accepts(q) = Cardinality(AcceptPlaces(q)) /\ Accepts(q) \in Nat
<1>1. DOMAIN q = 1 .. Len(q) /\ Len(q) \in Nat
  BY LenProperties
<1>2. AcceptPlaces(q) \in SUBSET (1 .. Len(q))
  BY <1>1 DEF AcceptPlaces
<1> QED
  BY <1>1, <1>2, FiniteParts DEF Accepts, AcceptPlaces

LEMMA AcceptsAppend ==
  ASSUME NEW q \in Seq(Requests), NEW e \in Requests
  PROVE  Accepts(Append(q, e)) = Accepts(q) + (IF e.op = "ACCEPT" THEN 1 ELSE 0)
<1> DEFINE n == Len(q)
<1>1. /\ Append(q, e) \in Seq(Requests) /\ n \in Nat /\ DOMAIN q = 1 .. n
      /\ DOMAIN Append(q, e) = 1 .. n + 1
      /\ \A i \in 1 .. n : Append(q, e)[i] = q[i]
      /\ Append(q, e)[n + 1] = e
  BY AtEnd
<1> HIDE DEF n
<1>2. n + 1 \notin AcceptPlaces(q)
  BY <1>1 DEF AcceptPlaces
<1>3. AcceptPlaces(Append(q, e)) =
        AcceptPlaces(q) \cup (IF e.op = "ACCEPT" THEN {n + 1} ELSE {})
  <2>1. \A i : i \in 1 .. n + 1 <=> i \in 1 .. n \/ i = n + 1
    BY <1>1
  <2>2. n + 1 \notin 1 .. n
    BY <1>1
  <2> QED
    BY <1>1, <2>1, <2>2 DEF AcceptPlaces
<1>4. IsFiniteSet(AcceptPlaces(q)) /\ Accepts(q) = Cardinality(AcceptPlaces(q))
      /\ Accepts(q) \in Nat /\ Accepts(Append(q, e)) = Cardinality(AcceptPlaces(Append(q, e)))
  BY <1>1, AcceptsParts
<1>5. CASE e.op = "ACCEPT"
  <2>1. AcceptPlaces(Append(q, e)) = AcceptPlaces(q) \cup {n + 1}
    BY <1>3, <1>5
  <2> QED
    BY <1>2, <1>4, <1>5, <2>1, FS_AddElement
<1>6. CASE e.op # "ACCEPT"
  <2>1. AcceptPlaces(Append(q, e)) = AcceptPlaces(q)
    BY <1>3, <1>6
  <2> QED
    BY <1>4, <1>6, <2>1
<1> QED
  BY <1>5, <1>6

(* The accepts of a queue are those of its first n places and those of the rest. *)
LEMMA AcceptsSplit ==
  ASSUME NEW q \in Seq(Requests), NEW n \in 0 .. Len(q)
  PROVE  /\ SubSeq(q, n + 1, Len(q)) \in Seq(Requests)
         /\ Cardinality({i \in 1 .. n : q[i].op = "ACCEPT"}) \in Nat
         /\ Accepts(q) = Cardinality({i \in 1 .. n : q[i].op = "ACCEPT"})
                           + Accepts(SubSeq(q, n + 1, Len(q)))
<1> DEFINE m == Len(q)
           t == SubSeq(q, n + 1, m)
           A == {i \in 1 .. n : q[i].op = "ACCEPT"}
           B == {i \in n + 1 .. m : q[i].op = "ACCEPT"}
<1>1. m \in Nat /\ DOMAIN q = 1 .. m /\ n \in Nat /\ n <= m
  BY LenProperties
<1>2. \A i \in n + 1 .. m : q[i] \in Requests
  BY <1>1, ElementOfSeq
<1> HIDE DEF m
<1>3. /\ t \in Seq(Requests) /\ Len(t) = m - n /\ DOMAIN t = 1 .. m - n
      /\ \A i \in 1 .. m - n : t[i] = q[n + i]
  <2>1. /\ t \in Seq(Requests) /\ Len(t) = (IF n + 1 <= m THEN m - (n + 1) + 1 ELSE 0)
        /\ \A i \in 1 .. m - (n + 1) + 1 : t[i] = q[n + 1 + i - 1]
    BY <1>1, <1>2, SubSeqProperties
  <2> HIDE DEF t
  <2>2. Len(t) = m - n
    BY <1>1, <2>1
  <2>3. \A i \in 1 .. m - n : t[i] = q[n + i]
    BY <1>1, <2>1
  <2> QED
    BY <2>1, <2>2, <2>3, LenProperties
<1> HIDE DEF t
<1>4. A \in SUBSET (1 .. m) /\ B \in SUBSET (1 .. m) /\ A \cap B = {}
      /\ AcceptPlaces(q) = A \cup B
  BY <1>1 DEF AcceptPlaces
<1>5. /\ IsFiniteSet(A) /\ Cardinality(A) \in Nat /\ IsFiniteSet(B) /\ Cardinality(B) \in Nat
  BY <1>1, <1>4, FiniteParts
<1> HIDE DEF A, B
<1>6. Cardinality(A \cup B) = Cardinality(A) + Cardinality(B)
  <2>1. Cardinality(A \cup B) = Cardinality(A) + Cardinality(B) - Cardinality(A \cap B)
    BY <1>5, FS_Union
  <2>2. Cardinality(A \cap B) = 0
    BY <1>4, FS_EmptySet
  <2> QED
    BY <1>5, <2>1, <2>2
<1>7. Cardinality(AcceptPlaces(t)) = Cardinality(B)
  <2> DEFINE shift == [i \in AcceptPlaces(t) |-> n + i]
  <2>1. shift \in Bijection(AcceptPlaces(t), B)
    <3>1. \A i \in AcceptPlaces(t) : i \in 1 .. m - n /\ n + i \in B
      BY <1>1, <1>3 DEF AcceptPlaces, B
    <3>2. \A j \in B : j - n \in AcceptPlaces(t) /\ n + (j - n) = j
      BY <1>1, <1>3 DEF AcceptPlaces, B
    <3>3. shift \in [AcceptPlaces(t) -> B]
      BY <3>1
    <3>4. \A i, j \in AcceptPlaces(t) : shift[i] = shift[j] => i = j
      BY <1>1, <3>1
    <3>5. \A j \in B : \E i \in AcceptPlaces(t) : shift[i] = j
      BY <3>2
    <3> QED
      BY <3>3, <3>4, <3>5 DEF Bijection, Injection, Surjection, IsInjective
  <2>2. IsFiniteSet(AcceptPlaces(t))
    BY <1>3, AcceptsParts
  <2> QED
    BY <2>1, <2>2, FS_Bijection DEF ExistsBijection
<1>8. Accepts(q) = Cardinality(AcceptPlaces(q)) /\ Accepts(t) = Cardinality(AcceptPlaces(t))
  BY <1>3, AcceptsParts
<1>9. Accepts(q) = Cardinality(A) + Accepts(t)
  BY <1>4, <1>6, <1>7, <1>8
<1> QED
  BY <1>3, <1>5, <1>9 DEF A, t, m

-------------------------------------------------------------------------------
(* The kernel takes n requests: closes are done and go to the CQ, in order,    *)
(* accepts are counted, and all else is held.                                  *)

IsHeld(e) == e.op \notin {"ACCEPT", "CLOSE"}

(* Where the closes that come to the CQ were in the SQ. *)
Places(r, n, r2) ==
  {at \in [Len(r.cq) + 1 .. Len(r2.cq) -> 1 .. n] :
     /\ \A i \in Len(r.cq) + 1 .. Len(r2.cq) : r2.cq[i] = r.sq[at[i]] /\ r2.cq[i].op = "CLOSE"
     /\ \A i, j \in Len(r.cq) + 1 .. Len(r2.cq) : at[i] = at[j] => i = j
     /\ \A p \in 1 .. n : r.sq[p].op = "CLOSE"
                            => \E i \in Len(r.cq) + 1 .. Len(r2.cq) : at[i] = p}

(* What taking n requests of r leads to. *)
Taken(r, n, r2) ==
  /\ r2.sq = SubSeq(r.sq, n + 1, Len(r.sq))
  /\ r2.sq \in Seq(Requests) /\ Len(r2.sq) = Len(r.sq) - n
  /\ \A i \in 1 .. Len(r2.sq) : r2.sq[i] = r.sq[n + i]
  /\ r2.cq \in Seq(Requests) /\ Len(r2.cq) >= Len(r.cq)
  /\ \A i \in 1 .. Len(r.cq) : r2.cq[i] = r.cq[i]
  /\ Places(r, n, r2) # {}
  /\ r2.pending = r.pending \cup {r.sq[i] : i \in {j \in 1 .. n : IsHeld(r.sq[j])}}
  /\ r2.open = r.open \ {r.sq[i].fd : i \in {j \in 1 .. n : r.sq[j].op = "CLOSE"}}
  /\ r2.visible = r.visible - n /\ r2.seen = r.seen
  /\ r2.accepts = r.accepts + Cardinality({i \in 1 .. n : r.sq[i].op = "ACCEPT"})
  /\ r2 = [sq |-> r2.sq, visible |-> r2.visible, cq |-> r2.cq, seen |-> r2.seen,
           pending |-> r2.pending, accepts |-> r2.accepts, open |-> r2.open]

LEMMA TakeParts ==
  ASSUME ~Reorder, NEW r, RingOK(r), NEW n \in 0 .. r.visible,
         NEW r2, r2 = Take(r, n)
  PROVE  Taken(r, n, r2)
<1> DEFINE P == {i \in 1 .. n : IsClose(r.sq[i])}
           L == Len(r.sq)
           M == Len(r.cq)
           K == Cardinality(P)
           cl == Selected(r.sq, P)
<1>1. /\ r.sq \in Seq(Requests) /\ r.cq \in Seq(Requests)
      /\ L \in Nat /\ DOMAIN r.sq = 1 .. L /\ M \in Nat /\ DOMAIN r.cq = 1 .. M
      /\ r.visible \in Nat /\ r.visible <= L
      /\ \A i \in 1 .. L : r.sq[i] \in Requests
  BY RingParts DEF RingOK
<1>2. n \in Nat /\ n <= L
  BY <1>1
<1>3. r \in Rings
  BY DEF RingOK
<1>4. /\ r2.sq = SubSeq(r.sq, n + 1, L) /\ r2.cq = r.cq \o cl
      /\ r2.visible = r.visible - n /\ r2.seen = r.seen
      /\ r2.accepts = r.accepts + Cardinality({i \in 1 .. n : r.sq[i].op = "ACCEPT"})
      /\ r2.pending = r.pending \cup {e \in {r.sq[i] : i \in 1 .. n} :
                                         ~IsAccept(e) /\ (IsClose(e) => Reorder)}
      /\ r2.open = r.open \ {e.fd : e \in {x \in {r.sq[i] : i \in 1 .. n} : IsClose(x)}}
      /\ r2 = [sq |-> r2.sq, visible |-> r2.visible, cq |-> r2.cq, seen |-> r2.seen,
               pending |-> r2.pending, accepts |-> r2.accepts, open |-> r2.open]
  <2> DEFINE held == {r.sq[i] : i \in 1 .. n}
             A == {i \in 1 .. n : IsAccept(r.sq[i])}
             H == {e \in held : ~IsAccept(e) /\ (IsClose(e) => Reorder)}
             F == {e.fd : e \in {x \in held : IsClose(x)}}
  <2>1. r2 = [r EXCEPT !.sq = SubSeq(@, n + 1, Len(@)), !.visible = @ - n,
                       !.cq = @ \o cl, !.pending = @ \cup H,
                       !.accepts = @ + Cardinality(A), !.open = @ \ F]
    BY DEF Take
  <2>2. A = {i \in 1 .. n : r.sq[i].op = "ACCEPT"}
    BY DEF IsAccept
  <2> HIDE DEF A, H, F, cl
  <2>3. /\ r2.sq = SubSeq(r.sq, n + 1, L) /\ r2.cq = r.cq \o cl
        /\ r2.visible = r.visible - n /\ r2.seen = r.seen
        /\ r2.accepts = r.accepts + Cardinality(A)
        /\ r2.pending = r.pending \cup H
        /\ r2.open = r.open \ F
    BY <1>3, <2>1 DEF Rings
  <2>4. r2 = [sq |-> r2.sq, visible |-> r2.visible, cq |-> r2.cq, seen |-> r2.seen,
              pending |-> r2.pending, accepts |-> r2.accepts, open |-> r2.open]
    BY <1>3, <2>1 DEF Rings
  <2> QED
    BY <2>2, <2>3, <2>4 DEF H, F
<1>5. /\ r2.sq \in Seq(Requests) /\ Len(r2.sq) = L - n
      /\ \A i \in 1 .. L - n : r2.sq[i] = r.sq[n + i]
  <2> HIDE DEF L
  <2>1. \A i \in n + 1 .. L : r.sq[i] \in Requests
    BY <1>1, <1>2
  <2> DEFINE t == SubSeq(r.sq, n + 1, L)
  <2>2. /\ t \in Seq(Requests) /\ Len(t) = (IF n + 1 <= L THEN L - (n + 1) + 1 ELSE 0)
        /\ \A i \in 1 .. L - (n + 1) + 1 : t[i] = r.sq[n + 1 + i - 1]
    BY <1>1, <1>2, <2>1, SubSeqProperties
  <2> HIDE DEF t
  <2>3. Len(t) = L - n /\ \A i \in 1 .. L - n : t[i] = r.sq[n + i]
    BY <1>1, <1>2, <2>2
  <2>4. r2.sq = t
    BY <1>4 DEF t
  <2> QED
    BY <2>2, <2>3, <2>4
<1>6. P \in SUBSET (1 .. n)
  OBVIOUS
<1>7. /\ cl \in Seq(Requests) /\ K \in Nat /\ Len(cl) = K
      /\ \A k \in 1 .. K : Nth(P, k) \in P /\ cl[k] = r.sq[Nth(P, k)]
      /\ \A k, l \in 1 .. K : Nth(P, k) = Nth(P, l) => k = l
      /\ \A i \in P : \E k \in 1 .. K : Nth(P, k) = i
  <2> HIDE DEF P
  <2>1. /\ Selected(r.sq, P) \in Seq(Requests) /\ Cardinality(P) \in Nat
        /\ Len(Selected(r.sq, P)) = Cardinality(P)
        /\ \A k \in 1 .. Cardinality(P) :
              Nth(P, k) \in P /\ Selected(r.sq, P)[k] = r.sq[Nth(P, k)]
        /\ \A k, l \in 1 .. Cardinality(P) : Nth(P, k) = Nth(P, l) => k = l
        /\ \A i \in P : \E k \in 1 .. Cardinality(P) : Nth(P, k) = i
    BY <1>1, <1>2, <1>6, SelectedLemma
  <2> QED
    BY <2>1
<1>8. \A i \in 1 .. n : i \in P <=> r.sq[i].op = "CLOSE"
  BY DEF IsClose
<1> HIDE DEF P, K, cl, M
<1>9. /\ r2.cq \in Seq(Requests) /\ Len(r2.cq) = M + K
      /\ \A i \in 1 .. M + K : r2.cq[i] = IF i <= M THEN r.cq[i] ELSE cl[i - M]
  <2>1. Len(cl) = K /\ Len(r.cq) = M /\ r.cq \in Seq(Requests) /\ cl \in Seq(Requests)
    BY <1>1, <1>7 DEF M
  <2>2. /\ r.cq \o cl \in Seq(Requests)
        /\ Len(r.cq \o cl) = Len(r.cq) + Len(cl)
        /\ \A i \in 1 .. Len(r.cq) + Len(cl) :
              (r.cq \o cl)[i] = IF i <= Len(r.cq) THEN r.cq[i] ELSE cl[i - Len(r.cq)]
    BY <2>1, ConcatProperties
  <2> QED
    BY <1>4, <2>1, <2>2
<1>10. Places(r, n, r2) # {}
  <2> DEFINE D == M + 1 .. M + K
             at == [i \in D |-> Nth(P, i - M)]
  <2>1. \A i \in D : i - M \in 1 .. K /\ i \in 1 .. M + K /\ ~(i <= M)
    BY <1>1, <1>7
  <2>2. \A i \in D : Nth(P, i - M) \in P /\ r2.cq[i] = r.sq[Nth(P, i - M)]
    BY <1>7, <1>9, <2>1
  <2>3. at \in [D -> 1 .. n] /\ \A i \in D : at[i] = Nth(P, i - M)
    BY <1>6, <2>2
  <2>4. \A i, j \in D : at[i] = at[j] => i = j
    <3>1. ASSUME NEW i \in D, NEW j \in D, at[i] = at[j]
          PROVE  i - M = j - M
      BY <1>7, <2>1, <2>3, <3>1
    <3> QED
      BY <1>1, <1>7, <3>1
  <2>5. ASSUME NEW p \in 1 .. n, r.sq[p].op = "CLOSE"
        PROVE  \E i \in D : at[i] = p
    <3>1. PICK k \in 1 .. K : Nth(P, k) = p
      BY <1>7, <1>8, <2>5
    <3>2. k + M \in D /\ (k + M) - M = k
      BY <1>1, <1>7
    <3> QED
      BY <2>3, <3>1, <3>2
  <2>6. \A i \in D : r2.cq[i] = r.sq[at[i]] /\ r2.cq[i].op = "CLOSE"
    BY <1>6, <1>8, <2>2, <2>3
  <2>7. D = Len(r.cq) + 1 .. Len(r2.cq)
    BY <1>9 DEF M
  <2> HIDE DEF D, at
  <2>8. at \in Places(r, n, r2)
    BY <2>3, <2>4, <2>5, <2>6, <2>7 DEF Places
  <2> QED
    BY <2>8
<1>11. r2.pending = r.pending \cup {r.sq[i] : i \in {j \in 1 .. n : IsHeld(r.sq[j])}}
  BY <1>4 DEF IsHeld, IsAccept, IsClose
<1>12. r2.open = r.open \ {r.sq[i].fd : i \in {j \in 1 .. n : r.sq[j].op = "CLOSE"}}
  BY <1>4 DEF IsClose
<1>13. Len(r2.cq) >= M /\ \A i \in 1 .. M : r2.cq[i] = r.cq[i]
  <2>1. M \in Nat /\ K \in Nat
    BY <1>1, <1>7 DEF M
  <2>2. \A i \in 1 .. M : i \in 1 .. M + K /\ i <= M
    BY <2>1
  <2> QED
    BY <1>9, <2>1, <2>2
<1> QED
  BY <1>4, <1>5, <1>9, <1>10, <1>11, <1>12, <1>13 DEF M, Taken

(* The same requests, at other places. *)
Moved(r, r2) ==
  /\ RingOK(r2)
  /\ \A e : Holds(r2, e) => Holds(r, e)
  /\ \A c : /\ Has(r2, "RECV", c) <=> Has(r, "RECV", c)
            /\ Has(r2, "CLOSE", c) <=> Has(r, "CLOSE", c)
            /\ One(r, "RECV", c) => One(r2, "RECV", c)
            /\ One(r, "CLOSE", c) => One(r2, "CLOSE", c)
  /\ AcceptsOf(r2) = AcceptsOf(r)

(* Taking moves requests and neither makes nor loses one.                      *)
LEMMA TakeMoves ==
  ASSUME ~Reorder, NEW r, RingOK(r), NEW n \in 0 .. r.visible, NEW r2, r2 = Take(r, n)
  PROVE  Moved(r, r2)
<1> DEFINE L == Len(r.sq)
           M == Len(r.cq)
           M2 == Len(r2.cq)
           A == {i \in 1 .. n : r.sq[i].op = "ACCEPT"}
<1>1. /\ r.sq \in Seq(Requests) /\ r.cq \in Seq(Requests)
      /\ L \in Nat /\ DOMAIN r.sq = 1 .. L /\ M \in Nat /\ DOMAIN r.cq = 1 .. M
      /\ r.visible \in Nat /\ r.visible <= L /\ r.seen \in Nat /\ r.seen <= M
      /\ \A i \in 1 .. L : r.sq[i] \in Requests /\ Prepared(r.sq[i])
      /\ \A i \in 1 .. M : r.cq[i] \in Requests /\ Answered(r.cq[i])
      /\ r.pending \subseteq Requests /\ r.open \subseteq Fds /\ r.accepts \in Nat
      /\ \A e \in r.pending : Prepared(e) /\ e.op \in {"RECV", "EGRESS", "SEND_RESP"}
  BY RingParts DEF RingOK
<1>2. n \in Nat /\ n <= L
  BY <1>1
<1>3. /\ r2.sq \in Seq(Requests) /\ Len(r2.sq) = L - n
      /\ \A i \in 1 .. Len(r2.sq) : r2.sq[i] = r.sq[n + i]
      /\ r2.cq \in Seq(Requests) /\ M2 >= M
      /\ \A i \in 1 .. M : r2.cq[i] = r.cq[i]
      /\ Places(r, n, r2) # {}
      /\ r2.pending = r.pending \cup {r.sq[i] : i \in {j \in 1 .. n : IsHeld(r.sq[j])}}
      /\ r2.open = r.open \ {r.sq[i].fd : i \in {j \in 1 .. n : r.sq[j].op = "CLOSE"}}
      /\ r2.visible = r.visible - n /\ r2.seen = r.seen
      /\ r2.accepts = r.accepts + Cardinality(A)
      /\ r2 = [sq |-> r2.sq, visible |-> r2.visible, cq |-> r2.cq, seen |-> r2.seen,
               pending |-> r2.pending, accepts |-> r2.accepts, open |-> r2.open]
      /\ r2.sq = SubSeq(r.sq, n + 1, L)
  <2>1. Taken(r, n, r2)
    BY TakeParts
  <2> QED
    BY <2>1 DEF Taken
<1> HIDE DEF L, M, M2, A
<1>4. M2 \in Nat /\ DOMAIN r2.cq = 1 .. M2 /\ DOMAIN r2.sq = 1 .. L - n
  BY <1>3, LenProperties DEF M2
<1>5. PICK at \in [M + 1 .. M2 -> 1 .. n] :
        /\ \A i \in M + 1 .. M2 : r2.cq[i] = r.sq[at[i]] /\ r2.cq[i].op = "CLOSE"
        /\ \A i, j \in M + 1 .. M2 : at[i] = at[j] => i = j
        /\ \A p \in 1 .. n : r.sq[p].op = "CLOSE" => \E i \in M + 1 .. M2 : at[i] = p
  BY <1>3 DEF Places, M, M2
<1>6. \A i \in DOMAIN r2.sq : n + i \in DOMAIN r.sq /\ r2.sq[i] = r.sq[n + i] /\ n + i \notin 1 .. n
  <2>1. ASSUME NEW i \in 1 .. L - n
        PROVE  n + i \in 1 .. L /\ n + i \notin 1 .. n
    BY <1>1, <1>2
  <2> QED
    BY <1>1, <1>3, <1>4, <2>1
<1>7. \A i \in DOMAIN r2.cq :
        \/ i \in DOMAIN r.cq /\ r2.cq[i] = r.cq[i]
        \/ /\ i \in M + 1 .. M2 /\ at[i] \in 1 .. n /\ at[i] \in DOMAIN r.sq
           /\ r2.cq[i] = r.sq[at[i]] /\ r2.cq[i].op = "CLOSE"
  <2>1. ASSUME NEW i \in DOMAIN r2.cq
        PROVE  i \in 1 .. M \/ i \in M + 1 .. M2
    BY <1>1, <1>4
  <2>2. \A p \in 1 .. n : p \in DOMAIN r.sq
    BY <1>1, <1>2
  <2> QED
    BY <1>1, <1>3, <1>5, <2>1, <2>2
<1>8. \A i \in DOMAIN r.cq : i \in DOMAIN r2.cq /\ r2.cq[i] = r.cq[i]
  BY SMTT(20), <1>1, <1>3, <1>4
<1>9. \A i \in DOMAIN r.sq :
        \/ i - n \in DOMAIN r2.sq /\ r2.sq[i - n] = r.sq[i]
        \/ i \in 1 .. n
  <2> SUFFICES ASSUME NEW i \in DOMAIN r.sq, i \notin 1 .. n
               PROVE  i - n \in DOMAIN r2.sq /\ r2.sq[i - n] = r.sq[i]
    OBVIOUS
  <2>1. i \in Int /\ i > n /\ i <= L
    BY <1>1, <1>2
  <2>2. i - n \in 1 .. L - n /\ n + (i - n) = i
    BY <1>1, <1>2, <2>1
  <2> QED
    BY <1>4, <1>6, <2>2
<1>10. \A p \in 1 .. n : r.sq[p].op = "CLOSE" => \E i \in DOMAIN r2.cq : r2.cq[i] = r.sq[p]
  <2>1. \A i \in M + 1 .. M2 : i \in DOMAIN r2.cq
    BY <1>1, <1>4
  <2> QED
    BY <1>5, <2>1
<1>11. \A p \in 1 .. n : IsHeld(r.sq[p]) => r.sq[p] \in r2.pending
  BY <1>3
<1>12. \A e \in r2.pending : e \in r.pending \/ \E p \in 1 .. n : IsHeld(r.sq[p]) /\ e = r.sq[p]
  BY <1>3
<1>13. r.pending \subseteq r2.pending /\ r2.open \subseteq Fds
       /\ \A p \in 1 .. n : p \in DOMAIN r.sq
  BY <1>1, <1>2, <1>3
<1>20. RingOK(r2)
  <2>1. \A e \in Requests : IsHeld(e) => e.op \in {"RECV", "EGRESS", "SEND_RESP"}
    BY DEF IsHeld, Requests
  <2>2. \A e \in r2.pending : e \in Requests /\ Prepared(e) /\ e.op \in {"RECV", "EGRESS", "SEND_RESP"}
    BY <1>1, <1>12, <1>13, <2>1
  <2>3. \A e : e.op = "CLOSE" /\ Prepared(e) => Answered(e)
    BY DEF Prepared, Answered
  <2>4. \A i \in DOMAIN r2.cq : Answered(r2.cq[i])
    BY <1>1, <1>7, <2>3
  <2>5. \A i \in DOMAIN r2.sq : Prepared(r2.sq[i])
    BY <1>1, <1>6
  <2>6. Cardinality(A) \in Nat
    BY <1>2, FiniteParts, A \in SUBSET (1 .. n) DEF A
  <2>7. r2.visible \in Nat /\ r2.visible <= Len(r2.sq) /\ r2.seen \in Nat /\ r2.seen <= M2
        /\ r2.accepts \in Nat
    <3>1. n <= r.visible /\ Len(r2.sq) = L - n /\ M2 >= M
      BY <1>3 DEF M, M2
    <3>2. r2.visible = r.visible - n /\ r2.seen = r.seen /\ r2.accepts = r.accepts + Cardinality(A)
      BY <1>3
    <3>3. r2.visible \in Nat /\ r2.visible <= Len(r2.sq)
      BY <1>1, <1>2, <3>1, <3>2
    <3>4. r2.seen \in Nat /\ r2.seen <= M2
      BY <1>1, <1>4, <3>1, <3>2
    <3>5. r2.accepts \in Nat
      BY <1>1, <2>6, <3>2
    <3> QED
      BY <3>3, <3>4, <3>5
  <2>8. r2 \in Rings
    BY <1>3, <1>13, <2>2, <2>7 DEF Rings
  <2> QED
    BY <2>2, <2>4, <2>5, <2>7, <2>8 DEF RingOK, M2
<1>21. ASSUME NEW e, Holds(r2, e) PROVE Holds(r, e)
  BY <1>6, <1>7, <1>12, <1>13, <1>21 DEF Holds
<1>22. ASSUME NEW c
       PROVE  /\ SqHas(r2, "RECV", c) => SqHas(r, "RECV", c)
              /\ CqHas(r2, "RECV", c) <=> CqHas(r, "RECV", c)
              /\ HeldHas(r2, "RECV", c) => HeldHas(r, "RECV", c) \/ SqHas(r, "RECV", c)
              /\ HeldHas(r, "RECV", c) => HeldHas(r2, "RECV", c)
              /\ SqHas(r, "RECV", c) => HeldHas(r2, "RECV", c) \/ SqHas(r2, "RECV", c)
  <2>1. SqHas(r2, "RECV", c) => SqHas(r, "RECV", c)
    BY <1>6 DEF SqHas
  <2>2. CqHas(r2, "RECV", c) <=> CqHas(r, "RECV", c)
    BY <1>7, <1>8 DEF CqHas, Is
  <2>3. HeldHas(r2, "RECV", c) => HeldHas(r, "RECV", c) \/ SqHas(r, "RECV", c)
    BY <1>12, <1>13 DEF HeldHas, SqHas
  <2>4. HeldHas(r, "RECV", c) => HeldHas(r2, "RECV", c)
    BY <1>13 DEF HeldHas
  <2>5. SqHas(r, "RECV", c) => HeldHas(r2, "RECV", c) \/ SqHas(r2, "RECV", c)
    BY <1>9, <1>11 DEF HeldHas, SqHas, Is, IsHeld
  <2> QED
    BY <2>1, <2>2, <2>3, <2>4, <2>5
<1>23. ASSUME NEW c
       PROVE  /\ SqHas(r2, "CLOSE", c) => SqHas(r, "CLOSE", c)
              /\ HeldHas(r2, "CLOSE", c) <=> HeldHas(r, "CLOSE", c)
              /\ CqHas(r2, "CLOSE", c) => CqHas(r, "CLOSE", c) \/ SqHas(r, "CLOSE", c)
              /\ CqHas(r, "CLOSE", c) => CqHas(r2, "CLOSE", c)
              /\ SqHas(r, "CLOSE", c) => CqHas(r2, "CLOSE", c) \/ SqHas(r2, "CLOSE", c)
  <2>1. SqHas(r2, "CLOSE", c) => SqHas(r, "CLOSE", c)
    BY <1>6 DEF SqHas
  <2>2. CqHas(r2, "CLOSE", c) => CqHas(r, "CLOSE", c) \/ SqHas(r, "CLOSE", c)
    BY <1>7 DEF CqHas, SqHas
  <2>3. HeldHas(r2, "CLOSE", c) <=> HeldHas(r, "CLOSE", c)
    BY <1>12, <1>13 DEF HeldHas, Is, IsHeld
  <2>4. CqHas(r, "CLOSE", c) => CqHas(r2, "CLOSE", c)
    BY <1>8 DEF CqHas
  <2>5. SqHas(r, "CLOSE", c) => CqHas(r2, "CLOSE", c) \/ SqHas(r2, "CLOSE", c)
    BY <1>9, <1>10 DEF CqHas, SqHas, Is
  <2> QED
    BY <2>1, <2>2, <2>3, <2>4, <2>5
<1>24. ASSUME NEW c, One(r, "RECV", c) PROVE One(r2, "RECV", c)
  <2>1. \A i, j \in DOMAIN r2.sq : Is(r2.sq[i], "RECV", c) /\ Is(r2.sq[j], "RECV", c) => i = j
    <3>1. ASSUME NEW i \in DOMAIN r2.sq, NEW j \in DOMAIN r2.sq,
                 Is(r2.sq[i], "RECV", c), Is(r2.sq[j], "RECV", c)
          PROVE  i = j
      <4>1. n + i = n + j
        BY <1>6, <1>24, <3>1 DEF One
      <4>2. i \in Int /\ j \in Int /\ n \in Int
        BY <1>1, <1>2, <1>4
      <4> QED
        BY <4>1, <4>2
    <3> QED
      BY <3>1
  <2>2. \A i, j \in DOMAIN r2.cq : Is(r2.cq[i], "RECV", c) /\ Is(r2.cq[j], "RECV", c) => i = j
    BY <1>7, <1>24 DEF One, Is
  <2>3. \A d, e \in r2.pending : Is(d, "RECV", c) /\ Is(e, "RECV", c) => d = e
    BY <1>12, <1>13, <1>24 DEF One, SqHas, HeldHas
  <2>4. SqHas(r2, "RECV", c) => ~HeldHas(r2, "RECV", c)
    BY <1>6, <1>12, <1>13, <1>24 DEF One, SqHas, HeldHas
  <2> QED
    BY <1>22, <1>24, <2>1, <2>2, <2>3, <2>4 DEF One
<1>25. ASSUME NEW c, One(r, "CLOSE", c) PROVE One(r2, "CLOSE", c)
  <2>1. \A i, j \in DOMAIN r2.sq : Is(r2.sq[i], "CLOSE", c) /\ Is(r2.sq[j], "CLOSE", c) => i = j
    <3>1. ASSUME NEW i \in DOMAIN r2.sq, NEW j \in DOMAIN r2.sq,
                 Is(r2.sq[i], "CLOSE", c), Is(r2.sq[j], "CLOSE", c)
          PROVE  i = j
      <4>1. n + i = n + j
        BY <1>6, <1>25, <3>1 DEF One
      <4>2. i \in Int /\ j \in Int /\ n \in Int
        BY <1>1, <1>2, <1>4
      <4> QED
        BY <4>1, <4>2
    <3> QED
      BY <3>1
  <2>2. \A i, j \in DOMAIN r2.cq : Is(r2.cq[i], "CLOSE", c) /\ Is(r2.cq[j], "CLOSE", c) => i = j
    <3> SUFFICES ASSUME NEW i \in DOMAIN r2.cq, NEW j \in DOMAIN r2.cq,
                        Is(r2.cq[i], "CLOSE", c), Is(r2.cq[j], "CLOSE", c)
                 PROVE  i = j
      OBVIOUS
    <3>1. CASE i \in DOMAIN r.cq /\ r2.cq[i] = r.cq[i] /\ j \in DOMAIN r.cq /\ r2.cq[j] = r.cq[j]
      BY <1>25, <3>1 DEF One
    <3>2. CASE i \in M + 1 .. M2 /\ r2.cq[i] = r.sq[at[i]] /\ at[i] \in DOMAIN r.sq
               /\ j \in M + 1 .. M2 /\ r2.cq[j] = r.sq[at[j]] /\ at[j] \in DOMAIN r.sq
      <4>1. at[i] = at[j]
        BY <1>25, <3>2 DEF One
      <4> QED
        BY <1>5, <3>2, <4>1
    <3>3. CASE CqHas(r, "CLOSE", c) /\ SqHas(r, "CLOSE", c)
      BY <1>25, <3>3 DEF One
    <3> QED
      BY <1>7, <3>1, <3>2, <3>3 DEF CqHas, SqHas
  <2>3. \A d, e \in r2.pending : Is(d, "CLOSE", c) /\ Is(e, "CLOSE", c) => d = e
    BY <1>12, <1>25 DEF One, IsHeld, Is
  <2>4. SqHas(r2, "CLOSE", c) => ~CqHas(r2, "CLOSE", c)
    BY <1>6, <1>7, <1>25 DEF One, SqHas, CqHas
  <2> QED
    BY <1>23, <1>25, <2>1, <2>2, <2>3, <2>4 DEF One
<1>26. AcceptsOf(r2) = AcceptsOf(r)
  <2>1. /\ Accepts(r.sq) = Cardinality(A) + Accepts(r2.sq)
        /\ Cardinality(A) \in Nat
    <3>1. n \in 0 .. Len(r.sq) /\ r.sq \in Seq(Requests) /\ r2.sq = SubSeq(r.sq, n + 1, Len(r.sq))
      BY <1>1, <1>2, <1>3 DEF L
    <3> QED
      BY <3>1, AcceptsSplit DEF A
  <2>2. AcceptPlaces(r2.cq) = AcceptPlaces(r.cq)
    <3>1. \A i \in AcceptPlaces(r2.cq) : i \in AcceptPlaces(r.cq)
      BY <1>7 DEF AcceptPlaces
    <3>2. \A i \in AcceptPlaces(r.cq) : i \in AcceptPlaces(r2.cq)
      BY <1>8 DEF AcceptPlaces
    <3> QED
      BY <3>1, <3>2
  <2>3. Accepts(r2.cq) = Accepts(r.cq) /\ Accepts(r.cq) \in Nat /\ Accepts(r2.sq) \in Nat
    BY <1>1, <1>3, <2>2, AcceptsParts
  <2> QED
    BY <1>1, <1>3, <2>1, <2>3 DEF AcceptsOf
<1> QED
  BY <1>20, <1>21, <1>22, <1>23, <1>24, <1>25, <1>26 DEF Has, Moved

-------------------------------------------------------------------------------
(* The requests, the connections and the fd map.                               *)

Clients == [state : {"FREE", "ACTIVE", "DORMANT", "CLOSING"},
            fd : Fds \cup {NoFd}, generation : 0 .. GenMod - 1,
            recv_pending : BOOLEAN, recv_buf_idx : Bufs \cup {NoBuf},
            orphaned_recv_buf_idx : Bufs \cup {NoBuf}, full : BOOLEAN,
            egress_inflight : BOOLEAN]

IsConnected(cl) == cl.state \in {"ACTIVE", "CLOSING"}

OwnRecv(e, cl)  == cl.generation = e.gen /\ cl.fd = e.fd /\ cl.recv_buf_idx = e.buf
OwnClose(e, cl) == cl.generation = e.gen /\ cl.fd = e.fd /\ cl.state = "CLOSING"

RecvsOK(r, cls) ==
  /\ \A c \in Slots : One(r, "RECV", c) /\ (cls[c].recv_pending <=> Has(r, "RECV", c))
  /\ \A e : Holds(r, e) /\ e.op = "RECV" => OwnRecv(e, cls[e.slot])

ClosesOK(r, cls) ==
  /\ \A c \in Slots : One(r, "CLOSE", c)
  /\ \A e : Holds(r, e) /\ e.op = "CLOSE" => OwnClose(e, cls[e.slot])

MapOK(cls, f2s) ==
  \A f \in Fds, c \in Slots : f2s[f] = c <=> IsConnected(cls[c]) /\ cls[c].fd = f

(* An accept of fd f, and a close of it, in the CQ. *)
Accepted(r, i, f) == r.cq[i].op = "ACCEPT" /\ r.cq[i].res = "ok" /\ r.cq[i].fd = f
Closed(r, i, f)   == r.cq[i].op = "CLOSE" /\ r.cq[i].fd = f

(* An fd is accepted again only after its close was posted. *)
FdOK(r, f2s, f) ==
  /\ \A i, j \in DOMAIN r.cq : Accepted(r, i, f) /\ Accepted(r, j, f) => i = j
  /\ \A i \in DOMAIN r.cq : Accepted(r, i, f) /\ f2s[f] # NoSlot
                               => \E j \in DOMAIN r.cq : j < i /\ Closed(r, j, f)
  /\ f \in r.open <=> \/ \E i \in DOMAIN r.cq : Accepted(r, i, f)
                      \/ f2s[f] # NoSlot /\ ~\E i \in DOMAIN r.cq : Closed(r, i, f)
FdsOK(r, f2s) == \A f \in Fds : FdOK(r, f2s, f)

RingInv(r, cls, f2s) ==
  /\ RingOK(r)
  /\ RecvsOK(r, cls)
  /\ ClosesOK(r, cls)
  /\ MapOK(cls, f2s)
  /\ FdsOK(r, f2s)

LEMMA MovedKeeps ==
  ASSUME NEW r, NEW r2, NEW cls, Moved(r, r2), RecvsOK(r, cls), ClosesOK(r, cls)
  PROVE  RecvsOK(r2, cls) /\ ClosesOK(r2, cls)
BY DEF Moved, RecvsOK, ClosesOK

(* A close the kernel takes is the only one of its fd, which nothing else has. *)
LEMMA TakeKeeps ==
  ASSUME ~Reorder, NEW r, NEW cls, NEW f2s, RingInv(r, cls, f2s),
         NEW n \in 0 .. r.visible, NEW r2, r2 = Take(r, n)
  PROVE  RingInv(r2, cls, f2s) /\ AcceptsOf(r2) = AcceptsOf(r)
<1> DEFINE M == Len(r.cq)
           M2 == Len(r2.cq)
<1>1. RingOK(r) /\ RecvsOK(r, cls) /\ ClosesOK(r, cls) /\ MapOK(cls, f2s) /\ FdsOK(r, f2s)
  BY DEF RingInv
<1>2. Taken(r, n, r2) /\ Moved(r, r2)
  BY <1>1, TakeParts, TakeMoves
<1>3. /\ M \in Nat /\ DOMAIN r.cq = 1 .. M /\ r.visible \in Nat
      /\ r.visible <= Len(r.sq) /\ Len(r.sq) \in Nat /\ DOMAIN r.sq = 1 .. Len(r.sq)
      /\ \A i \in DOMAIN r.sq : Prepared(r.sq[i])
      /\ \A i \in DOMAIN r.cq : Answered(r.cq[i])
  BY <1>1, RingParts DEF RingOK
<1>4. M2 \in Nat /\ DOMAIN r2.cq = 1 .. M2 /\ M2 >= M
  BY <1>2, LenProperties DEF Taken
<1>5. \A i \in 1 .. M : r2.cq[i] = r.cq[i]
  BY <1>2 DEF Taken
<1>6. \A i \in 1 .. n : i \in DOMAIN r.sq
  BY <1>3
<1> HIDE DEF M, M2
<1>7. PICK at \in [M + 1 .. M2 -> 1 .. n] :
        /\ \A i \in M + 1 .. M2 : r2.cq[i] = r.sq[at[i]] /\ r2.cq[i].op = "CLOSE"
        /\ \A p \in 1 .. n : r.sq[p].op = "CLOSE" => \E i \in M + 1 .. M2 : at[i] = p
  BY <1>2 DEF Taken, Places, M, M2
<1> DEFINE Taking(f) == \E p \in 1 .. n : r.sq[p].op = "CLOSE" /\ r.sq[p].fd = f
<1>8. \A f \in Fds : f \in r2.open <=> f \in r.open /\ ~Taking(f)
  BY <1>2 DEF Taken
<1>9. \A f \in Fds : \A i \in DOMAIN r2.cq : Accepted(r2, i, f) => i \in DOMAIN r.cq /\ Accepted(r, i, f)
  <2>1. \A i \in DOMAIN r2.cq : i \in 1 .. M \/ i \in M + 1 .. M2
    BY <1>3, <1>4
  <2> QED
    BY <1>3, <1>5, <1>7, <2>1 DEF Accepted
<1>10. \A f \in Fds : \A i \in DOMAIN r.cq :
         /\ i \in DOMAIN r2.cq
         /\ Accepted(r, i, f) => Accepted(r2, i, f)
         /\ Closed(r, i, f) => Closed(r2, i, f)
  BY <1>3, <1>4, <1>5 DEF Accepted, Closed
<1>11. \A f \in Fds : \A i \in DOMAIN r2.cq : Closed(r2, i, f) =>
         Taking(f) \/ (i \in DOMAIN r.cq /\ Closed(r, i, f))
  <2>1. \A i \in DOMAIN r2.cq : i \in 1 .. M \/ i \in M + 1 .. M2
    BY <1>3, <1>4
  <2> QED
    BY <1>3, <1>5, <1>7, <2>1 DEF Closed
<1>12. \A f \in Fds : Taking(f) => \E i \in DOMAIN r2.cq : Closed(r2, i, f)
  <2>1. \A i \in M + 1 .. M2 : i \in DOMAIN r2.cq
    BY <1>3, <1>4
  <2> QED
    BY <1>7, <2>1 DEF Closed
<1>13. ASSUME NEW f \in Fds, Taking(f)
       PROVE  f2s[f] # NoSlot /\ ~\E i \in DOMAIN r.cq : Closed(r, i, f)
  <2>1. PICK p \in 1 .. n : r.sq[p].op = "CLOSE" /\ r.sq[p].fd = f
    BY <1>13
  <2> DEFINE c == r.sq[p].slot
  <2>2. c \in Slots /\ OwnClose(r.sq[p], cls[c]) /\ SqHas(r, "CLOSE", c)
    BY <1>1, <1>3, <1>6, <2>1 DEF ClosesOK, Holds, Prepared, Owned, SqHas, Is
  <2>3. f2s[f] = c
    BY <1>1, <2>1, <2>2 DEF MapOK, OwnClose, IsConnected
  <2>4. ASSUME NEW i \in DOMAIN r.cq, Closed(r, i, f)
        PROVE  FALSE
    <3> DEFINE d == r.cq[i].slot
    <3>1. d \in Slots /\ OwnClose(r.cq[i], cls[d]) /\ CqHas(r, "CLOSE", d)
      BY <1>1, <1>3, <2>4 DEF ClosesOK, Holds, Answered, Owned, CqHas, Is, Closed
    <3>2. f2s[f] = d
      BY <1>1, <2>4, <3>1 DEF MapOK, OwnClose, IsConnected, Closed
    <3>3. c = d
      BY <2>3, <3>2
    <3> QED
      BY <1>1, <2>2, <3>1, <3>3 DEF ClosesOK, One
  <2> QED
    BY <2>2, <2>3, <2>4, SlotBufAssumption
<1> HIDE DEF Taking
<1>14. FdsOK(r2, f2s)
  <2> SUFFICES ASSUME NEW f \in Fds
               PROVE  /\ \A i, j \in DOMAIN r2.cq : Accepted(r2, i, f) /\ Accepted(r2, j, f) => i = j
                      /\ \A i \in DOMAIN r2.cq : Accepted(r2, i, f) /\ f2s[f] # NoSlot
                            => \E j \in DOMAIN r2.cq : j < i /\ Closed(r2, j, f)
                      /\ f \in r2.open <=>
                           \/ \E i \in DOMAIN r2.cq : Accepted(r2, i, f)
                           \/ f2s[f] # NoSlot /\ ~\E i \in DOMAIN r2.cq : Closed(r2, i, f)
    BY DEF FdsOK, FdOK
  <2>1. \A i, j \in DOMAIN r2.cq : Accepted(r2, i, f) /\ Accepted(r2, j, f) => i = j
    BY <1>1, <1>9 DEF FdsOK, FdOK
  <2>2. \A i \in DOMAIN r2.cq : Accepted(r2, i, f) /\ f2s[f] # NoSlot
          => \E j \in DOMAIN r2.cq : j < i /\ Closed(r2, j, f)
    BY <1>1, <1>9, <1>10 DEF FdsOK, FdOK
  <2>3. (\E i \in DOMAIN r2.cq : Accepted(r2, i, f)) <=> \E i \in DOMAIN r.cq : Accepted(r, i, f)
    BY <1>9, <1>10
  <2>4. CASE Taking(f)
    BY <1>1, <1>8, <1>12, <1>13, <2>1, <2>2, <2>3, <2>4 DEF FdsOK, FdOK
  <2>5. CASE ~Taking(f)
    <3>1. (\E i \in DOMAIN r2.cq : Closed(r2, i, f)) <=> \E i \in DOMAIN r.cq : Closed(r, i, f)
      BY <1>10, <1>11, <2>5
    <3> QED
      BY <1>1, <1>8, <2>1, <2>2, <2>3, <2>5, <3>1 DEF FdsOK, FdOK
  <2> QED
    BY <2>4, <2>5
<1> QED
  BY <1>1, <1>2, <1>14, MovedKeeps DEF RingInv, Moved

(* What is visible, and what was seen, make no difference.                     *)
LEMMA SameContents ==
  ASSUME NEW r, NEW r2, RingOK(r2), r2.sq = r.sq, r2.cq = r.cq, r2.pending = r.pending,
         r2.accepts = r.accepts, r2.open = r.open
  PROVE  /\ \A cls, f2s : RingInv(r, cls, f2s) => RingInv(r2, cls, f2s)
         /\ AcceptsOf(r2) = AcceptsOf(r)
<1>1. /\ \A e : Holds(r2, e) <=> Holds(r, e)
      /\ \A op, c : (Has(r2, op, c) <=> Has(r, op, c)) /\ (One(r2, op, c) <=> One(r, op, c))
  BY DEF Holds, Has, SqHas, CqHas, HeldHas, One
<1>2. \A f2s : FdsOK(r, f2s) => FdsOK(r2, f2s)
  BY DEF FdsOK, FdOK, Accepted, Closed
<1>3. \A cls : (RecvsOK(r, cls) => RecvsOK(r2, cls)) /\ (ClosesOK(r, cls) => ClosesOK(r2, cls))
  BY <1>1 DEF RecvsOK, ClosesOK
<1>4. AcceptsOf(r2) = AcceptsOf(r)
  BY DEF AcceptsOf
<1> QED
  BY <1>2, <1>3, <1>4 DEF RingInv

LEMMA FlushKeeps ==
  ASSUME NEW r, RingOK(r), NEW r2, r2 = FlushSqes(r)
  PROVE  /\ \A cls, f2s : RingInv(r, cls, f2s) => RingInv(r2, cls, f2s)
         /\ AcceptsOf(r2) = AcceptsOf(r) /\ RingOK(r2)
         /\ r2.visible = Len(r.sq) /\ r2.sq = r.sq /\ Len(r.sq) \in Nat
<1>1. /\ r2.sq = r.sq /\ r2.cq = r.cq /\ r2.pending = r.pending /\ r2.accepts = r.accepts
      /\ r2.open = r.open /\ r2.seen = r.seen /\ r2.visible = Len(r.sq) /\ Len(r.sq) \in Nat
      /\ r2 \in Rings
  BY RingParts DEF RingOK, Rings, FlushSqes
<1>2. RingOK(r2)
  BY <1>1 DEF RingOK
<1> QED
  BY <1>1, <1>2, SameContents

LEMMA TakesVisible ==
  ASSUME NEW r, RingOK(r), NEW n \in Takes(r)
  PROVE  n \in 0 .. r.visible
BY RingParts DEF Takes

LEMMA RoomKeeps ==
  ASSUME ~Reorder, NEW r, NEW cls, NEW f2s, RingInv(r, cls, f2s), NEW room \in MakeRoom(r)
  PROVE  RingInv(room, cls, f2s) /\ AcceptsOf(room) = AcceptsOf(r)
<1>1. RingOK(r)
  BY DEF RingInv
<1> DEFINE v == FlushSqes(r)
<1>2. RingInv(v, cls, f2s) /\ AcceptsOf(v) = AcceptsOf(r) /\ RingOK(v)
  BY <1>1, FlushKeeps
<1> HIDE DEF v
<1>3. CASE ~SqFull(r)
  BY <1>3 DEF MakeRoom
<1>4. CASE SqFull(r)
  <2>1. PICK n \in Takes(v) : room = Take(v, n)
    BY <1>4 DEF MakeRoom, v
  <2>2. n \in 0 .. v.visible
    BY <1>2, TakesVisible
  <2>3. RingInv(room, cls, f2s) /\ AcceptsOf(room) = AcceptsOf(v)
    BY <1>2, <2>1, <2>2, TakeKeeps
  <2> QED
    BY <1>2, <2>3
<1> QED
  BY <1>3, <1>4

-------------------------------------------------------------------------------
(* Preparing a request.                                                        *)

Added(r, e, r2) ==
  /\ RingOK(r2)
  /\ \A x : Holds(r2, x) => Holds(r, x) \/ x = e
  /\ \A op, c : Has(r2, op, c) <=> Has(r, op, c) \/ Is(e, op, c)
  /\ \A op, c : One(r, op, c) /\ ~(Is(e, op, c) /\ Has(r, op, c)) => One(r2, op, c)
  /\ AcceptsOf(r2) = AcceptsOf(r) + (IF e.op = "ACCEPT" THEN 1 ELSE 0)
  /\ r2.cq = r.cq /\ r2.open = r.open

LEMMA PrepareAdds ==
  ASSUME NEW r, RingOK(r), NEW e \in Requests, Prepared(e), NEW r2, r2 = Prepare(r, e)
  PROVE  Added(r, e, r2)
<1> DEFINE L == Len(r.sq)
<1>1. /\ r.sq \in Seq(Requests) /\ r.cq \in Seq(Requests) /\ L \in Nat /\ DOMAIN r.sq = 1 .. L
      /\ r.visible \in Nat /\ r.visible <= L /\ r.accepts \in Nat
      /\ \A i \in DOMAIN r.sq : Prepared(r.sq[i])
  BY RingParts DEF RingOK
<1>2. /\ r2.sq = Append(r.sq, e) /\ r2.cq = r.cq /\ r2.pending = r.pending
      /\ r2.accepts = r.accepts /\ r2.open = r.open /\ r2.seen = r.seen
      /\ r2.visible = r.visible
      /\ r2 = [sq |-> r2.sq, visible |-> r2.visible, cq |-> r2.cq, seen |-> r2.seen,
               pending |-> r2.pending, accepts |-> r2.accepts, open |-> r2.open]
  BY DEF RingOK, Rings, Prepare
<1>3. /\ r2.sq \in Seq(Requests) /\ Len(r2.sq) = L + 1 /\ DOMAIN r2.sq = 1 .. L + 1
      /\ \A i \in 1 .. L : r2.sq[i] = r.sq[i]
      /\ r2.sq[L + 1] = e
  BY <1>1, <1>2, AtEnd
<1> HIDE DEF L
<1>4. /\ \A i \in DOMAIN r2.sq : (i \in DOMAIN r.sq /\ r2.sq[i] = r.sq[i])
                                   \/ (i = L + 1 /\ r2.sq[i] = e)
      /\ \A i \in DOMAIN r.sq : i \in DOMAIN r2.sq /\ r2.sq[i] = r.sq[i]
      /\ L + 1 \in DOMAIN r2.sq /\ r2.sq[L + 1] = e
  BY <1>1, <1>3
<1>5. RingOK(r2)
  <2>1. r2 \in Rings
    BY <1>2, <1>3 DEF RingOK, Rings
  <2>2. r2.visible <= Len(r2.sq)
    BY <1>1, <1>2, <1>3
  <2> QED
    BY <1>2, <1>4, <2>1, <2>2 DEF RingOK
<1>6. \A x : Holds(r2, x) => Holds(r, x) \/ x = e
  BY <1>2, <1>4 DEF Holds
<1>7. \A op, c : (SqHas(r2, op, c) <=> SqHas(r, op, c) \/ Is(e, op, c))
                 /\ (CqHas(r2, op, c) <=> CqHas(r, op, c))
                 /\ (HeldHas(r2, op, c) <=> HeldHas(r, op, c))
  BY <1>2, <1>4 DEF SqHas, CqHas, HeldHas
<1>8. ASSUME NEW op, NEW c, One(r, op, c), ~(Is(e, op, c) /\ Has(r, op, c))
      PROVE  One(r2, op, c)
  <2>1. \A i, j \in DOMAIN r2.sq : Is(r2.sq[i], op, c) /\ Is(r2.sq[j], op, c) => i = j
    BY <1>4, <1>8 DEF One, Has, SqHas
  <2>2. /\ \A i, j \in DOMAIN r2.cq : Is(r2.cq[i], op, c) /\ Is(r2.cq[j], op, c) => i = j
        /\ \A d, x \in r2.pending : Is(d, op, c) /\ Is(x, op, c) => d = x
    BY <1>2, <1>8 DEF One
  <2>3. /\ SqHas(r2, op, c) => ~CqHas(r2, op, c) /\ ~HeldHas(r2, op, c)
        /\ CqHas(r2, op, c) => ~HeldHas(r2, op, c)
    BY <1>7, <1>8 DEF One, Has
  <2> QED
    BY <2>1, <2>2, <2>3 DEF One
<1>9. AcceptsOf(r2) = AcceptsOf(r) + (IF e.op = "ACCEPT" THEN 1 ELSE 0)
  <2>1. Accepts(r2.sq) = Accepts(r.sq) + (IF e.op = "ACCEPT" THEN 1 ELSE 0)
    BY <1>1, <1>2, AcceptsAppend
  <2>2. Accepts(r.sq) \in Nat /\ Accepts(r.cq) \in Nat
    BY <1>1, AcceptsParts
  <2> QED
    BY <1>1, <1>2, <2>1, <2>2 DEF AcceptsOf
<1> QED
  BY <1>2, <1>5, <1>6, <1>7, <1>8, <1>9 DEF Added, Has

(* Slot c alone changes from cls to cls2.                                      *)
Only(cls, cls2, c) == \A d \in Slots : d # c => cls2[d] = cls[d]

(* What the requests of a connection and the fd map know of it. *)
SameConnection(cl, cl2) ==
  /\ cl2.generation = cl.generation /\ cl2.fd = cl.fd
  /\ IsConnected(cl2) <=> IsConnected(cl)
  /\ cl.state = "CLOSING" => cl2.state = "CLOSING"

LEMMA ClientKeeps ==
  ASSUME NEW r, NEW cls, NEW cls2, NEW f2s, RingInv(r, cls, f2s), NEW c \in Slots,
         Only(cls, cls2, c), SameConnection(cls[c], cls2[c]),
         cls2[c].recv_pending <=> cls[c].recv_pending,
         cls2[c].recv_buf_idx = cls[c].recv_buf_idx \/ ~cls[c].recv_pending
  PROVE  RingInv(r, cls2, f2s)
<1>1. RingOK(r) /\ RecvsOK(r, cls) /\ ClosesOK(r, cls) /\ MapOK(cls, f2s) /\ FdsOK(r, f2s)
  BY DEF RingInv
<1>2. \A e : Holds(r, e) => Owned(e)
  BY <1>1 DEF RingOK, Holds, Prepared, Answered
<1>3. \A e : Holds(r, e) /\ e.op # "ACCEPT" /\ e.slot # c => cls2[e.slot] = cls[e.slot]
  BY <1>2 DEF Owned, Only
<1>4. \A e : Holds(r, e) /\ e.op = "RECV" => Has(r, "RECV", e.slot)
  BY DEF Holds, Has, SqHas, CqHas, HeldHas, Is
<1>5. RecvsOK(r, cls2)
  <2>1. \A d \in Slots : One(r, "RECV", d) /\ (cls2[d].recv_pending <=> Has(r, "RECV", d))
    BY <1>1 DEF RecvsOK, Only
  <2>2. ASSUME NEW e, Holds(r, e), e.op = "RECV"
        PROVE  OwnRecv(e, cls2[e.slot])
    <3>1. OwnRecv(e, cls[e.slot])
      BY <1>1, <2>2 DEF RecvsOK
    <3>2. CASE e.slot = c
      BY <1>1, <1>4, <2>2, <3>1, <3>2 DEF RecvsOK, OwnRecv, SameConnection
    <3>3. CASE e.slot # c
      BY <1>3, <2>2, <3>1, <3>3
    <3> QED
      BY <3>2, <3>3
  <2> QED
    BY <2>1, <2>2 DEF RecvsOK
<1>6. ClosesOK(r, cls2)
  <2>1. ASSUME NEW e, Holds(r, e), e.op = "CLOSE"
        PROVE  OwnClose(e, cls2[e.slot])
    <3>1. OwnClose(e, cls[e.slot])
      BY <1>1, <2>1 DEF ClosesOK
    <3>2. CASE e.slot = c
      BY <3>1, <3>2 DEF OwnClose, SameConnection
    <3>3. CASE e.slot # c
      BY <1>3, <2>1, <3>1, <3>3
    <3> QED
      BY <3>2, <3>3
  <2> QED
    BY <1>1, <2>1 DEF ClosesOK
<1>7. MapOK(cls2, f2s)
  BY <1>1 DEF MapOK, Only, SameConnection
<1> QED
  BY <1>1, <1>5, <1>6, <1>7 DEF RingInv

LEMMA AddedAccept ==
  ASSUME NEW r, NEW cls, NEW f2s, RingInv(r, cls, f2s), NEW r2, r2 = Prepare(r, AcceptSqe)
  PROVE  RingInv(r2, cls, f2s) /\ AcceptsOf(r2) = AcceptsOf(r) + 1
<1>1. RingOK(r) /\ RecvsOK(r, cls) /\ ClosesOK(r, cls) /\ FdsOK(r, f2s)
  BY DEF RingInv
<1>2. AcceptSqe \in Requests /\ Prepared(AcceptSqe) /\ AcceptSqe.op = "ACCEPT"
  <2>1. 0 \in 0 .. GenMod - 1
    BY LoopAssumption
  <2> QED
    BY <2>1 DEF AcceptSqe, Requests, Prepared, Owned, NoFd
<1> DEFINE e == AcceptSqe
<1> HIDE DEF e
<1>3. Added(r, e, r2) /\ e.op = "ACCEPT"
  BY <1>1, <1>2, PrepareAdds DEF e
<1>4. \A c : ~Is(e, "RECV", c) /\ ~Is(e, "CLOSE", c)
  BY <1>3 DEF Is
<1>5. RecvsOK(r2, cls) /\ ClosesOK(r2, cls)
  BY <1>1, <1>3, <1>4 DEF RecvsOK, ClosesOK, Added
<1>6. FdsOK(r2, f2s)
  BY <1>1, <1>3 DEF FdsOK, FdOK, Added, Accepted, Closed
<1> QED
  BY <1>3, <1>5, <1>6 DEF RingInv, Added

LEMMA RequestType ==
  ASSUME NEW op \in {"RECV", "CLOSE", "EGRESS", "SEND_RESP"}, NEW c \in Slots, NEW cl \in Clients, cl.fd \in Fds,
         NEW buf \in Bufs \cup {NoBuf}
  PROVE  /\ Request(op, c, cl, buf) \in Requests /\ Prepared(Request(op, c, cl, buf))
         /\ Request(op, c, cl, buf).op = op /\ Request(op, c, cl, buf).slot = c
         /\ Request(op, c, cl, buf).fd = cl.fd /\ Request(op, c, cl, buf).gen = cl.generation
         /\ Request(op, c, cl, buf).buf = buf
BY DEF Request, Requests, Prepared, Owned, Clients

LEMMA AddedSend ==
  ASSUME NEW r, NEW cls, NEW f2s, RingInv(r, cls, f2s), NEW c \in Slots,
         NEW op \in {"EGRESS", "SEND_RESP"},
         NEW cl \in Clients, cl.fd \in Fds, NEW r2, r2 = Prepare(r, Request(op, c, cl, NoBuf))
  PROVE  RingInv(r2, cls, f2s) /\ AcceptsOf(r2) = AcceptsOf(r)
<1>1. RingOK(r) /\ RecvsOK(r, cls) /\ ClosesOK(r, cls) /\ FdsOK(r, f2s)
  BY DEF RingInv
<1> DEFINE e == Request(op, c, cl, NoBuf)
<1>2. e \in Requests /\ Prepared(e) /\ e.op \in {"EGRESS", "SEND_RESP"}
  BY RequestType
<1> HIDE DEF e
<1>3. Added(r, e, r2)
  BY <1>1, <1>2, PrepareAdds DEF e
<1>4. \A d : ~Is(e, "RECV", d) /\ ~Is(e, "CLOSE", d)
  BY <1>2 DEF Is
<1>5. RecvsOK(r2, cls) /\ ClosesOK(r2, cls)
  BY <1>1, <1>2, <1>3, <1>4 DEF RecvsOK, ClosesOK, Added
<1>6. FdsOK(r2, f2s)
  BY <1>1, <1>3 DEF FdsOK, FdOK, Added, Accepted, Closed
<1>7. AcceptsOf(r2) = AcceptsOf(r)
  <2>1. AcceptsOf(r) \in Nat
    BY <1>1, RingParts, AcceptsParts DEF AcceptsOf
  <2> QED
    BY <1>2, <1>3, <2>1 DEF Added
<1> QED
  BY <1>3, <1>5, <1>6, <1>7 DEF RingInv, Added

(* A receive, and the flag that says so.                                       *)
LEMMA AddedRecv ==
  ASSUME NEW r, NEW cls, NEW cls2, NEW f2s, RingInv(r, cls, f2s), NEW c \in Slots,
         cls[c] \in Clients, cls[c].fd \in Fds, ~cls[c].recv_pending,
         Only(cls, cls2, c), SameConnection(cls[c], cls2[c]),
         cls2[c].recv_pending, cls2[c].recv_buf_idx = cls[c].recv_buf_idx,
         NEW r2, r2 = Prepare(r, RecvSqe(c, cls[c]))
  PROVE  RingInv(r2, cls2, f2s) /\ AcceptsOf(r2) = AcceptsOf(r)
<1>1. RingOK(r) /\ RecvsOK(r, cls) /\ ClosesOK(r, cls) /\ MapOK(cls, f2s) /\ FdsOK(r, f2s)
  BY DEF RingInv
<1> DEFINE e == RecvSqe(c, cls[c])
<1>2. /\ e \in Requests /\ Prepared(e) /\ e.op = "RECV" /\ e.slot = c
      /\ OwnRecv(e, cls2[c])
  <2>1. cls[c].recv_buf_idx \in Bufs \cup {NoBuf}
    BY DEF Clients
  <2> QED
    BY <2>1, RequestType DEF RecvSqe, OwnRecv, SameConnection
<1> HIDE DEF e
<1>3. Added(r, e, r2)
  BY <1>1, <1>2, PrepareAdds DEF e
<1>4. \A op, d : Is(e, op, d) <=> op = "RECV" /\ d = c
  BY <1>2 DEF Is
<1>5. ~Has(r, "RECV", c)
  BY <1>1 DEF RecvsOK
<1>6. \A x : Holds(r, x) => Owned(x)
  BY <1>1 DEF RingOK, Holds, Prepared, Answered
<1>7. RecvsOK(r2, cls2)
  <2>1. \A d \in Slots : One(r2, "RECV", d) /\ (cls2[d].recv_pending <=> Has(r2, "RECV", d))
    <3>1. \A d \in Slots : One(r2, "RECV", d)
      BY <1>1, <1>3, <1>4, <1>5 DEF RecvsOK, Added
    <3>2. Has(r2, "RECV", c)
      BY <1>3, <1>4 DEF Added
    <3>3. ASSUME NEW d \in Slots, d # c
          PROVE  cls2[d].recv_pending <=> Has(r2, "RECV", d)
      BY <1>1, <1>3, <1>4, <3>3 DEF RecvsOK, Added, Only
    <3> QED
      BY <3>1, <3>2, <3>3
  <2>2. ASSUME NEW x, Holds(r2, x), x.op = "RECV"
        PROVE  OwnRecv(x, cls2[x.slot])
    <3>1. CASE x = e
      BY <1>2, <3>1
    <3>2. CASE Holds(r, x)
      <4>1. OwnRecv(x, cls[x.slot]) /\ x.slot \in Slots
        BY <1>1, <1>6, <2>2, <3>2 DEF RecvsOK, Owned
      <4>2. x.slot # c
        <5>1. Has(r, "RECV", x.slot)
          BY <2>2, <3>2 DEF Holds, Has, SqHas, CqHas, HeldHas, Is
        <5> QED
          BY <1>5, <5>1
      <4> QED
        BY <4>1, <4>2 DEF Only
    <3> QED
      BY <1>3, <2>2, <3>1, <3>2 DEF Added
  <2> QED
    BY <2>1, <2>2 DEF RecvsOK
<1>8. ClosesOK(r2, cls2)
  <2>1. \A d \in Slots : One(r2, "CLOSE", d)
    BY <1>1, <1>3, <1>4 DEF ClosesOK, Added
  <2>2. ASSUME NEW x, Holds(r2, x), x.op = "CLOSE"
        PROVE  OwnClose(x, cls2[x.slot])
    <3>1. Holds(r, x)
      BY <1>2, <1>3, <2>2 DEF Added
    <3>2. OwnClose(x, cls[x.slot]) /\ x.slot \in Slots
      BY <1>1, <1>6, <2>2, <3>1 DEF ClosesOK, Owned
    <3> QED
      BY <3>2 DEF Only, OwnClose, SameConnection
  <2> QED
    BY <2>1, <2>2 DEF ClosesOK
<1>9. MapOK(cls2, f2s)
  BY <1>1 DEF MapOK, Only, SameConnection
<1>10. FdsOK(r2, f2s)
  BY <1>1, <1>3 DEF FdsOK, FdOK, Added, Accepted, Closed
<1>11. AcceptsOf(r2) = AcceptsOf(r)
  <2>1. AcceptsOf(r) \in Nat
    BY <1>1, RingParts, AcceptsParts DEF AcceptsOf
  <2> QED
    BY <1>2, <1>3, <2>1 DEF Added
<1> QED
  BY <1>3, <1>7, <1>8, <1>9, <1>10, <1>11 DEF RingInv, Added

(* A close, and the state that goes with it.                                   *)
LEMMA AddedClose ==
  ASSUME NEW r, NEW cls, NEW cls2, NEW f2s, RingInv(r, cls, f2s), NEW c \in Slots,
         NEW cl \in Clients, cl.fd \in Fds, cl.fd = cls[c].fd,
         cl.generation = cls[c].generation, cls[c].state # "CLOSING",
         Only(cls, cls2, c), SameConnection(cls[c], cls2[c]), cls2[c].state = "CLOSING",
         cls2[c].recv_pending <=> cls[c].recv_pending,
         cls2[c].recv_buf_idx = cls[c].recv_buf_idx \/ ~cls[c].recv_pending,
         NEW r2, r2 = Prepare(r, CloseSqe(c, cl))
  PROVE  RingInv(r2, cls2, f2s) /\ AcceptsOf(r2) = AcceptsOf(r)
<1> DEFINE e == CloseSqe(c, cl)
<1>1. RingInv(r, cls2, f2s) /\ RingOK(r) /\ ClosesOK(r, cls)
  BY ClientKeeps DEF RingInv
<1>2. /\ e \in Requests /\ Prepared(e) /\ e.op = "CLOSE" /\ e.slot = c
      /\ OwnClose(e, cls2[c])
  BY RequestType DEF CloseSqe, OwnClose, SameConnection
<1> HIDE DEF e
<1>3. Added(r, e, r2)
  BY <1>1, <1>2, PrepareAdds DEF e
<1>4. \A op, d : Is(e, op, d) <=> op = "CLOSE" /\ d = c
  BY <1>2 DEF Is
<1>5. ~Has(r, "CLOSE", c)
  <2>1. \A x : Holds(r, x) /\ x.op = "CLOSE" => x.slot # c
    BY <1>1 DEF ClosesOK, OwnClose
  <2> QED
    BY <2>1 DEF Has, SqHas, CqHas, HeldHas, Holds, Is
<1>6. RecvsOK(r2, cls2)
  BY <1>1, <1>2, <1>3, <1>4 DEF RingInv, RecvsOK, Added
<1>7. ClosesOK(r2, cls2)
  BY <1>1, <1>2, <1>3, <1>4, <1>5 DEF RingInv, ClosesOK, Added
<1>8. FdsOK(r2, f2s)
  BY <1>1, <1>3 DEF RingInv, FdsOK, FdOK, Added, Accepted, Closed
<1>9. AcceptsOf(r2) = AcceptsOf(r)
  <2>1. AcceptsOf(r) \in Nat
    BY <1>1, RingParts, AcceptsParts DEF AcceptsOf
  <2> QED
    BY <1>2, <1>3, <2>1 DEF Added
<1> QED
  BY <1>1, <1>3, <1>6, <1>7, <1>8, <1>9 DEF RingInv, Added

-------------------------------------------------------------------------------
(* Submitting.                                                                 *)

AcceptSubmitted(r, n, r2, n2) ==
  \E room \in MakeRoom(r) : IF SqFull(room) THEN r2 = room /\ n2 = n
                            ELSE r2 = Prepare(room, AcceptSqe) /\ n2 = n + 1

LEMMA AcceptSubmission ==
  ASSUME ~Reorder, NEW r, NEW cls, NEW f2s, RingInv(r, cls, f2s), NEW n, n = AcceptsOf(r),
         NEW r2, NEW n2, AcceptSubmitted(r, n, r2, n2)
  PROVE  RingInv(r2, cls, f2s) /\ n2 = AcceptsOf(r2) /\ n2 \in Nat
<1>1. PICK room \in MakeRoom(r) : IF SqFull(room) THEN r2 = room /\ n2 = n
                                  ELSE r2 = Prepare(room, AcceptSqe) /\ n2 = n + 1
  BY DEF AcceptSubmitted
<1>2. RingInv(room, cls, f2s) /\ AcceptsOf(room) = n
  BY RoomKeeps
<1>3. RingInv(r2, cls, f2s) /\ n2 = AcceptsOf(r2)
  BY <1>1, <1>2, AddedAccept
<1>4. AcceptsOf(r2) \in Nat
  BY SMTT(20), <1>3, RingParts, AcceptsParts DEF AcceptsOf, RingInv
<1> QED
  BY <1>3, <1>4

LEMMA CloseSubmission ==
  ASSUME ~Reorder, NEW r, NEW cls, NEW cls2, NEW f2s, RingInv(r, cls, f2s), NEW c \in Slots,
         NEW cl \in Clients, cl.fd \in Fds, cl.fd = cls[c].fd,
         cl.generation = cls[c].generation, cls[c].state # "CLOSING",
         Only(cls, cls2, c), SameConnection(cls[c], cls2[c]), cls2[c].state = "CLOSING",
         cls2[c].recv_pending <=> cls[c].recv_pending,
         cls2[c].recv_buf_idx = cls[c].recv_buf_idx \/ ~cls[c].recv_pending,
         NEW r2 \in Submitted(r, CloseSqe(c, cl))
  PROVE  RingInv(r2, cls2, f2s) /\ AcceptsOf(r2) = AcceptsOf(r)
<1>1. PICK room \in MakeRoom(r) : r2 = IF SqFull(room) THEN room ELSE Prepare(room, CloseSqe(c, cl))
  BY DEF Submitted
<1>2. RingInv(room, cls, f2s) /\ AcceptsOf(room) = AcceptsOf(r)
  BY RoomKeeps
<1>3. RingInv(room, cls2, f2s)
  BY <1>2, ClientKeeps
<1>4. RingInv(Prepare(room, CloseSqe(c, cl)), cls2, f2s)
      /\ AcceptsOf(Prepare(room, CloseSqe(c, cl))) = AcceptsOf(room)
  BY <1>2, AddedClose
<1> QED
  BY <1>1, <1>2, <1>3, <1>4

(* What submit_recv_internal makes of a connection. *)
RecvOutcome(cl, s) ==
  /\ s.client \in Clients
  /\ s.client.generation = cl.generation /\ s.client.fd = cl.fd
  /\ s.client.recv_buf_idx = cl.recv_buf_idx
  /\ s.client.orphaned_recv_buf_idx = cl.orphaned_recv_buf_idx
  /\ \/ s.sq_full /\ s.client.state = "ACTIVE" /\ ~s.client.recv_pending
     \/ ~s.sq_full /\ s.client.state = "CLOSING" /\ ~s.client.recv_pending
     \/ ~s.sq_full /\ s.client.state = "ACTIVE" /\ s.client.recv_pending

LEMMA RecvSubmission ==
  ASSUME ~Reorder, NEW r, NEW cls, NEW cls2, NEW f2s, RingInv(r, cls, f2s), NEW c \in Slots,
         NEW cl, cl = cls[c], cl \in Clients, cl.fd \in Fds, cl.state = "ACTIVE", ~cl.recv_pending,
         NEW s \in RecvSubmissions(r, c, cl), Only(cls, cls2, c), cls2[c] = s.client
  PROVE  /\ RingInv(s.ring, cls2, f2s)
         /\ AcceptsOf(s.ring) = AcceptsOf(r)
         /\ RecvOutcome(cl, s)
<1>1. PICK room \in MakeRoom(r) :
        s = IF SqFull(room) THEN [ring |-> room, client |-> cl, sq_full |-> TRUE]
            ELSE IF cl.full
            THEN [ring |-> Prepare(room, CloseSqe(c, cl)),
                  client |-> [cl EXCEPT !.state = "CLOSING"], sq_full |-> FALSE]
            ELSE [ring |-> Prepare(room, RecvSqe(c, cl)),
                  client |-> [cl EXCEPT !.recv_pending = TRUE], sq_full |-> FALSE]
  BY DEF RecvSubmissions
<1>2. RingInv(room, cls, f2s) /\ AcceptsOf(room) = AcceptsOf(r)
  BY RoomKeeps
<1>3. RecvOutcome(cl, s) /\ SameConnection(cl, s.client)
  BY <1>1 DEF Clients, RecvOutcome, SameConnection, IsConnected
<1>4. SameConnection(cls[c], cls2[c])
  BY <1>3
<1>5. CASE SqFull(room)
  <2>1. s.ring = room /\ s.client = cl
    BY <1>1, <1>5
  <2>2. RingInv(room, cls2, f2s)
    BY <1>2, <1>4, <2>1, ClientKeeps
  <2> QED
    BY <1>2, <1>3, <2>1, <2>2
<1>6. CASE ~SqFull(room) /\ cl.full
  <2>1. /\ s.ring = Prepare(room, CloseSqe(c, cl)) /\ s.client.state = "CLOSING"
        /\ s.client.recv_pending = cl.recv_pending /\ s.client.recv_buf_idx = cl.recv_buf_idx
    BY <1>1, <1>6 DEF Clients
  <2>2. cls[c].state # "CLOSING"
    OBVIOUS
  <2>3. RingInv(s.ring, cls2, f2s) /\ AcceptsOf(s.ring) = AcceptsOf(room)
    BY <1>2, <1>4, <2>1, <2>2, AddedClose
  <2> QED
    BY <1>2, <1>3, <2>3
<1>7. CASE ~SqFull(room) /\ ~cl.full
  <2>1. /\ s.ring = Prepare(room, RecvSqe(c, cl)) /\ s.client.recv_pending
        /\ s.client.recv_buf_idx = cl.recv_buf_idx
    BY <1>1, <1>7 DEF Clients
  <2>2. RingInv(s.ring, cls2, f2s) /\ AcceptsOf(s.ring) = AcceptsOf(room)
    BY <1>2, <1>4, <2>1, AddedRecv
  <2> QED
    BY <1>2, <1>3, <2>2
<1> QED
  BY <1>5, <1>6, <1>7

-------------------------------------------------------------------------------
(* A CQE is consumed.                                                          *)

Removed(r, r2) ==
  /\ RingOK(r2) /\ r2.open = r.open
  /\ 1 \in DOMAIN r.cq /\ r.cq[1] = Head(r.cq)
  /\ Head(r.cq) \in Requests /\ Answered(Head(r.cq)) /\ Holds(r, Head(r.cq))
  /\ \A i \in DOMAIN r2.cq : i + 1 \in DOMAIN r.cq /\ r2.cq[i] = r.cq[i + 1] /\ i \in Nat \ {0}
  /\ \A i \in DOMAIN r.cq : i # 1 => i - 1 \in DOMAIN r2.cq /\ r2.cq[i - 1] = r.cq[i] /\ i \in Nat
  /\ \A x : Holds(r2, x) => Holds(r, x)
  /\ \A op, c : /\ Is(Head(r.cq), op, c) => Has(r, op, c)
                /\ One(r, op, c) => One(r2, op, c)
                /\ ~Is(Head(r.cq), op, c) => (Has(r2, op, c) <=> Has(r, op, c))
                /\ One(r, op, c) /\ Is(Head(r.cq), op, c) => ~Has(r2, op, c)
  /\ AcceptsOf(r2) = AcceptsOf(r) - (IF Head(r.cq).op = "ACCEPT" THEN 1 ELSE 0)

LEMMA AcceptsTail ==
  ASSUME NEW q \in Seq(Requests), q # << >>
  PROVE  Accepts(q) = Accepts(Tail(q)) + (IF Head(q).op = "ACCEPT" THEN 1 ELSE 0)
<1>1. 1 \in 0 .. Len(q) /\ Tail(q) = SubSeq(q, 1 + 1, Len(q)) /\ Head(q) = q[1]
  <2>1. Len(q) \in Nat /\ Len(q) # 0 /\ Head(q) = q[1]
    BY AtFront
  <2>2. Tail(q) = SubSeq(q, 2, Len(q)) /\ 1 + 1 = 2
    BY TailIsSubSeq
  <2> QED
    BY <2>1, <2>2
<1>2. Accepts(q) = Cardinality({i \in 1 .. 1 : q[i].op = "ACCEPT"}) + Accepts(Tail(q))
  BY <1>1, AcceptsSplit
<1>3. {i \in 1 .. 1 : q[i].op = "ACCEPT"} = IF Head(q).op = "ACCEPT" THEN {1} ELSE {}
  BY <1>1
<1>4. Cardinality({1}) = 1 /\ Cardinality({}) = 0
  BY FS_Singleton, FS_EmptySet
<1>5. Accepts(Tail(q)) \in Nat
  BY AtFront, AcceptsParts
<1>6. CASE Head(q).op = "ACCEPT"
  <2>1. {i \in 1 .. 1 : q[i].op = "ACCEPT"} = {1}
    BY <1>3, <1>6
  <2>2. Accepts(q) = 1 + Accepts(Tail(q))
    BY <1>2, <1>4, <2>1
  <2> QED
    BY <1>5, <1>6, <2>2
<1>7. CASE Head(q).op # "ACCEPT"
  <2>1. {i \in 1 .. 1 : q[i].op = "ACCEPT"} = {}
    BY <1>3, <1>7
  <2>2. Accepts(q) = 0 + Accepts(Tail(q))
    BY <1>2, <1>4, <2>1
  <2> QED
    BY <1>5, <1>7, <2>2
<1> QED
  BY <1>6, <1>7

LEMMA AdvanceRemoves ==
  ASSUME NEW r, RingOK(r), r.seen > 0, NEW r2, r2 = CqAdvance(r)
  PROVE  Removed(r, r2)
<1> DEFINE M == Len(r.cq)
           e == Head(r.cq)
<1>1. /\ r.cq \in Seq(Requests) /\ r.sq \in Seq(Requests)
      /\ M \in Nat /\ DOMAIN r.cq = 1 .. M /\ r.seen \in Nat /\ r.seen <= M
      /\ \A i \in DOMAIN r.cq : Answered(r.cq[i])
      /\ r.accepts \in Nat
  BY RingParts DEF RingOK
<1>2. r.cq # << >>
  BY <1>1, EmptySeq
<1>3. /\ r2.sq = r.sq /\ r2.cq = Tail(r.cq) /\ r2.pending = r.pending
      /\ r2.accepts = r.accepts /\ r2.open = r.open /\ r2.seen = r.seen - 1
      /\ r2.visible = r.visible
      /\ r2 = [sq |-> r2.sq, visible |-> r2.visible, cq |-> r2.cq, seen |-> r2.seen,
               pending |-> r2.pending, accepts |-> r2.accepts, open |-> r2.open]
  BY DEF RingOK, Rings, CqAdvance
<1>4. /\ r2.cq \in Seq(Requests) /\ M # 0 /\ Len(r2.cq) = M - 1 /\ DOMAIN r2.cq = 1 .. M - 1
      /\ \A i \in 1 .. M - 1 : r2.cq[i] = r.cq[i + 1]
      /\ e = r.cq[1] /\ e \in Requests
  BY <1>1, <1>2, <1>3, AtFront
<1> HIDE DEF M, e
<1>5. /\ \A i \in DOMAIN r2.cq : i + 1 \in DOMAIN r.cq /\ r2.cq[i] = r.cq[i + 1] /\ i \in Nat \ {0}
      /\ 1 \in DOMAIN r.cq /\ r.cq[1] = e
  <2>1. \A i \in 1 .. M - 1 : i + 1 \in 1 .. M /\ i \in Nat \ {0}
    BY <1>1
  <2> QED
    BY SMTT(20), <1>1, <1>4, <2>1
<1>6. \A i \in DOMAIN r.cq : i # 1 => i - 1 \in DOMAIN r2.cq /\ r2.cq[i - 1] = r.cq[i] /\ i \in Nat
  <2>1. \A i \in 1 .. M : i # 1 => i - 1 \in 1 .. M - 1 /\ (i - 1) + 1 = i /\ i \in Nat
    BY <1>1
  <2> QED
    BY <1>1, <1>4, <2>1
<1>7. RingOK(r2)
  <2>1. r2.seen \in Nat /\ r2.seen <= Len(r2.cq)
    BY <1>1, <1>3, <1>4
  <2>2. r2 \in Rings
    BY <1>3, <1>4, <2>1 DEF RingOK, Rings
  <2> QED
    BY <1>1, <1>3, <1>5, <2>1, <2>2 DEF RingOK
<1>8. \A x : Holds(r2, x) => Holds(r, x)
  BY <1>3, <1>5 DEF Holds
<1>9. \A op, c : (SqHas(r2, op, c) <=> SqHas(r, op, c)) /\ (HeldHas(r2, op, c) <=> HeldHas(r, op, c))
  BY <1>3 DEF SqHas, HeldHas
<1>10. \A op, c : CqHas(r, op, c) <=> CqHas(r2, op, c) \/ Is(e, op, c)
  BY <1>5, <1>6 DEF CqHas
<1>11. ASSUME NEW op, NEW c, One(r, op, c)
       PROVE  One(r2, op, c) /\ (Is(e, op, c) => ~Has(r2, op, c))
  <2>1. \A i, j \in DOMAIN r2.cq : Is(r2.cq[i], op, c) /\ Is(r2.cq[j], op, c) => i = j
    <3>1. ASSUME NEW i \in DOMAIN r2.cq, NEW j \in DOMAIN r2.cq,
                 Is(r2.cq[i], op, c), Is(r2.cq[j], op, c)
          PROVE  i + 1 = j + 1 /\ i \in Nat /\ j \in Nat
      BY <1>5, <1>11, <3>1 DEF One
    <3> QED
      BY <3>1
  <2>2. One(r2, op, c)
    BY <1>3, <1>9, <1>10, <1>11, <2>1 DEF One
  <2>3. ASSUME Is(e, op, c), CqHas(r2, op, c) PROVE FALSE
    <3>1. PICK i \in DOMAIN r2.cq : Is(r2.cq[i], op, c)
      BY <2>3 DEF CqHas
    <3>2. i + 1 = 1 /\ i \in Nat \ {0}
      BY <1>5, <1>11, <2>3, <3>1 DEF One
    <3> QED
      BY <3>2
  <2> QED
    BY <1>9, <1>10, <1>11, <2>2, <2>3 DEF One, Has
<1>12. AcceptsOf(r2) = AcceptsOf(r) - (IF e.op = "ACCEPT" THEN 1 ELSE 0)
  <2>1. Accepts(r.cq) = Accepts(r2.cq) + (IF e.op = "ACCEPT" THEN 1 ELSE 0)
    BY <1>1, <1>2, <1>3, AcceptsTail DEF e
  <2>2. Accepts(r.sq) \in Nat /\ Accepts(r2.cq) \in Nat
    BY <1>1, <1>4, AcceptsParts
  <2> QED
    BY <1>1, <1>3, <2>1, <2>2 DEF AcceptsOf
<1>13. Holds(r, e) /\ Answered(e)
  BY <1>1, <1>5 DEF Holds
<1> QED
  BY <1>3, <1>4, <1>5, <1>6, <1>7, <1>8, <1>9, <1>10, <1>11, <1>12, <1>13 DEF Removed, Has, e

(* An fd the completion is not about, and that stays as it is.                 *)
LEMMA RemovedFd ==
  ASSUME NEW r, NEW f2s, NEW r2, Removed(r, r2), NEW f, FdOK(r, f2s, f),
         ~Accepted(r, 1, f), ~Closed(r, 1, f),
         NEW r3, r3.cq = r2.cq, f \in r3.open <=> f \in r.open, NEW g2s, g2s[f] = f2s[f]
  PROVE  FdOK(r3, g2s, f)
<1>3. \A i \in DOMAIN r3.cq :
        /\ i \in Nat \ {0} /\ i + 1 \in DOMAIN r.cq
        /\ Accepted(r3, i, f) <=> Accepted(r, i + 1, f)
        /\ Closed(r3, i, f) <=> Closed(r, i + 1, f)
  BY DEF Removed, Accepted, Closed
<1>4. \A i \in DOMAIN r.cq : i # 1 =>
        /\ i \in Nat /\ i - 1 \in DOMAIN r3.cq
        /\ Accepted(r3, i - 1, f) <=> Accepted(r, i, f)
        /\ Closed(r3, i - 1, f) <=> Closed(r, i, f)
  BY DEF Removed, Accepted, Closed
<1>5. \A i, j \in DOMAIN r3.cq : Accepted(r3, i, f) /\ Accepted(r3, j, f) => i = j
  <2>1. ASSUME NEW i \in DOMAIN r3.cq, NEW j \in DOMAIN r3.cq, Accepted(r3, i, f), Accepted(r3, j, f)
        PROVE  i + 1 = j + 1 /\ i \in Nat /\ j \in Nat
    BY <1>3, <2>1 DEF FdOK
  <2> QED
    BY <2>1
<1>6. ASSUME NEW i \in DOMAIN r3.cq, Accepted(r3, i, f), g2s[f] # NoSlot
      PROVE  \E j \in DOMAIN r3.cq : j < i /\ Closed(r3, j, f)
  <2>1. PICK j \in DOMAIN r.cq : j < i + 1 /\ Closed(r, j, f)
    BY <1>3, <1>6 DEF FdOK
  <2>2. j # 1
    BY <2>1
  <2>3. j - 1 \in DOMAIN r3.cq /\ Closed(r3, j - 1, f) /\ j \in Nat /\ i \in Nat
    BY <1>3, <1>4, <2>1, <2>2
  <2>4. j - 1 < i
    BY <2>1, <2>3
  <2> QED
    BY <2>3, <2>4
<1>7. /\ (\E i \in DOMAIN r3.cq : Accepted(r3, i, f)) <=> \E i \in DOMAIN r.cq : Accepted(r, i, f)
      /\ (\E i \in DOMAIN r3.cq : Closed(r3, i, f)) <=> \E i \in DOMAIN r.cq : Closed(r, i, f)
  BY <1>3, <1>4
<1> QED
  BY <1>5, <1>6, <1>7 DEF FdOK

(* A completion that is neither an accept nor a close.                         *)
LEMMA RemovedOther ==
  ASSUME NEW r, NEW f2s, FdsOK(r, f2s), NEW r2, Removed(r, r2),
         Head(r.cq).op # "CLOSE", Head(r.cq).op = "ACCEPT" => Head(r.cq).res = "error"
  PROVE  FdsOK(r2, f2s)
<1>1. \A f : ~Accepted(r, 1, f) /\ ~Closed(r, 1, f)
  BY DEF Removed, Accepted, Closed
<1>2. \A f : f \in r2.open <=> f \in r.open
  BY DEF Removed
<1> QED
  BY <1>1, <1>2, RemovedFd DEF FdsOK

(* The closes in the CQ are of fds that are mapped, each of one.               *)
LEMMA ClosedMapped ==
  ASSUME NEW r, NEW cls, NEW f2s, RingInv(r, cls, f2s), NEW f \in Fds,
         NEW i \in DOMAIN r.cq, Closed(r, i, f)
  PROVE  /\ f2s[f] # NoSlot /\ f2s[f] = r.cq[i].slot /\ f2s[f] \in Slots
         /\ OwnClose(r.cq[i], cls[f2s[f]])
         /\ \A j \in DOMAIN r.cq : Closed(r, j, f) => j = i
<1>1. RingOK(r) /\ ClosesOK(r, cls) /\ MapOK(cls, f2s)
  BY DEF RingInv
<1>2. ASSUME NEW j \in DOMAIN r.cq, Closed(r, j, f)
      PROVE  /\ f2s[f] = r.cq[j].slot /\ r.cq[j].slot \in Slots
             /\ OwnClose(r.cq[j], cls[r.cq[j].slot])
  <2>1. r.cq[j].slot \in Slots /\ OwnClose(r.cq[j], cls[r.cq[j].slot])
    BY <1>1, <1>2 DEF RingOK, ClosesOK, Holds, Answered, Owned, Closed
  <2> QED
    BY <1>1, <1>2, <2>1 DEF MapOK, OwnClose, IsConnected, Closed
<1>3. f2s[f] = r.cq[i].slot /\ f2s[f] \in Slots /\ OwnClose(r.cq[i], cls[f2s[f]])
  BY <1>2
<1>4. ASSUME NEW j \in DOMAIN r.cq, Closed(r, j, f)
      PROVE  j = i
  <2>1. r.cq[j].slot = r.cq[i].slot /\ r.cq[i].slot \in Slots
    BY <1>2, <1>3, <1>4
  <2> QED
    BY <1>1, <1>4, <2>1 DEF ClosesOK, One, Is, Closed
<1> QED
  BY <1>3, <1>4, SlotBufAssumption

(* An accept: the fd was not mapped, and only the accept accounted for it.     *)
LEMMA AcceptedUnmapped ==
  ASSUME NEW r, NEW cls, NEW f2s, RingInv(r, cls, f2s), NEW f \in Fds,
         1 \in DOMAIN r.cq, DOMAIN r.cq \subseteq Nat \ {0}, Accepted(r, 1, f)
  PROVE  /\ f2s[f] = NoSlot
         /\ \A i \in DOMAIN r.cq : ~Closed(r, i, f) /\ (Accepted(r, i, f) => i = 1)
<1>1. FdOK(r, f2s, f)
  BY DEF RingInv, FdsOK
<1>2. f2s[f] = NoSlot
  BY <1>1 DEF FdOK
<1> QED
  BY <1>1, <1>2, ClosedMapped DEF FdOK

LEMMA SendDispatched ==
  ASSUME NEW r, NEW cls, NEW f2s, RingInv(r, cls, f2s), r.seen > 0, NEW r2, r2 = CqAdvance(r),
         Head(r.cq).op \in {"EGRESS", "SEND_RESP"}
  PROVE  RingInv(r2, cls, f2s) /\ AcceptsOf(r2) = AcceptsOf(r) /\ Owned(Head(r.cq))
<1>1. RingOK(r) /\ RecvsOK(r, cls) /\ ClosesOK(r, cls) /\ MapOK(cls, f2s) /\ FdsOK(r, f2s)
  BY DEF RingInv
<1>2. Removed(r, r2)
  BY <1>1, AdvanceRemoves
<1>3. FdsOK(r2, f2s)
  BY <1>1, <1>2, RemovedOther
<1>4. \A c : ~Is(Head(r.cq), "RECV", c) /\ ~Is(Head(r.cq), "CLOSE", c)
  BY DEF Is
<1>5. RecvsOK(r2, cls) /\ ClosesOK(r2, cls)
  BY <1>1, <1>2, <1>4 DEF RecvsOK, ClosesOK, Removed
<1>6. AcceptsOf(r) \in Nat
  BY <1>1, RingParts, AcceptsParts DEF AcceptsOf
<1>7. AcceptsOf(r2) = AcceptsOf(r) /\ Owned(Head(r.cq)) /\ RingOK(r2)
  BY <1>2, <1>6 DEF Removed, Answered
<1> QED
  BY <1>1, <1>3, <1>5, <1>7 DEF RingInv

(* A receive was dispatched: what is known of its slot, which no longer receives. *)
RecvSettled(r, cls, f2s, r2, c) ==
  /\ c \in Slots /\ OwnRecv(Head(r.cq), cls[c]) /\ cls[c].recv_pending
  /\ cls[c].fd \in Fds
  /\ \A cls2 : Only(cls, cls2, c) /\ SameConnection(cls[c], cls2[c]) /\ ~cls2[c].recv_pending
                 => RingInv(r2, cls2, f2s)
  /\ AcceptsOf(r2) = AcceptsOf(r)

LEMMA RecvDispatched ==
  ASSUME NEW r, NEW cls, NEW f2s, RingInv(r, cls, f2s), r.seen > 0, NEW r2, r2 = CqAdvance(r),
         Head(r.cq).op = "RECV", NEW c, c = Head(r.cq).slot
  PROVE  RecvSettled(r, cls, f2s, r2, c)
<1> DEFINE e == Head(r.cq)
<1>1. RingOK(r) /\ RecvsOK(r, cls) /\ ClosesOK(r, cls) /\ MapOK(cls, f2s) /\ FdsOK(r, f2s)
  BY DEF RingInv
<1>2. Removed(r, r2)
  BY <1>1, AdvanceRemoves
<1>3. FdsOK(r2, f2s)
  BY <1>1, <1>2, RemovedOther
<1>4. \A d : (Is(e, "RECV", d) <=> d = c) /\ ~Is(e, "CLOSE", d)
  BY DEF Is
<1>5. c \in Slots /\ Holds(r, e) /\ OwnRecv(e, cls[c]) /\ e.fd \in Fds
  BY <1>1, <1>2 DEF Removed, Answered, Owned, RecvsOK
<1>6. Has(r, "RECV", c) /\ ~Has(r2, "RECV", c) /\ cls[c].recv_pending
  BY <1>1, <1>2, <1>4, <1>5 DEF Removed, RecvsOK
<1>7. AcceptsOf(r) \in Nat
  BY <1>1, RingParts, AcceptsParts DEF AcceptsOf
<1>8. AcceptsOf(r2) = AcceptsOf(r) /\ RingOK(r2)
  BY <1>2, <1>7 DEF Removed
<1>9. \A x : Holds(r2, x) => Owned(x) /\ Holds(r, x)
  BY ZenonT(40), <1>2 DEF Removed, RingOK, Holds, Prepared, Answered
<1>10. ASSUME NEW cls2, Only(cls, cls2, c), SameConnection(cls[c], cls2[c]), ~cls2[c].recv_pending
       PROVE  RingInv(r2, cls2, f2s)
  <2>1. \A d \in Slots : One(r2, "RECV", d) /\ (cls2[d].recv_pending <=> Has(r2, "RECV", d))
    <3>1. \A d \in Slots : One(r2, "RECV", d)
      BY <1>1, <1>2 DEF RecvsOK, Removed
    <3>2. ASSUME NEW d \in Slots, d # c
          PROVE  cls2[d].recv_pending <=> Has(r2, "RECV", d)
      BY <1>1, <1>2, <1>4, <1>10, <3>2 DEF RecvsOK, Removed, Only
    <3> QED
      BY <1>6, <1>10, <3>1, <3>2
  <2>2. ASSUME NEW x, Holds(r2, x), x.op = "RECV"
        PROVE  OwnRecv(x, cls2[x.slot])
    <3>1. Has(r2, "RECV", x.slot)
      BY <2>2 DEF Holds, Has, SqHas, CqHas, HeldHas, Is
    <3>2. x.slot # c /\ x.slot \in Slots /\ OwnRecv(x, cls[x.slot])
      BY <1>1, <1>6, <1>9, <2>2, <3>1 DEF RecvsOK, Owned
    <3> QED
      BY <1>10, <3>2 DEF Only
  <2>3. RecvsOK(r2, cls2)
    BY <2>1, <2>2 DEF RecvsOK
  <2>4. ASSUME NEW x, Holds(r2, x), x.op = "CLOSE"
        PROVE  OwnClose(x, cls2[x.slot])
    <3>1. x.slot \in Slots /\ OwnClose(x, cls[x.slot])
      BY <1>1, <1>9, <2>4 DEF ClosesOK, Owned
    <3> QED
      BY <1>10, <3>1 DEF Only, SameConnection, OwnClose
  <2>5. ClosesOK(r2, cls2)
    BY <1>1, <1>2, <2>4 DEF ClosesOK, Removed
  <2>6. MapOK(cls2, f2s)
    BY <1>1, <1>10 DEF MapOK, Only, SameConnection
  <2> QED
    BY <1>3, <1>8, <2>3, <2>5, <2>6 DEF RingInv
<1>11. cls[c].fd \in Fds
  BY <1>5 DEF OwnRecv
<1> QED
  BY <1>5, <1>6, <1>8, <1>10, <1>11 DEF RecvSettled

LEMMA AcceptDispatched ==
  ASSUME NEW r, NEW cls, NEW f2s, RingInv(r, cls, f2s), r.seen > 0, NEW r2, r2 = CqAdvance(r),
         Head(r.cq).op = "ACCEPT"
  PROVE  /\ Head(r.cq).res = "ok" => Head(r.cq).fd \in Fds /\ f2s[Head(r.cq).fd] = NoSlot
         /\ RecvsOK(r2, cls) /\ ClosesOK(r2, cls) /\ RingOK(r2)
         /\ AcceptsOf(r2) = AcceptsOf(r) - 1 /\ AcceptsOf(r2) \in Nat
         /\ \A x : Holds(r2, x) => Owned(x)
         /\ Removed(r, r2)
<1>1. RingOK(r) /\ RecvsOK(r, cls) /\ ClosesOK(r, cls) /\ FdsOK(r, f2s)
  BY DEF RingInv
<1>2. Removed(r, r2)
  BY <1>1, AdvanceRemoves
<1>3. \A c : ~Is(Head(r.cq), "RECV", c) /\ ~Is(Head(r.cq), "CLOSE", c)
  BY DEF Is
<1>4. RecvsOK(r2, cls) /\ ClosesOK(r2, cls) /\ RingOK(r2)
  BY <1>1, <1>2, <1>3 DEF RecvsOK, ClosesOK, Removed
<1>5. AcceptsOf(r2) = AcceptsOf(r) - 1
  BY <1>2 DEF Removed
<1>6. AcceptsOf(r2) \in Nat
  BY <1>4, RingParts, AcceptsParts DEF AcceptsOf
<1>7. \A x : Holds(r2, x) => Owned(x)
  BY <1>4 DEF RingOK, Holds, Prepared, Answered
<1>8. ASSUME Head(r.cq).res = "ok"
      PROVE  Head(r.cq).fd \in Fds /\ f2s[Head(r.cq).fd] = NoSlot
  <2> DEFINE f == Head(r.cq).fd
  <2>1. f \in Fds /\ 1 \in DOMAIN r.cq /\ Accepted(r, 1, f)
    <3>1. Answered(Head(r.cq)) /\ 1 \in DOMAIN r.cq /\ r.cq[1] = Head(r.cq)
      BY <1>2 DEF Removed
    <3> QED
      BY <1>8, <3>1 DEF Answered, Accepted
  <2>2. DOMAIN r.cq \subseteq Nat \ {0}
    BY <1>1, RingParts
  <2> QED
    BY <2>1, <2>2, AcceptedUnmapped
<1> QED
  BY <1>2, <1>4, <1>5, <1>6, <1>7, <1>8

LEMMA AcceptRefused ==
  ASSUME NEW r, NEW cls, NEW f2s, RingInv(r, cls, f2s), r.seen > 0, Head(r.cq).op = "ACCEPT",
         NEW r3, r3 = [CqAdvance(r) EXCEPT !.open = @ \ {Head(r.cq).fd}]
  PROVE  RingInv(r3, cls, f2s) /\ AcceptsOf(r3) = AcceptsOf(r) - 1
<1> DEFINE r2 == CqAdvance(r)
           f == Head(r.cq).fd
<1>1. /\ RecvsOK(r2, cls) /\ ClosesOK(r2, cls) /\ RingOK(r2) /\ Removed(r, r2)
      /\ AcceptsOf(r2) = AcceptsOf(r) - 1
  BY AcceptDispatched
<1>2. RingOK(r) /\ MapOK(cls, f2s) /\ FdsOK(r, f2s)
  BY DEF RingInv
<1> HIDE DEF r2
<1>3. /\ r3.sq = r2.sq /\ r3.cq = r2.cq /\ r3.pending = r2.pending /\ r3.accepts = r2.accepts
      /\ r3.open = r2.open \ {f} /\ r3.seen = r2.seen /\ r3.visible = r2.visible /\ r3 \in Rings
  BY <1>1 DEF RingOK, Rings, r2
<1>4. RingOK(r3)
  BY <1>1, <1>3 DEF RingOK
<1>5. /\ \A e : Holds(r3, e) <=> Holds(r2, e)
      /\ \A op, c : (Has(r3, op, c) <=> Has(r2, op, c)) /\ (One(r3, op, c) <=> One(r2, op, c))
  BY <1>3 DEF Holds, Has, SqHas, CqHas, HeldHas, One
<1>6. RecvsOK(r3, cls) /\ ClosesOK(r3, cls)
  BY <1>1, <1>5 DEF RecvsOK, ClosesOK
<1>7. AcceptsOf(r3) = AcceptsOf(r2)
  BY <1>3 DEF AcceptsOf
<1>8. /\ 1 \in DOMAIN r.cq /\ r.cq[1] = Head(r.cq) /\ Answered(Head(r.cq)) /\ r2.open = r.open
      /\ DOMAIN r.cq \subseteq Nat \ {0}
  BY <1>1, <1>2, RingParts DEF Removed
<1>9. FdsOK(r3, f2s)
  <2> SUFFICES ASSUME NEW g \in Fds PROVE FdOK(r3, f2s, g)
    BY DEF FdsOK
  <2>1. FdOK(r, f2s, g) /\ ~Closed(r, 1, g)
    BY <1>2, <1>8 DEF FdsOK, FdOK, Closed
  <2>2. CASE g # f
    <3>1. ~Accepted(r, 1, g) /\ (g \in r3.open <=> g \in r.open)
      BY <1>3, <1>8, <2>2 DEF Accepted
    <3> QED
      BY <1>1, <1>3, <2>1, <3>1, RemovedFd
  <2>3. CASE g = f
    <3>1. Accepted(r, 1, g)
      BY <1>8, <2>3 DEF Answered, Accepted, Fds, NoFd
    <3>2. /\ f2s[g] = NoSlot
          /\ \A i \in DOMAIN r.cq : ~Closed(r, i, g) /\ (Accepted(r, i, g) => i = 1)
      BY <1>8, <3>1, AcceptedUnmapped
    <3>3. \A i \in DOMAIN r3.cq : ~Accepted(r3, i, g) /\ ~Closed(r3, i, g)
      <4>1. ASSUME NEW i \in DOMAIN r3.cq
            PROVE  i + 1 \in DOMAIN r.cq /\ r3.cq[i] = r.cq[i + 1] /\ i + 1 # 1
        BY <1>1, <1>3 DEF Removed
      <4> QED
        BY <3>2, <4>1 DEF Accepted, Closed
    <3>4. g \notin r3.open
      BY <1>3, <2>3
    <3> QED
      BY <3>2, <3>3, <3>4 DEF FdOK
  <2> QED
    BY <2>2, <2>3
<1> QED
  BY <1>1, <1>2, <1>4, <1>6, <1>7, <1>9 DEF RingInv

(* The accepted connection gets slot c, which was free.                        *)
LEMMA AcceptInstalled ==
  ASSUME NEW r, NEW cls, NEW cls2, NEW f2s, NEW f2s2, RingInv(r, cls, f2s), r.seen > 0,
         Head(r.cq).op = "ACCEPT", Head(r.cq).res = "ok", NEW f, f = Head(r.cq).fd,
         NEW c \in Slots, cls[c].state = "FREE", ~cls[c].recv_pending,
         Only(cls, cls2, c), cls2[c].state = "ACTIVE", cls2[c].fd = f, ~cls2[c].recv_pending,
         f2s2[f] = c, \A g \in Fds : g # f => f2s2[g] = f2s[g],
         NEW r2, r2 = CqAdvance(r)
  PROVE  RingInv(r2, cls2, f2s2) /\ AcceptsOf(r2) = AcceptsOf(r) - 1
<1>1. /\ RecvsOK(r2, cls) /\ ClosesOK(r2, cls) /\ RingOK(r2) /\ Removed(r, r2)
      /\ AcceptsOf(r2) = AcceptsOf(r) - 1
      /\ f \in Fds /\ f2s[f] = NoSlot /\ \A x : Holds(r2, x) => Owned(x)
  BY AcceptDispatched
<1>2. RingOK(r) /\ MapOK(cls, f2s) /\ FdsOK(r, f2s)
  BY DEF RingInv
<1>3. RecvsOK(r2, cls2)
  <2>1. \A d \in Slots : One(r2, "RECV", d) /\ (cls2[d].recv_pending <=> Has(r2, "RECV", d))
    BY <1>1 DEF RecvsOK, Only
  <2>2. ASSUME NEW x, Holds(r2, x), x.op = "RECV"
        PROVE  OwnRecv(x, cls2[x.slot])
    <3>1. Has(r2, "RECV", x.slot) /\ x.slot \in Slots
      BY <1>1, <2>2 DEF Holds, Has, SqHas, CqHas, HeldHas, Is, Owned
    <3>2. x.slot # c /\ OwnRecv(x, cls[x.slot])
      BY <1>1, <2>2, <3>1 DEF RecvsOK
    <3> QED
      BY <3>1, <3>2 DEF Only
  <2> QED
    BY <2>1, <2>2 DEF RecvsOK
<1>4. ClosesOK(r2, cls2)
  <2>1. ASSUME NEW x, Holds(r2, x), x.op = "CLOSE"
        PROVE  OwnClose(x, cls2[x.slot])
    <3>1. OwnClose(x, cls[x.slot]) /\ x.slot \in Slots
      BY <1>1, <2>1 DEF ClosesOK, Owned
    <3>2. x.slot # c
      BY <3>1 DEF OwnClose
    <3> QED
      BY <3>1, <3>2 DEF Only
  <2> QED
    BY <1>1, <2>1 DEF ClosesOK
<1>5. MapOK(cls2, f2s2)
  <2> SUFFICES ASSUME NEW g \in Fds, NEW d \in Slots
               PROVE  f2s2[g] = d <=> IsConnected(cls2[d]) /\ cls2[d].fd = g
    BY DEF MapOK
  <2>1. CASE g = f /\ d = c
    BY <2>1 DEF IsConnected
  <2>2. CASE g = f /\ d # c
    <3>1. ~(IsConnected(cls[d]) /\ cls[d].fd = g)
      BY <1>1, <1>2, <2>2, SlotBufAssumption DEF MapOK
    <3> QED
      BY <2>2, <3>1 DEF Only
  <2>3. CASE g # f /\ d = c
    <3>1. f2s[g] # c
      BY <1>2 DEF MapOK, IsConnected
    <3> QED
      BY <2>3, <3>1
  <2>4. CASE g # f /\ d # c
    BY <1>2, <2>4 DEF MapOK, Only
  <2> QED
    BY <2>1, <2>2, <2>3, <2>4
<1>8. /\ 1 \in DOMAIN r.cq /\ r.cq[1] = Head(r.cq) /\ Answered(Head(r.cq)) /\ r2.open = r.open
      /\ DOMAIN r.cq \subseteq Nat \ {0}
  BY <1>1, <1>2, RingParts DEF Removed
<1>9. FdsOK(r2, f2s2)
  <2> SUFFICES ASSUME NEW g \in Fds PROVE FdOK(r2, f2s2, g)
    BY DEF FdsOK
  <2>1. FdOK(r, f2s, g) /\ ~Closed(r, 1, g)
    BY <1>2, <1>8 DEF FdsOK, FdOK, Closed
  <2>2. CASE g # f
    <3>1. ~Accepted(r, 1, g) /\ f2s2[g] = f2s[g] /\ (g \in r2.open <=> g \in r.open)
      BY <1>8, <2>2 DEF Accepted
    <3> QED
      BY <1>1, <2>1, <3>1, RemovedFd
  <2>3. CASE g = f
    <3>1. Accepted(r, 1, g)
      BY <1>8, <2>3 DEF Accepted
    <3>2. \A i \in DOMAIN r.cq : ~Closed(r, i, g) /\ (Accepted(r, i, g) => i = 1)
      BY <1>8, <3>1, AcceptedUnmapped
    <3>3. \A i \in DOMAIN r2.cq : ~Accepted(r2, i, g) /\ ~Closed(r2, i, g)
      <4>1. ASSUME NEW i \in DOMAIN r2.cq
            PROVE  i + 1 \in DOMAIN r.cq /\ r2.cq[i] = r.cq[i + 1] /\ i + 1 # 1
        BY <1>1 DEF Removed
      <4> QED
        BY <3>2, <4>1 DEF Accepted, Closed
    <3>4. g \in r2.open /\ f2s2[g] # NoSlot
      BY <1>8, <2>1, <2>3, <3>1, SlotBufAssumption DEF FdOK
    <3> QED
      BY <3>3, <3>4 DEF FdOK
  <2> QED
    BY <2>2, <2>3
<1> QED
  BY <1>1, <1>3, <1>4, <1>5, <1>9 DEF RingInv

(* A close ends the connection it is of.                                       *)
LEMMA CloseDispatched ==
  ASSUME NEW r, NEW cls, NEW f2s, RingInv(r, cls, f2s), r.seen > 0,
         Head(r.cq).op = "CLOSE", NEW f, f = Head(r.cq).fd, NEW r2, r2 = CqAdvance(r)
  PROVE  /\ f \in Fds /\ f2s[f] \in Slots /\ OwnClose(Head(r.cq), cls[f2s[f]])
         /\ AcceptsOf(r2) = AcceptsOf(r)
         /\ \A cls2, f2s2 :
              /\ Only(cls, cls2, f2s[f]) /\ cls2[f2s[f]].state \notin {"ACTIVE", "CLOSING"}
              /\ ~cls[f2s[f]].recv_pending /\ ~cls2[f2s[f]].recv_pending
              /\ f2s2[f] = NoSlot /\ \A g \in Fds : g # f => f2s2[g] = f2s[g]
              => RingInv(r2, cls2, f2s2)
<1> DEFINE e == Head(r.cq)
           c == f2s[f]
<1>1. RingOK(r) /\ RecvsOK(r, cls) /\ ClosesOK(r, cls) /\ MapOK(cls, f2s) /\ FdsOK(r, f2s)
  BY DEF RingInv
<1>2. Removed(r, r2)
  BY <1>1, AdvanceRemoves
<1>3. /\ 1 \in DOMAIN r.cq /\ r.cq[1] = e /\ Answered(e) /\ r2.open = r.open
      /\ DOMAIN r.cq \subseteq Nat \ {0} /\ f \in Fds /\ Closed(r, 1, f)
  BY <1>1, <1>2, RingParts DEF Removed, Answered, Owned, Closed
<1>4. /\ c # NoSlot /\ c = e.slot /\ c \in Slots /\ OwnClose(e, cls[c])
      /\ \A j \in DOMAIN r.cq : Closed(r, j, f) => j = 1
  BY <1>3, ClosedMapped
<1> HIDE DEF c
<1>5. AcceptsOf(r2) = AcceptsOf(r) /\ RingOK(r2)
  <2>1. AcceptsOf(r) \in Nat
    BY <1>1, RingParts, AcceptsParts DEF AcceptsOf
  <2> QED
    BY <1>2, <2>1 DEF Removed
<1>6. ~Has(r2, "CLOSE", c)
  BY <1>1, <1>2, <1>4 DEF Removed, ClosesOK, Is
<1>7. \A d : ~Is(e, "RECV", d)
  BY DEF Is
<1>8. \A x : Holds(r2, x) => Owned(x) /\ Holds(r, x)
  BY ZenonT(40), <1>2 DEF Removed, RingOK, Holds, Prepared, Answered
<1>9. ASSUME NEW cls2, NEW f2s2, Only(cls, cls2, c), cls2[c].state \notin {"ACTIVE", "CLOSING"},
             ~cls[c].recv_pending, ~cls2[c].recv_pending,
             f2s2[f] = NoSlot, \A g \in Fds : g # f => f2s2[g] = f2s[g]
      PROVE  RingInv(r2, cls2, f2s2)
  <2>1. RecvsOK(r2, cls2)
    <3>1. \A d \in Slots : One(r2, "RECV", d) /\ (cls2[d].recv_pending <=> Has(r2, "RECV", d))
      BY <1>1, <1>2, <1>7, <1>9 DEF RecvsOK, Removed, Only
    <3>2. ASSUME NEW x, Holds(r2, x), x.op = "RECV"
          PROVE  OwnRecv(x, cls2[x.slot])
      <4>1. Has(r2, "RECV", x.slot) /\ x.slot \in Slots /\ OwnRecv(x, cls[x.slot])
        BY <1>1, <1>8, <3>2 DEF Holds, Has, SqHas, CqHas, HeldHas, Is, Owned, RecvsOK
      <4>2. x.slot # c
        BY <1>9, <3>1, <4>1
      <4> QED
        BY <1>9, <4>1, <4>2 DEF Only
    <3> QED
      BY <3>1, <3>2 DEF RecvsOK
  <2>2. ClosesOK(r2, cls2)
    <3>1. ASSUME NEW x, Holds(r2, x), x.op = "CLOSE"
          PROVE  OwnClose(x, cls2[x.slot])
      <4>1. Has(r2, "CLOSE", x.slot) /\ x.slot \in Slots /\ OwnClose(x, cls[x.slot])
        BY <1>1, <1>8, <3>1 DEF Holds, Has, SqHas, CqHas, HeldHas, Is, Owned, ClosesOK
      <4>2. x.slot # c
        BY <1>6, <4>1
      <4> QED
        BY <1>9, <4>1, <4>2 DEF Only
    <3> QED
      BY <1>1, <1>2, <3>1 DEF ClosesOK, Removed
  <2>3. MapOK(cls2, f2s2)
    <3> SUFFICES ASSUME NEW g \in Fds, NEW d \in Slots
                 PROVE  f2s2[g] = d <=> IsConnected(cls2[d]) /\ cls2[d].fd = g
      BY DEF MapOK
    <3>1. CASE d = c
      <4>1. f2s[g] = c => g = f
        BY <1>1, <1>3, <1>4 DEF MapOK, c
      <4>2. f2s2[g] # c
        BY <1>4, <1>9, <4>1
      <4> QED
        BY <1>9, <3>1, <4>2 DEF IsConnected
    <3>2. CASE d # c
      <4>1. f2s2[g] = d <=> f2s[g] = d
        BY <1>9, <3>2, SlotBufAssumption DEF c
      <4> QED
        BY <1>1, <1>9, <3>2, <4>1 DEF MapOK, Only
    <3> QED
      BY <3>1, <3>2
  <2>4. FdsOK(r2, f2s2)
    <3> SUFFICES ASSUME NEW g \in Fds PROVE FdOK(r2, f2s2, g)
      BY DEF FdsOK
    <3>1. FdOK(r, f2s, g) /\ ~Accepted(r, 1, g)
      BY <1>1, <1>3 DEF FdsOK, FdOK, Accepted
    <3>2. CASE g # f
      <4>1. ~Closed(r, 1, g) /\ f2s2[g] = f2s[g] /\ (g \in r2.open <=> g \in r.open)
        BY <1>3, <1>9, <3>2 DEF Closed
      <4> QED
        BY <1>2, <3>1, <4>1, RemovedFd
    <3>3. CASE g = f
      <4>1. \A i \in DOMAIN r2.cq : /\ i + 1 \in DOMAIN r.cq /\ i \in Nat
                                    /\ Accepted(r2, i, g) <=> Accepted(r, i + 1, g)
        BY <1>2 DEF Removed, Accepted
      <4>2. \A i \in DOMAIN r.cq : i # 1 => /\ i - 1 \in DOMAIN r2.cq
                                            /\ Accepted(r2, i - 1, g) <=> Accepted(r, i, g)
        BY <1>2 DEF Removed, Accepted
      <4>3. (\E i \in DOMAIN r2.cq : Accepted(r2, i, g)) <=> \E i \in DOMAIN r.cq : Accepted(r, i, g)
        BY <3>1, <4>1, <4>2
      <4>4. g \in r2.open <=> \E i \in DOMAIN r.cq : Accepted(r, i, g)
        BY <1>3, <3>1, <3>3 DEF FdOK
      <4>5. \A i, j \in DOMAIN r2.cq : Accepted(r2, i, g) /\ Accepted(r2, j, g) => i = j
        <5>1. ASSUME NEW i \in DOMAIN r2.cq, NEW j \in DOMAIN r2.cq,
                     Accepted(r2, i, g), Accepted(r2, j, g)
              PROVE  i + 1 = j + 1 /\ i \in Nat /\ j \in Nat
          BY <3>1, <4>1, <5>1 DEF FdOK
        <5> QED
          BY <5>1
      <4> QED
        BY <1>9, <3>3, <4>3, <4>4, <4>5 DEF FdOK
    <3> QED
      BY <3>2, <3>3
  <2> QED
    BY <1>5, <2>1, <2>2, <2>3, <2>4 DEF RingInv
<1> QED
  BY <1>3, <1>4, <1>5, <1>9 DEF c

-------------------------------------------------------------------------------
(* A CQE is posted.                                                            *)

Posted(r, e, r2) ==
  /\ r2.cq \in Seq(Requests) /\ Len(r2.cq) = Len(r.cq) + 1 /\ Len(r.cq) \in Nat
  /\ \A i \in DOMAIN r2.cq : (i \in DOMAIN r.cq /\ r2.cq[i] = r.cq[i] /\ i < Len(r.cq) + 1)
                              \/ (i = Len(r.cq) + 1 /\ r2.cq[i] = e)
  /\ \A i \in DOMAIN r.cq : i \in DOMAIN r2.cq /\ r2.cq[i] = r.cq[i] /\ i < Len(r.cq) + 1
  /\ Len(r.cq) + 1 \in DOMAIN r2.cq /\ r2.cq[Len(r.cq) + 1] = e
  /\ Accepts(r2.cq) = Accepts(r.cq) + (IF e.op = "ACCEPT" THEN 1 ELSE 0)
  /\ Accepts(r.cq) \in Nat

LEMMA PostedParts ==
  ASSUME NEW r, r.cq \in Seq(Requests), NEW e \in Requests, NEW r2, r2.cq = Append(r.cq, e)
  PROVE  Posted(r, e, r2)
<1> DEFINE M == Len(r.cq)
<1>1. M \in Nat /\ DOMAIN r.cq = 1 .. M
  BY LenProperties
<1>2. /\ r2.cq \in Seq(Requests) /\ Len(r2.cq) = M + 1 /\ DOMAIN r2.cq = 1 .. M + 1
      /\ \A i \in 1 .. M : r2.cq[i] = r.cq[i]
      /\ r2.cq[M + 1] = e
  BY AtEnd
<1>3. /\ Accepts(r2.cq) = Accepts(r.cq) + (IF e.op = "ACCEPT" THEN 1 ELSE 0)
      /\ Accepts(r.cq) \in Nat
  BY AcceptsAppend, AcceptsParts
<1> HIDE DEF M
<1>4. /\ \A i \in DOMAIN r2.cq : (i \in DOMAIN r.cq /\ r2.cq[i] = r.cq[i] /\ i < M + 1)
                                   \/ (i = M + 1 /\ r2.cq[i] = e)
      /\ \A i \in DOMAIN r.cq : i \in DOMAIN r2.cq /\ r2.cq[i] = r.cq[i] /\ i < M + 1
      /\ M + 1 \in DOMAIN r2.cq
  BY <1>1, <1>2
<1>5. M = Len(r.cq)
  BY DEF M
<1>6. \A i \in DOMAIN r2.cq : (i \in DOMAIN r.cq /\ r2.cq[i] = r.cq[i] /\ i < Len(r.cq) + 1)
                              \/ (i = Len(r.cq) + 1 /\ r2.cq[i] = e)
  BY <1>4, <1>5
<1>7. \A i \in DOMAIN r.cq : i \in DOMAIN r2.cq /\ r2.cq[i] = r.cq[i] /\ i < Len(r.cq) + 1
  BY <1>4, <1>5
<1>8. /\ r2.cq \in Seq(Requests) /\ Len(r2.cq) = Len(r.cq) + 1 /\ Len(r.cq) \in Nat
      /\ Len(r.cq) + 1 \in DOMAIN r2.cq /\ r2.cq[Len(r.cq) + 1] = e
  BY <1>1, <1>2, <1>4, <1>5
<1> QED
  BY <1>3, <1>6, <1>7, <1>8 DEF Posted

(* A receive or a writev completes. *)
Completed(r, req, res, e, r2) ==
  /\ e = [req EXCEPT !.res = res]
  /\ r2 = Post([r EXCEPT !.pending = @ \ {req}], e)

LEMMA CompletionKeeps ==
  ASSUME NEW r, NEW cls, NEW f2s, RingInv(r, cls, f2s), NEW req \in r.pending,
         NEW res, res \in {"data", "end", "done"}, req.op = "RECV" => res \in {"data", "end"},
         NEW e, NEW r2, Completed(r, req, res, e, r2)
  PROVE  RingInv(r2, cls, f2s) /\ AcceptsOf(r2) = AcceptsOf(r)
<1> USE DEF Completed
<1> DEFINE M == Len(r.cq)
<1>1. RingOK(r) /\ RecvsOK(r, cls) /\ ClosesOK(r, cls) /\ MapOK(cls, f2s) /\ FdsOK(r, f2s)
  BY DEF RingInv
<1>2. /\ r.cq \in Seq(Requests) /\ M \in Nat /\ DOMAIN r.cq = 1 .. M
      /\ r.seen \in Nat /\ r.seen <= M
      /\ req \in Requests /\ Prepared(req) /\ req.op \in {"RECV", "EGRESS", "SEND_RESP"}
  BY <1>1, RingParts DEF RingOK
<1>3. /\ e \in Requests /\ e.op = req.op /\ e.slot = req.slot /\ e.fd = req.fd
      /\ e.gen = req.gen /\ e.buf = req.buf /\ e.res = res
  BY <1>2 DEF Requests
<1>4. Answered(e)
  BY <1>2, <1>3 DEF Answered, Prepared, Owned
<1>5. /\ r2.sq = r.sq /\ r2.cq = Append(r.cq, e) /\ r2.pending = r.pending \ {req}
      /\ r2.accepts = r.accepts /\ r2.open = r.open /\ r2.seen = r.seen
      /\ r2.visible = r.visible
      /\ r2 = [sq |-> r2.sq, visible |-> r2.visible, cq |-> r2.cq, seen |-> r2.seen,
               pending |-> r2.pending, accepts |-> r2.accepts, open |-> r2.open]
  BY <1>1 DEF RingOK, Rings, Post
<1>6. Posted(r, e, r2)
  BY <1>2, <1>3, <1>5, PostedParts
<1>7. /\ \A i \in DOMAIN r2.cq : (i \in DOMAIN r.cq /\ r2.cq[i] = r.cq[i])
                                   \/ (i = M + 1 /\ r2.cq[i] = e)
      /\ \A i \in DOMAIN r.cq : i \in DOMAIN r2.cq /\ r2.cq[i] = r.cq[i]
      /\ M + 1 \in DOMAIN r2.cq /\ r2.cq[M + 1] = e
      /\ r2.cq \in Seq(Requests) /\ Len(r2.cq) = M + 1
      /\ Accepts(r2.cq) = Accepts(r.cq) + (IF e.op = "ACCEPT" THEN 1 ELSE 0)
      /\ Accepts(r.cq) \in Nat
  BY <1>6 DEF Posted
<1> HIDE DEF M
<1>8. RingOK(r2)
  <2>1. r2 \in Rings
    BY <1>1, <1>5, <1>7 DEF RingOK, Rings
  <2>2. r2.seen <= Len(r2.cq)
    BY <1>2, <1>5, <1>7
  <2> QED
    BY <1>1, <1>4, <1>5, <1>7, <2>1, <2>2 DEF RingOK
<1>9. \A x : Holds(r2, x) => Holds(r, x) \/ x = e
  BY ZenonT(40), <1>5, <1>7 DEF Holds
<1>10. \A op, c : Is(e, op, c) <=> Is(req, op, c)
  BY <1>3 DEF Is
<1>11. ASSUME NEW op, NEW c
       PROVE  /\ Has(r2, op, c) <=> Has(r, op, c)
              /\ One(r, op, c) => One(r2, op, c)
  <2>1. /\ SqHas(r2, op, c) <=> SqHas(r, op, c)
        /\ CqHas(r2, op, c) <=> CqHas(r, op, c) \/ Is(req, op, c)
        /\ HeldHas(r2, op, c) => HeldHas(r, op, c)
        /\ Is(req, op, c) => HeldHas(r, op, c)
        /\ HeldHas(r, op, c) => HeldHas(r2, op, c) \/ Is(req, op, c)
    <3>1. SqHas(r2, op, c) <=> SqHas(r, op, c)
      BY <1>5 DEF SqHas
    <3>2. CqHas(r2, op, c) <=> CqHas(r, op, c) \/ Is(req, op, c)
      <4>1. ASSUME NEW i \in DOMAIN r2.cq, Is(r2.cq[i], op, c)
            PROVE  Is(req, op, c) \/ (i \in DOMAIN r.cq /\ Is(r.cq[i], op, c))
        <5>1. CASE r2.cq[i] = e
          BY <1>10, <4>1, <5>1
        <5>2. CASE i \in DOMAIN r.cq /\ r2.cq[i] = r.cq[i]
          BY <4>1, <5>2
        <5> QED
          BY <1>7, <5>1, <5>2
      <4>2. CqHas(r, op, c) => CqHas(r2, op, c)
        BY <1>7 DEF CqHas
      <4>3. ASSUME Is(req, op, c) PROVE CqHas(r2, op, c)
        <5>1. M + 1 \in DOMAIN r2.cq /\ Is(r2.cq[M + 1], op, c)
          BY <1>7, <1>10, <4>3
        <5> QED
          BY <5>1 DEF CqHas
      <4> QED
        BY <4>1, <4>2, <4>3 DEF CqHas
    <3>3. /\ HeldHas(r2, op, c) => HeldHas(r, op, c)
          /\ Is(req, op, c) => HeldHas(r, op, c)
          /\ HeldHas(r, op, c) => HeldHas(r2, op, c) \/ Is(req, op, c)
      BY <1>5 DEF HeldHas
    <3> QED
      BY <3>1, <3>2, <3>3
  <2>2. ASSUME One(r, op, c) PROVE One(r2, op, c)
    <3>1. \A i, j \in DOMAIN r2.cq : Is(r2.cq[i], op, c) /\ Is(r2.cq[j], op, c) => i = j
      <4>1. CASE Is(req, op, c)
        <5>1. \A i \in DOMAIN r.cq : ~Is(r.cq[i], op, c)
          BY <2>1, <2>2, <4>1 DEF One, CqHas
        <5>2. \A i \in DOMAIN r2.cq : Is(r2.cq[i], op, c) => i = M + 1
          BY <1>7, <5>1
        <5> QED
          BY <5>2
      <4>2. CASE ~Is(req, op, c)
        <5>1. \A i \in DOMAIN r2.cq : Is(r2.cq[i], op, c) => i \in DOMAIN r.cq /\ Is(r.cq[i], op, c)
          BY <1>7, <1>10, <4>2
        <5> QED
          BY <2>2, <5>1 DEF One
      <4> QED
        BY <4>1, <4>2
    <3>2. Is(req, op, c) => ~HeldHas(r2, op, c)
      BY <1>5, <2>2 DEF One, HeldHas
    <3>3. /\ \A i, j \in DOMAIN r2.sq : Is(r2.sq[i], op, c) /\ Is(r2.sq[j], op, c) => i = j
          /\ \A d, x \in r2.pending : Is(d, op, c) /\ Is(x, op, c) => d = x
      BY <1>5, <2>2 DEF One
    <3>4. /\ SqHas(r2, op, c) => ~CqHas(r2, op, c) /\ ~HeldHas(r2, op, c)
          /\ CqHas(r2, op, c) => ~HeldHas(r2, op, c)
      BY <2>1, <2>2, <3>2 DEF One
    <3> QED
      BY <3>1, <3>3, <3>4 DEF One
  <2> QED
    BY <2>1, <2>2 DEF Has
<1>12. RecvsOK(r2, cls)
  <2>1. e.op = "RECV" => OwnRecv(e, cls[e.slot])
    BY <1>1, <1>3 DEF RecvsOK, OwnRecv, Holds
  <2> QED
    BY <1>1, <1>9, <1>11, <2>1 DEF RecvsOK
<1>13. ClosesOK(r2, cls)
  BY <1>1, <1>2, <1>3, <1>9, <1>11 DEF ClosesOK
<1>14. FdsOK(r2, f2s)
  <2> SUFFICES ASSUME NEW f \in Fds PROVE FdOK(r2, f2s, f)
    BY DEF FdsOK
  <2>1. /\ \A i \in DOMAIN r2.cq : /\ Accepted(r2, i, f) => i \in DOMAIN r.cq /\ Accepted(r, i, f)
                                   /\ Closed(r2, i, f) => i \in DOMAIN r.cq /\ Closed(r, i, f)
        /\ \A i \in DOMAIN r.cq : /\ i \in DOMAIN r2.cq
                                  /\ Accepted(r, i, f) => Accepted(r2, i, f)
                                  /\ Closed(r, i, f) => Closed(r2, i, f)
    BY <1>2, <1>3, <1>7 DEF Accepted, Closed
  <2> QED
    BY <1>1, <1>5, <2>1 DEF FdsOK, FdOK
<1>15. AcceptsOf(r2) = AcceptsOf(r)
  <2>1. Accepts(r2.cq) = Accepts(r.cq)
    BY <1>2, <1>3, <1>7
  <2> QED
    BY <1>5, <2>1 DEF AcceptsOf
<1> QED
  BY <1>1, <1>8, <1>12, <1>13, <1>14, <1>15 DEF RingInv

(* An accept completes: with an fd that is not open, or an error.              *)
Answers(r, ok, fd, e, r2) ==
  /\ e = [AcceptSqe EXCEPT !.fd = fd, !.res = IF ok THEN "ok" ELSE "error"]
  /\ r2 = Post([r EXCEPT !.accepts = @ - 1, !.open = @ \cup (IF ok THEN {fd} ELSE {})], e)

LEMMA AcceptKeeps ==
  ASSUME NEW r, NEW cls, NEW f2s, RingInv(r, cls, f2s), r.accepts > 0,
         NEW ok \in BOOLEAN, NEW fd, ok => fd \in Fds \ r.open, ~ok => fd = NoFd,
         NEW e, NEW r2, Answers(r, ok, fd, e, r2)
  PROVE  RingInv(r2, cls, f2s) /\ AcceptsOf(r2) = AcceptsOf(r)
<1> USE DEF Answers
<1> DEFINE M == Len(r.cq)
<1>1. RingOK(r) /\ RecvsOK(r, cls) /\ ClosesOK(r, cls) /\ MapOK(cls, f2s) /\ FdsOK(r, f2s)
  BY DEF RingInv
<1>2. /\ r.cq \in Seq(Requests) /\ M \in Nat /\ DOMAIN r.cq = 1 .. M /\ r.sq \in Seq(Requests)
      /\ r.seen \in Nat /\ r.seen <= M /\ r.accepts \in Nat /\ r.open \subseteq Fds
  BY <1>1, RingParts DEF RingOK
<1>3. /\ e \in Requests /\ Answered(e) /\ e.op = "ACCEPT" /\ e.fd = fd
      /\ e.res = IF ok THEN "ok" ELSE "error"
  <2>1. 0 \in 0 .. GenMod - 1
    BY LoopAssumption
  <2> QED
    BY <2>1 DEF AcceptSqe, Requests, Answered, Owned
<1>5. /\ r2.sq = r.sq /\ r2.cq = Append(r.cq, e) /\ r2.pending = r.pending
      /\ r2.accepts = r.accepts - 1 /\ r2.open = r.open \cup (IF ok THEN {fd} ELSE {})
      /\ r2.seen = r.seen /\ r2.visible = r.visible
      /\ r2 = [sq |-> r2.sq, visible |-> r2.visible, cq |-> r2.cq, seen |-> r2.seen,
               pending |-> r2.pending, accepts |-> r2.accepts, open |-> r2.open]
  BY <1>1 DEF RingOK, Rings, Post
<1>6. Posted(r, e, r2)
  BY <1>2, <1>3, <1>5, PostedParts
<1>7. /\ \A i \in DOMAIN r2.cq : (i \in DOMAIN r.cq /\ r2.cq[i] = r.cq[i] /\ i < M + 1)
                                   \/ (i = M + 1 /\ r2.cq[i] = e)
      /\ \A i \in DOMAIN r.cq : i \in DOMAIN r2.cq /\ r2.cq[i] = r.cq[i] /\ i < M + 1
      /\ M + 1 \in DOMAIN r2.cq /\ r2.cq[M + 1] = e
      /\ r2.cq \in Seq(Requests) /\ Len(r2.cq) = M + 1
      /\ Accepts(r2.cq) = Accepts(r.cq) + (IF e.op = "ACCEPT" THEN 1 ELSE 0)
      /\ Accepts(r.cq) \in Nat
  BY <1>6 DEF Posted
<1> HIDE DEF M
<1>8. RingOK(r2)
  <2>1. r2.open \subseteq Fds /\ r2.accepts \in Nat
    BY <1>2, <1>5
  <2>2. r2 \in Rings
    BY <1>1, <1>5, <1>7, <2>1 DEF RingOK, Rings
  <2>3. r2.seen <= Len(r2.cq)
    BY <1>2, <1>5, <1>7
  <2> QED
    BY <1>1, <1>3, <1>5, <1>7, <2>2, <2>3 DEF RingOK
<1>9. \A x : Holds(r2, x) => Holds(r, x) \/ x = e
  BY <1>5, <1>7 DEF Holds
<1>10. \A c : ~Is(e, "RECV", c) /\ ~Is(e, "CLOSE", c)
  BY <1>3 DEF Is
<1>11. ASSUME NEW op \in {"RECV", "CLOSE"}, NEW c
       PROVE  /\ Has(r2, op, c) <=> Has(r, op, c)
              /\ One(r, op, c) => One(r2, op, c)
  <2>1. /\ SqHas(r2, op, c) <=> SqHas(r, op, c)
        /\ CqHas(r2, op, c) <=> CqHas(r, op, c)
        /\ HeldHas(r2, op, c) <=> HeldHas(r, op, c)
    BY <1>5, <1>7, <1>10 DEF SqHas, CqHas, HeldHas
  <2>2. ASSUME One(r, op, c) PROVE One(r2, op, c)
    <3>1. \A i \in DOMAIN r2.cq : Is(r2.cq[i], op, c) => i \in DOMAIN r.cq /\ Is(r.cq[i], op, c)
      BY <1>7, <1>10
    <3> QED
      BY <1>5, <2>1, <2>2, <3>1 DEF One
  <2> QED
    BY <2>1, <2>2 DEF Has
<1>12. RecvsOK(r2, cls) /\ ClosesOK(r2, cls)
  <2>1. \A c : /\ Has(r2, "RECV", c) <=> Has(r, "RECV", c)
               /\ One(r, "RECV", c) => One(r2, "RECV", c)
               /\ One(r, "CLOSE", c) => One(r2, "CLOSE", c)
    BY <1>11
  <2> QED
    BY <1>1, <1>3, <1>9, <2>1 DEF RecvsOK, ClosesOK
<1>14. FdsOK(r2, f2s)
  <2> SUFFICES ASSUME NEW f \in Fds PROVE FdOK(r2, f2s, f)
    BY DEF FdsOK
  <2>1. FdOK(r, f2s, f)
    BY <1>1 DEF FdsOK
  <2>2. /\ \A i \in DOMAIN r2.cq : Closed(r2, i, f) => i \in DOMAIN r.cq /\ Closed(r, i, f)
        /\ \A i \in DOMAIN r.cq : /\ i \in DOMAIN r2.cq
                                  /\ Accepted(r, i, f) => Accepted(r2, i, f)
                                  /\ Closed(r, i, f) => Closed(r2, i, f)
    BY <1>2, <1>3, <1>7 DEF Accepted, Closed
  <2>3. \A i \in DOMAIN r2.cq :
          \/ i \in DOMAIN r.cq /\ (Accepted(r2, i, f) <=> Accepted(r, i, f))
          \/ i = M + 1 /\ (Accepted(r2, i, f) <=> ok /\ f = fd)
    <3>1. e.op = "ACCEPT" /\ e.fd = fd /\ (e.res = "ok" <=> ok)
      BY <1>3
    <3>2. ASSUME NEW i \in DOMAIN r2.cq, r2.cq[i] = e
          PROVE  Accepted(r2, i, f) <=> ok /\ f = fd
      BY <3>1, <3>2 DEF Accepted
    <3>3. ASSUME NEW i \in DOMAIN r2.cq, r2.cq[i] = r.cq[i]
          PROVE  Accepted(r2, i, f) <=> Accepted(r, i, f)
      BY <3>3 DEF Accepted
    <3> QED
      BY <1>7, <3>2, <3>3
  <2>4. CASE ~(ok /\ f = fd)
    <3>1. \A i \in DOMAIN r2.cq : Accepted(r2, i, f) => i \in DOMAIN r.cq /\ Accepted(r, i, f)
      BY <2>3, <2>4
    <3>2. f \in r2.open <=> f \in r.open
      BY <1>5, <2>4
    <3> QED
      BY <2>1, <2>2, <3>1, <3>2 DEF FdOK
  <2>5. CASE ok /\ f = fd
    <3>1. f \notin r.open /\ f \in r2.open /\ Accepted(r2, M + 1, f)
      BY <1>3, <1>5, <1>7, <2>5 DEF Accepted
    <3>2. \A i \in DOMAIN r.cq : ~Accepted(r, i, f)
      BY <2>1, <3>1 DEF FdOK
    <3>3. \A i \in DOMAIN r2.cq : Accepted(r2, i, f) <=> i = M + 1
      BY <1>7, <2>3, <3>1, <3>2
    <3>4. ASSUME f2s[f] # NoSlot
          PROVE  \E j \in DOMAIN r2.cq : j < M + 1 /\ Closed(r2, j, f)
      <4>1. \E j \in DOMAIN r.cq : Closed(r, j, f)
        BY <2>1, <3>1, <3>4 DEF FdOK
      <4> QED
        BY <1>7, <2>2, <4>1
    <3> QED
      BY <1>7, <3>1, <3>3, <3>4 DEF FdOK
  <2> QED
    BY <2>4, <2>5
<1>15. AcceptsOf(r2) = AcceptsOf(r)
  <2>1. Accepts(r2.cq) = Accepts(r.cq) + 1 /\ Accepts(r.cq) \in Nat
    BY <1>3, <1>7
  <2>2. Accepts(r.sq) \in Nat
    BY <1>2, AcceptsParts
  <2>3. r2.sq = r.sq /\ r2.accepts = r.accepts - 1 /\ r.accepts \in Nat
    BY <1>2, <1>5
  <2> QED
    BY <2>1, <2>2, <2>3 DEF AcceptsOf
<1> QED
  BY <1>1, <1>8, <1>12, <1>14, <1>15 DEF RingInv

-------------------------------------------------------------------------------
(* The retry ring and the free list: no slot is in one twice.                  *)

InSeq(c, q) == \E i \in DOMAIN q : q[i] = c
Distinct(q) == \A i, j \in DOMAIN q : q[i] = q[j] => i = j

LEMMA ListHead ==
  ASSUME NEW q \in Seq(Slots), q # << >>, Distinct(q)
  PROVE  /\ Tail(q) \in Seq(Slots) /\ Distinct(Tail(q))
         /\ Head(q) \in Slots /\ InSeq(Head(q), q)
         /\ \A c : InSeq(c, Tail(q)) <=> InSeq(c, q) /\ c # Head(q)
<1> DEFINE n == Len(q)
           t == Tail(q)
<1>1. /\ t \in Seq(Slots) /\ n \in Nat \ {0} /\ DOMAIN q = 1 .. n /\ DOMAIN t = 1 .. n - 1
      /\ \A i \in 1 .. n - 1 : t[i] = q[i + 1]
      /\ Head(q) = q[1] /\ Head(q) \in Slots
  BY AtFront
<1> HIDE DEF n, t
<1>2. /\ \A i \in DOMAIN t : i + 1 \in DOMAIN q /\ i + 1 # 1 /\ t[i] = q[i + 1] /\ i \in Nat
      /\ \A i \in DOMAIN q : i # 1 => i - 1 \in DOMAIN t /\ t[i - 1] = q[i]
      /\ 1 \in DOMAIN q
  <2>1. \A i \in 1 .. n - 1 : i + 1 \in 1 .. n /\ i + 1 # 1 /\ i \in Nat
    BY <1>1
  <2>2. \A i \in 1 .. n : i # 1 => i - 1 \in 1 .. n - 1 /\ (i - 1) + 1 = i
    BY <1>1
  <2>3. 1 \in 1 .. n
    BY <1>1
  <2> QED
    BY <1>1, <2>1, <2>2, <2>3
<1>3. Distinct(t)
  <2>1. ASSUME NEW i \in DOMAIN t, NEW j \in DOMAIN t, t[i] = t[j]
        PROVE  i + 1 = j + 1 /\ i \in Nat /\ j \in Nat
    BY <1>2, <2>1 DEF Distinct
  <2>2. \A i, j \in DOMAIN t : t[i] = t[j] => i = j
    BY <2>1
  <2> QED
    BY <2>2 DEF Distinct
<1>4. ASSUME NEW c
      PROVE  InSeq(c, t) <=> InSeq(c, q) /\ c # Head(q)
  <2>1. InSeq(c, t) => InSeq(c, q) /\ c # Head(q)
    BY <1>1, <1>2 DEF InSeq, Distinct
  <2>2. InSeq(c, q) /\ c # Head(q) => InSeq(c, t)
    BY <1>1, <1>2 DEF InSeq
  <2> QED
    BY <2>1, <2>2
<1>5. InSeq(Head(q), q)
  BY <1>1, <1>2 DEF InSeq
<1> QED
  BY <1>1, <1>3, <1>4, <1>5 DEF t

(* A slot that is not in the retry ring always finds a place in it.            *)
LEMMA RetryEnqueued ==
  ASSUME NEW q \in Seq(Slots), Distinct(q), NEW c \in Slots, ~InSeq(c, q)
  PROVE  /\ RetryEnqueue(q, c) \in Seq(Slots) /\ Distinct(RetryEnqueue(q, c))
         /\ \A d : InSeq(d, RetryEnqueue(q, c)) <=> InSeq(d, q) \/ d = c
<1> DEFINE n == Len(q)
           a == Append(q, c)
<1>1. /\ a \in Seq(Slots) /\ n \in Nat /\ DOMAIN q = 1 .. n /\ DOMAIN a = 1 .. n + 1
      /\ \A i \in 1 .. n : a[i] = q[i]
      /\ a[n + 1] = c
  BY AtEnd
<1> HIDE DEF n, a
<1>2. q \in [1 .. n -> Slots]
  BY LenProperties DEF n
<1>3. n < Cardinality(Slots)
  <2> DEFINE T == Slots \ {c}
  <2>1. IsFiniteSet(T) /\ Cardinality(T) = Cardinality(Slots) - 1 /\ Cardinality(Slots) \in Nat
    BY SlotBufAssumption, FS_RemoveElement, FS_CardinalityType
  <2>2. q \in Injection(1 .. n, T)
    BY <1>1, <1>2 DEF Injection, IsInjective, Distinct, InSeq
  <2>3. Cardinality(1 .. n) <= Cardinality(T)
    BY <2>1, <2>2, FS_Injection
  <2>4. Cardinality(1 .. n) = n
    BY <1>1, FS_Interval
  <2> QED
    BY <1>1, <2>1, <2>3, <2>4
<1>4. RetryEnqueue(q, c) = a
  <2>1. Cardinality(Slots) \in Nat
    BY SlotBufAssumption, FS_CardinalityType
  <2>2. ~(n >= Cardinality(Slots))
    BY <1>1, <1>3, <2>1
  <2> QED
    BY <2>2 DEF RetryEnqueue, n, a
<1>5. /\ \A i \in DOMAIN a : (i \in DOMAIN q /\ a[i] = q[i]) \/ (i = n + 1 /\ a[i] = c)
      /\ \A i \in DOMAIN q : i \in DOMAIN a /\ a[i] = q[i]
      /\ n + 1 \in DOMAIN a /\ a[n + 1] = c
  BY <1>1
<1>6. Distinct(a)
  BY <1>5 DEF Distinct, InSeq
<1>7. \A d : InSeq(d, a) <=> InSeq(d, q) \/ d = c
  BY <1>5 DEF InSeq
<1> QED
  BY <1>1, <1>4, <1>6, <1>7

LEMMA ListPushed ==
  ASSUME NEW q \in Seq(Slots), Distinct(q), NEW c \in Slots, ~InSeq(c, q)
  PROVE  /\ <<c>> \o q \in Seq(Slots) /\ Distinct(<<c>> \o q)
         /\ \A d : InSeq(d, <<c>> \o q) <=> InSeq(d, q) \/ d = c
<1> DEFINE n == Len(q)
           a == <<c>> \o q
<1>1. <<c>> \in Seq(Slots) /\ Len(<<c>>) = 1 /\ <<c>>[1] = c
  OBVIOUS
<1>2. /\ a \in Seq(Slots) /\ Len(a) = 1 + n
      /\ \A i \in 1 .. 1 + n : a[i] = IF i <= 1 THEN c ELSE q[i - 1]
  <2>1. /\ a \in Seq(Slots) /\ Len(a) = Len(<<c>>) + n
        /\ \A i \in 1 .. Len(<<c>>) + n :
             a[i] = IF i <= Len(<<c>>) THEN <<c>>[i] ELSE q[i - Len(<<c>>)]
    BY <1>1, ConcatProperties
  <2>2. n \in Nat
    BY LenProperties
  <2> HIDE DEF a, n
  <2>3. \A i \in 1 .. 1 + n : i <= 1 => i = 1
    BY <2>2
  <2> QED
    BY <1>1, <2>1, <2>3
<1>3. n \in Nat /\ DOMAIN q = 1 .. n /\ DOMAIN a = 1 .. 1 + n
  BY <1>2, LenProperties
<1> HIDE DEF n, a
<1>4. /\ \A i \in DOMAIN a : (i - 1 \in DOMAIN q /\ a[i] = q[i - 1] /\ i \in Int)
                               \/ (i = 1 /\ a[i] = c)
      /\ \A i \in DOMAIN q : i + 1 \in DOMAIN a /\ a[i + 1] = q[i]
      /\ 1 \in DOMAIN a /\ a[1] = c
  <2>1. \A i \in 1 .. 1 + n : i \in Int /\ (i = 1 \/ (i - 1 \in 1 .. n /\ ~(i <= 1)))
    BY <1>3
  <2>2. \A i \in 1 .. n : i + 1 \in 1 .. 1 + n /\ ~(i + 1 <= 1) /\ (i + 1) - 1 = i
    BY <1>3
  <2>3. 1 \in 1 .. 1 + n
    BY <1>3
  <2> QED
    BY <1>2, <1>3, <2>1, <2>2, <2>3
<1>5. Distinct(a)
  <2> SUFFICES ASSUME NEW i \in DOMAIN a, NEW j \in DOMAIN a, a[i] = a[j] PROVE i = j
    BY DEF Distinct
  <2>1. CASE i = 1 \/ j = 1
    BY <1>4, <2>1 DEF InSeq
  <2>2. CASE i # 1 /\ j # 1
    <3>1. i - 1 = j - 1 /\ i \in Int /\ j \in Int
      BY <1>4, <2>2 DEF Distinct
    <3> QED
      BY <3>1
  <2> QED
    BY <2>1, <2>2
<1>6. \A d : InSeq(d, a) <=> InSeq(d, q) \/ d = c
  BY <1>4 DEF InSeq
<1> QED
  BY <1>2, <1>5, <1>6 DEF a

-------------------------------------------------------------------------------
(* The invariant.                                                              *)

(* One owner for every buffer. *)
BufsOK(cls, pool, kept) ==
  /\ \A c \in Slots : IsConnected(cls[c]) <=> cls[c].recv_buf_idx # NoBuf
  /\ \A c \in Slots : cls[c].recv_buf_idx \notin pool \cup kept
  /\ \A c, d \in Slots : c # d /\ cls[c].recv_buf_idx = cls[d].recv_buf_idx
                           => cls[c].recv_buf_idx = NoBuf
  /\ pool \cap kept = {}
  /\ \A b \in Bufs : b \in pool \/ b \in kept \/ \E c \in Slots : cls[c].recv_buf_idx = b

(* No buffer is ever orphaned; an active connection that is not being handled  *)
(* receives or waits in the retry ring, and is not in it for nothing.          *)
SlotOK(c, cl, cu, retry, free) ==
  /\ cl.orphaned_recv_buf_idx = NoBuf
  /\ cl.recv_pending => cl.state = "ACTIVE" /\ c # cu
  /\ IsConnected(cl) <=> cl.fd # NoFd
  /\ cl.state = "ACTIVE" /\ c # cu => cl.recv_pending \/ InSeq(c, retry)
  /\ InSeq(c, retry) => cl.state = "ACTIVE" /\ c # cu /\ ~cl.recv_pending
  /\ InSeq(c, free) => cl.state = "FREE"

SlotsInv(cls, cu, retry, free) == \A c \in Slots : SlotOK(c, cls[c], cu, retry, free)

PhaseOK(p, cu, cls, r) ==
  /\ p = "packets" => cu \in Slots /\ cls[cu].state = "ACTIVE" /\ ~cls[cu].recv_pending
  /\ p # "packets" => cu = NoSlot
  /\ p = "blocked" => r.sq = << >>

(* The variables that are not the ring's. *)
Types ==
  /\ pc \in Phases /\ cur \in Slots \cup {NoSlot}
  /\ processed \in BOOLEAN /\ sweep_due \in BOOLEAN
  /\ clients \in [Slots -> Clients]
  /\ fd_to_slot \in [Fds -> Slots \cup {NoSlot}]
  /\ free_slots \in Seq(Slots) /\ Distinct(free_slots)
  /\ recv_retry \in Seq(Slots) /\ Distinct(recv_retry)
  /\ recv_free \subseteq Bufs /\ stolen \subseteq Bufs

IInv ==
  /\ Types
  /\ RingInv(ring, clients, fd_to_slot)
  /\ accept_pending = AcceptsOf(ring)
  /\ BufsOK(clients, recv_free, stolen)
  /\ SlotsInv(clients, cur, recv_retry, free_slots)
  /\ PhaseOK(pc, cur, clients, ring)

LEMMA NoBufNotBuf == NoBuf \notin Bufs /\ NoSlot \notin Slots /\ NoFd \notin Fds
BY SlotBufAssumption DEF NoFd, Fds

(* What a connection that is open has. *)
LEMMA Open ==
  ASSUME IInv, NEW c \in Slots
  PROVE  /\ clients[c] \in Clients
         /\ SlotOK(c, clients[c], cur, recv_retry, free_slots)
         /\ IsConnected(clients[c]) => /\ clients[c].fd \in Fds /\ clients[c].recv_buf_idx \in Bufs
                                       /\ fd_to_slot[clients[c].fd] = c
<1>1. clients[c] \in Clients /\ SlotOK(c, clients[c], cur, recv_retry, free_slots)
  BY DEF IInv, Types, SlotsInv
<1>2. ASSUME IsConnected(clients[c])
      PROVE  /\ clients[c].fd \in Fds /\ clients[c].recv_buf_idx \in Bufs
             /\ fd_to_slot[clients[c].fd] = c
  <2>1. clients[c].fd \in Fds
    BY <1>1, <1>2 DEF SlotOK, Clients
  <2>2. clients[c].recv_buf_idx \in Bufs
    BY <1>1, <1>2 DEF IInv, BufsOK, Clients
  <2>3. fd_to_slot[clients[c].fd] = c
    BY <1>2, <2>1 DEF IInv, RingInv, MapOK
  <2> QED
    BY <2>1, <2>2, <2>3
<1> QED
  BY <1>1, <1>2

-------------------------------------------------------------------------------
(* The steps.  First those that only move the thread on.                       *)

LEMMA InitOK == Init => IInv
<1> SUFFICES ASSUME Init PROVE IInv
  OBVIOUS
<1>1. 0 \in 0 .. GenMod - 1
  BY LoopAssumption
<1>2. Cardinality(Slots) \in Nat
  BY SlotBufAssumption, FS_CardinalityType
<1>3. FreeClient \in Clients
  BY <1>1 DEF FreeClient, Clients
<1>4. PICK s \in [1 .. Cardinality(Slots) -> Slots] : free_slots = s /\ ElementsOf(s) = Slots
  BY DEF Init
<1>5. free_slots \in Seq(Slots)
  BY <1>2, <1>4
<1>6. Distinct(free_slots)
  <2> DEFINE D == 1 .. Cardinality(Slots)
  <2>1. IsFiniteSet(D) /\ Cardinality(D) = Cardinality(Slots)
    BY <1>2, FS_Interval
  <2>2. s \in Surjection(D, Slots)
    BY <1>4 DEF Surjection, ElementsOf
  <2>3. s \in Injection(D, Slots)
    BY <2>1, <2>2, FS_SurjSameCardinalityImpliesInj
  <2>4. DOMAIN s = D /\ \A i, j \in D : s[i] = s[j] => i = j
    BY <1>4, <2>3 DEF Injection, IsInjective
  <2> QED
    BY <1>4, <2>4 DEF Distinct
<1>7. /\ clients = [c \in Slots |-> FreeClient] /\ cur = NoSlot /\ pc = "accepts"
      /\ recv_retry = << >> /\ recv_free = Bufs /\ stolen = {} /\ ring = EmptyRing
      /\ fd_to_slot = [f \in Fds |-> NoSlot] /\ accept_pending = 0
      /\ processed = TRUE /\ sweep_due = FALSE
  BY DEF Init
<1>8. \A c : ~InSeq(c, recv_retry)
  BY <1>7 DEF InSeq
<1>9. Types
  <2>1. recv_retry \in Seq(Slots) /\ Distinct(recv_retry)
    BY <1>7, EmptySeq DEF Distinct
  <2>2. clients \in [Slots -> Clients] /\ fd_to_slot \in [Fds -> Slots \cup {NoSlot}]
    BY <1>3, <1>7
  <2>3. /\ pc \in Phases /\ cur \in Slots \cup {NoSlot} /\ processed \in BOOLEAN
        /\ sweep_due \in BOOLEAN /\ recv_free \subseteq Bufs /\ stolen \subseteq Bufs
    BY <1>7 DEF Phases
  <2> QED
    BY <1>5, <1>6, <2>1, <2>2, <2>3 DEF Types
<1>10. BufsOK(clients, recv_free, stolen)
  <2>1. \A c \in Slots : clients[c].recv_buf_idx = NoBuf /\ ~IsConnected(clients[c])
    BY <1>7 DEF FreeClient, IsConnected
  <2> QED
    BY <1>7, <2>1, NoBufNotBuf DEF BufsOK
<1>11. SlotsInv(clients, cur, recv_retry, free_slots)
  BY <1>7, <1>8 DEF SlotsInv, SlotOK, FreeClient, IsConnected
<1>12. PhaseOK(pc, cur, clients, ring)
  BY <1>7 DEF PhaseOK
<1>13. RingOK(ring) /\ ring.sq = << >> /\ ring.cq = << >> /\ ring.pending = {} /\ ring.open = {}
       /\ ring.accepts = 0
  <2>1. ring.sq = << >> /\ ring.cq = << >> /\ ring.pending = {} /\ ring.open = {}
        /\ ring.accepts = 0 /\ ring.visible = 0 /\ ring.seen = 0
    BY <1>7 DEF EmptyRing
  <2>2. ring \in Rings
    BY <1>7, EmptySeq DEF Rings, EmptyRing
  <2> QED
    BY <2>1, <2>2 DEF RingOK
<1>14. RingInv(ring, clients, fd_to_slot)
  <2>1. \A op, c : ~Has(ring, op, c) /\ One(ring, op, c)
    BY <1>13 DEF Has, SqHas, CqHas, HeldHas, One
  <2>2. \A e : ~Holds(ring, e)
    BY <1>13 DEF Holds
  <2>3. RecvsOK(ring, clients) /\ ClosesOK(ring, clients)
    BY <1>7, <2>1, <2>2 DEF RecvsOK, ClosesOK, FreeClient
  <2>4. MapOK(clients, fd_to_slot)
    BY <1>7, NoBufNotBuf DEF MapOK, FreeClient, IsConnected
  <2>5. FdsOK(ring, fd_to_slot)
    BY <1>7, <1>13 DEF FdsOK, FdOK
  <2> QED
    BY <1>13, <2>3, <2>4, <2>5 DEF RingInv
<1>15. accept_pending = AcceptsOf(ring)
  <2>1. Accepts(<< >>) = 0
    BY FS_EmptySet DEF Accepts
  <2> QED
    BY <1>7, <1>13, <2>1 DEF AcceptsOf
<1> QED
  BY <1>9, <1>10, <1>11, <1>12, <1>14, <1>15 DEF IInv

LEMMA Unmoved == IInv /\ UNCHANGED vars => IInv'
BY DEF IInv, Types, vars

Moves == DispatchDone \/ RetriesDone \/ Replenished \/ Sweep \/ WakeUp \/ IntervalElapses

LEMMA StepMoves == IInv /\ Moves => IInv'
<1> SUFFICES ASSUME IInv, Moves PROVE IInv'
  OBVIOUS
<1>1. UNCHANGED <<cur, ring, clients, fd_to_slot, free_slots, recv_free, stolen, recv_retry,
                  accept_pending>>
  BY DEF Moves, DispatchDone, RetriesDone, Replenished, Sweep, WakeUp, IntervalElapses
<1>2. /\ pc' \in Phases /\ processed' \in BOOLEAN /\ sweep_due' \in BOOLEAN
      /\ pc' = "packets" <=> pc = "packets"
      /\ pc' = "blocked" => pc = "blocked"
  BY DEF Moves, DispatchDone, RetriesDone, Replenished, Sweep, WakeUp, IntervalElapses, IInv,
         Types, Phases
<1>3. PhaseOK(pc, cur, clients, ring)'
  BY <1>1, <1>2 DEF IInv, PhaseOK
<1> QED
  BY <1>1, <1>2, <1>3 DEF IInv, Types

(* The kernel takes requests.                                                  *)

LEMMA TakeAll ==
  ASSUME ~Reorder, NEW r, RingOK(r), Len(r.sq) \in 0 .. r.visible,
         NEW r2, r2 = Take(r, Len(r.sq))
  PROVE  r2.sq = << >>
<1>1. Taken(r, Len(r.sq), r2) /\ Len(r.sq) \in Nat
  BY TakeParts, RingParts
<1>2. r2.sq \in Seq(Requests) /\ Len(r2.sq) = 0
  BY <1>1 DEF Taken
<1> QED
  BY <1>2, EmptySeq

LEMMA StepTop == ASSUME ~Reorder, IInv, Top PROVE IInv'
<1>1. RingInv(ring, clients, fd_to_slot) /\ RingOK(ring)
  BY DEF IInv, RingInv
<1>2. PICK n \in Takes(FlushSqes(ring)) : ring' = CqSync(Take(FlushSqes(ring), n))
  BY DEF Top
<1>3. PICK v : v = FlushSqes(ring)
  OBVIOUS
<1>4. RingInv(v, clients, fd_to_slot) /\ AcceptsOf(v) = AcceptsOf(ring) /\ RingOK(v)
  BY <1>1, <1>3, FlushKeeps
<1>5. PICK t : t = Take(v, n)
  OBVIOUS
<1>6. RingInv(t, clients, fd_to_slot) /\ AcceptsOf(t) = AcceptsOf(v) /\ RingOK(t)
  <2>1. n \in 0 .. v.visible
    BY <1>2, <1>3, <1>4, TakesVisible
  <2> QED
    BY <1>4, <1>5, <2>1, TakeKeeps DEF RingInv
<1>7. PICK u : u = CqSync(t)
  OBVIOUS
<1>8. RingInv(u, clients, fd_to_slot) /\ AcceptsOf(u) = AcceptsOf(t)
  <2>1. Len(t.cq) \in Nat /\ t \in Rings
    BY <1>6, RingParts DEF RingOK
  <2>2. /\ u.sq = t.sq /\ u.cq = t.cq /\ u.pending = t.pending /\ u.accepts = t.accepts
        /\ u.open = t.open /\ u.visible = t.visible /\ u.seen = Len(t.cq) /\ u \in Rings
    BY <1>7, <2>1 DEF Rings, CqSync
  <2>3. RingOK(u)
    BY <1>6, <2>1, <2>2 DEF RingOK
  <2> QED
    BY <1>6, <2>2, <2>3, SameContents
<1>9. ring' = u
  BY <1>2, <1>3, <1>5, <1>7
<1>10. /\ pc' = "dispatch" /\ pc # "packets" /\ processed' = FALSE
       /\ UNCHANGED <<cur, sweep_due, clients, fd_to_slot, free_slots, recv_free, stolen,
                      recv_retry, accept_pending>>
  BY DEF Top
<1>11. RingInv(ring', clients', fd_to_slot') /\ accept_pending' = AcceptsOf(ring')
  BY <1>4, <1>6, <1>8, <1>9, <1>10 DEF IInv
<1>12. Types'
  BY <1>10 DEF IInv, Types, Phases
<1>13. PhaseOK(pc', cur', clients', ring')
  BY <1>10 DEF IInv, PhaseOK
<1>14. BufsOK(clients', recv_free', stolen') /\ SlotsInv(clients', cur', recv_retry', free_slots')
  BY <1>10 DEF IInv
<1> QED
  BY <1>11, <1>12, <1>13, <1>14 DEF IInv

LEMMA StepWait == ASSUME ~Reorder, IInv, Wait PROVE IInv'
<1>1. RingInv(ring, clients, fd_to_slot) /\ RingOK(ring)
  BY DEF IInv, RingInv
<1>2. PICK n \in Takes(ring) :
        /\ ring' = Take(ring, n)
        /\ pc' = IF WaitsFor(ring, n) /\ ring'.cq = << >> THEN "blocked" ELSE "top"
  BY DEF Wait
<1>3. n \in 0 .. ring.visible
  BY <1>1, TakesVisible
<1>4. RingInv(ring', clients, fd_to_slot) /\ AcceptsOf(ring') = AcceptsOf(ring)
  BY <1>1, <1>2, <1>3, TakeKeeps
<1>5. /\ pc = "wait" /\ pc' \in {"blocked", "top"}
      /\ UNCHANGED <<cur, processed, sweep_due, clients, fd_to_slot, free_slots, recv_free,
                     stolen, recv_retry, accept_pending>>
  BY <1>2 DEF Wait
<1>6. pc' = "blocked" => ring'.sq = << >>
  BY <1>1, <1>2, <1>3, TakeAll DEF WaitsFor, SqPending
<1>7. RingInv(ring', clients', fd_to_slot') /\ accept_pending' = AcceptsOf(ring')
  BY <1>4, <1>5 DEF IInv
<1>8. Types'
  BY <1>5 DEF IInv, Types, Phases
<1>9. PhaseOK(pc', cur', clients', ring')
  BY <1>5, <1>6 DEF IInv, PhaseOK
<1>10. BufsOK(clients', recv_free', stolen') /\ SlotsInv(clients', cur', recv_retry', free_slots')
  BY <1>5 DEF IInv
<1> QED
  BY <1>7, <1>8, <1>9, <1>10 DEF IInv

LEMMA StepReplenish == ASSUME ~Reorder, IInv, Replenish PROVE IInv'
<1>1. RingInv(ring, clients, fd_to_slot) /\ accept_pending = AcceptsOf(ring)
  BY DEF IInv
<1>2. AcceptSubmitted(ring, accept_pending, ring', accept_pending')
  BY DEF Replenish, SubmitAccept, AcceptSubmitted
<1>3. RingInv(ring', clients, fd_to_slot) /\ accept_pending' = AcceptsOf(ring')
  BY <1>1, <1>2, AcceptSubmission
<1>4. /\ pc = "accepts" /\ pc' \in {"sweep", "accepts"}
      /\ UNCHANGED <<cur, processed, sweep_due, clients, fd_to_slot, free_slots, recv_free,
                     stolen, recv_retry>>
  BY DEF Replenish
<1>5. Types'
  BY <1>4 DEF IInv, Types, Phases
<1>6. PhaseOK(pc', cur', clients', ring')
  BY <1>4 DEF IInv, PhaseOK
<1>7. BufsOK(clients', recv_free', stolen') /\ SlotsInv(clients', cur', recv_retry', free_slots')
  BY <1>4 DEF IInv
<1> QED
  BY <1>3, <1>4, <1>5, <1>6, <1>7 DEF IInv

LEMMA StepMessageDone ==
  ASSUME IInv, NEW buf \in Bufs, MessageDone(buf) PROVE IInv'
<1>1. /\ buf \in stolen /\ stolen' = stolen \ {buf} /\ recv_free' = recv_free \cup {buf}
      /\ UNCHANGED <<pc, cur, processed, sweep_due, ring, clients, fd_to_slot, free_slots,
                     recv_retry, accept_pending>>
  BY DEF MessageDone
<1>2. BufsOK(clients', recv_free', stolen')
  BY <1>1 DEF IInv, BufsOK
<1>3. Types'
  BY <1>1 DEF IInv, Types
<1> QED
  BY <1>1, <1>2, <1>3 DEF IInv

(* The kernel completes requests.                                              *)

LEMMA StepKernelAccept == ASSUME IInv, KernelAccept PROVE IInv'
<1> DEFINE ok == ClosedFds # {}
           fd == IF ok THEN LowestFd ELSE NoFd
<1>1. /\ RingInv(ring, clients, fd_to_slot) /\ ring.accepts > 0 /\ ring \in Rings
      /\ ring' = Post([ring EXCEPT !.accepts = @ - 1, !.open = @ \cup (IF ok THEN {fd} ELSE {})],
                      [AcceptSqe EXCEPT !.fd = fd, !.res = IF ok THEN "ok" ELSE "error"])
      /\ KernelOnly
  BY DEF IInv, RingInv, RingOK, KernelAccept
<1>2. ok => fd \in Fds \ ring.open
  <2> SUFFICES ASSUME ok PROVE LowestFd \in ClosedFds
    BY DEF ClosedFds
  <2>1. ClosedFds \subseteq Int /\ ClosedFds # {} /\ IsFiniteSet(ClosedFds)
    <3>1. ClosedFds \subseteq 1 .. KernelFds
      BY DEF ClosedFds, Fds
    <3>2. IsFiniteSet(ClosedFds)
      BY <3>1, FdAssumption, FiniteParts
    <3> QED
      BY <3>1, <3>2
  <2>2. \E f \in ClosedFds : \A g \in ClosedFds : f <= g
    <3>1. PICK S : S = ClosedFds
      OBVIOUS
    <3>2. Cardinality(S) \in Nat /\ Cardinality(S) # 0
      BY <2>1, <3>1, FS_CardinalityType, FS_EmptySet
    <3>3. PICK m : m = Nth(S, 1)
      OBVIOUS
    <3>4. m \in S /\ Cardinality({j \in S : j <= m}) = 1
      <4>1. 1 \in 1 .. Cardinality(S) /\ IsFiniteSet(S) /\ S \subseteq Int
        BY <2>1, <3>1, <3>2
      <4>2. Nth(S, 1) \in S /\ Cardinality({j \in S : j <= Nth(S, 1)}) = 1
        BY <4>1, NthLemma
      <4> QED
        BY <3>3, <4>2
    <3>5. PICK B : B = {j \in S : j <= m}
      OBVIOUS
    <3>6. IsFiniteSet(B)
      BY <2>1, <3>1, <3>5, FS_Subset
    <3>7. PICK x : B = {x}
      BY <3>4, <3>5, <3>6, FS_Singleton
    <3>8. m \in Int /\ S \subseteq Int
      BY <2>1, <3>1, <3>4
    <3>9. x = m
      BY <3>4, <3>5, <3>7, <3>8
    <3>10. \A g \in S : m <= g
      BY <3>5, <3>7, <3>8, <3>9
    <3> QED
      BY <3>1, <3>4, <3>10
  <2> QED
    BY <2>2 DEF LowestFd
<1>3. ~ok => fd = NoFd
  OBVIOUS
<1>4. ok \in BOOLEAN
  OBVIOUS
<1> HIDE DEF ok, fd
<1>5. RingInv(ring', clients, fd_to_slot) /\ AcceptsOf(ring') = AcceptsOf(ring)
  <2>1. PICK k, d : k = ok /\ d = fd
    OBVIOUS
  <2>2. PICK e : e = [AcceptSqe EXCEPT !.fd = d, !.res = IF k THEN "ok" ELSE "error"]
    OBVIOUS
  <2>3. PICK r2 : r2 = Post([ring EXCEPT !.accepts = @ - 1,
                                         !.open = @ \cup (IF k THEN {d} ELSE {})], e)
    OBVIOUS
  <2>4. k \in BOOLEAN /\ (k => d \in Fds \ ring.open) /\ (~k => d = NoFd)
    BY <1>2, <1>3, <1>4, <2>1
  <2>5. RingInv(r2, clients, fd_to_slot) /\ AcceptsOf(r2) = AcceptsOf(ring)
    <3>1. Answers(ring, k, d, e, r2)
      BY <2>2, <2>3 DEF Answers
    <3> QED
      BY <1>1, <2>4, <3>1, AcceptKeeps
  <2>6. ring' = r2
    BY <1>1, <2>1, <2>2, <2>3
  <2> QED
    BY <2>5, <2>6
<1>6. ring'.sq = ring.sq
  BY <1>1 DEF Rings, Post
<1>7. UNCHANGED <<pc, cur, processed, sweep_due, clients, fd_to_slot, free_slots,
                  recv_free, stolen, recv_retry, accept_pending>>
  BY <1>1 DEF KernelOnly
<1>8. Types'
  BY <1>7 DEF IInv, Types
<1>9. PhaseOK(pc', cur', clients', ring')
  BY <1>6, <1>7 DEF IInv, PhaseOK
<1> QED
  BY <1>5, <1>7, <1>8, <1>9 DEF IInv

LEMMA StepCompletes ==
  ASSUME IInv, NEW req \in ring.pending, NEW res,
         (KernelRecv(req, res) /\ res \in {"data", "end"}) \/ KernelOther(req)
  PROVE  IInv'
<1>1. RingInv(ring, clients, fd_to_slot) /\ RingOK(ring) /\ ring \in Rings
  BY DEF IInv, RingInv, RingOK
<1>2. PICK s : /\ s \in {"data", "end", "done"}
               /\ req.op = "RECV" => s \in {"data", "end"}
               /\ ring' = Post([ring EXCEPT !.pending = @ \ {req}], [req EXCEPT !.res = s])
  BY DEF KernelRecv, KernelOther, Completes
<1>3. RingInv(ring', clients, fd_to_slot) /\ AcceptsOf(ring') = AcceptsOf(ring)
  <2>1. PICK e : e = [req EXCEPT !.res = s]
    OBVIOUS
  <2>2. PICK r2 : r2 = Post([ring EXCEPT !.pending = @ \ {req}], e)
    OBVIOUS
  <2>3. RingInv(r2, clients, fd_to_slot) /\ AcceptsOf(r2) = AcceptsOf(ring)
    <3>1. Completed(ring, req, s, e, r2)
      BY <2>1, <2>2 DEF Completed
    <3> QED
      BY <1>1, <1>2, <3>1, CompletionKeeps
  <2>4. ring' = r2
    BY <1>2, <2>1, <2>2
  <2> QED
    BY <2>3, <2>4
<1>4. ring'.sq = ring.sq
  BY <1>1, <1>2 DEF Rings, Post
<1>5. UNCHANGED <<pc, cur, processed, sweep_due, clients, fd_to_slot, free_slots,
                  recv_free, stolen, recv_retry, accept_pending>>
  BY DEF KernelRecv, KernelOther, KernelOnly
<1>6. Types'
  BY <1>5 DEF IInv, Types
<1>7. PhaseOK(pc', cur', clients', ring')
  BY <1>4, <1>5 DEF IInv, PhaseOK
<1> QED
  BY <1>3, <1>5, <1>6, <1>7 DEF IInv

-------------------------------------------------------------------------------
(* What the remaining steps share.                                             *)

(* A change of one slot that keeps its buffer.                                 *)
LEMMA BufsKept ==
  ASSUME NEW cls, NEW cls2, NEW pool, NEW kept, BufsOK(cls, pool, kept), NEW c \in Slots,
         Only(cls, cls2, c), IsConnected(cls2[c]) <=> IsConnected(cls[c]),
         cls2[c].recv_buf_idx = cls[c].recv_buf_idx
  PROVE  BufsOK(cls2, pool, kept)
<1>1. \A d \in Slots : /\ cls2[d].recv_buf_idx = cls[d].recv_buf_idx
                       /\ IsConnected(cls2[d]) <=> IsConnected(cls[d])
  BY DEF Only
<1> QED
  BY <1>1 DEF BufsOK

(* One slot changes, and the slot being handled is it or none before and after. *)
LEMMA SlotsKept ==
  ASSUME NEW cls, NEW cls2, NEW cu, NEW cu2, NEW retry, NEW free, SlotsInv(cls, cu, retry, free),
         NEW c \in Slots, Only(cls, cls2, c), cu \in {c, NoSlot}, cu2 \in {c, NoSlot},
         SlotOK(c, cls2[c], cu2, retry, free)
  PROVE  SlotsInv(cls2, cu2, retry, free)
<1>1. ASSUME NEW d \in Slots, d # c
      PROVE  SlotOK(d, cls2[d], cu2, retry, free)
  <2>1. SlotOK(d, cls[d], cu, retry, free) /\ cls2[d] = cls[d]
    BY <1>1 DEF SlotsInv, Only
  <2>2. d # cu /\ d # cu2
    BY <1>1, NoBufNotBuf
  <2> QED
    BY <2>1, <2>2 DEF SlotOK
<1> QED
  BY <1>1 DEF SlotsInv

(* What a submission of a receive leaves of the slots and the retry ring.      *)
LEMMA RecvSlots ==
  ASSUME NEW cls, NEW cls2, NEW c \in Slots, Only(cls, cls2, c),
         NEW cu, cu \in {c, NoSlot}, NEW q0, NEW q \in Seq(Slots), Distinct(q), ~InSeq(c, q),
         \A d : d # c => (InSeq(d, q) <=> InSeq(d, q0)),
         NEW free, NEW free2, SlotsInv(cls, cu, q0, free),
         \A d : InSeq(d, free2) => InSeq(d, free) /\ d # c,
         NEW cl, NEW s, RecvOutcome(cl, s), cls2[c] = s.client,
         cl.orphaned_recv_buf_idx = NoBuf, cl.fd # NoFd,
         NEW q2, q2 = Retried(q, c, s)
  PROVE  q2 \in Seq(Slots) /\ Distinct(q2) /\ SlotsInv(cls2, NoSlot, q2, free2)
<1>1. PICK qe : qe = RetryEnqueue(q, c)
  OBVIOUS
<1>2. qe \in Seq(Slots) /\ Distinct(qe) /\ \A d : InSeq(d, qe) <=> InSeq(d, q) \/ d = c
  BY <1>1, RetryEnqueued
<1>3. q2 = IF s.sq_full THEN qe ELSE q
  BY <1>1 DEF Retried
<1>4. q2 \in Seq(Slots) /\ Distinct(q2)
  BY <1>2, <1>3
<1>5. /\ \A d : d # c => (InSeq(d, q2) <=> InSeq(d, q0))
      /\ InSeq(c, q2) <=> s.sq_full
  BY <1>2, <1>3
<1>6. c # NoSlot
  BY NoBufNotBuf
<1>7. SlotOK(c, cls2[c], NoSlot, q2, free2)
  <2>1. /\ s.client.orphaned_recv_buf_idx = NoBuf /\ s.client.fd # NoFd
        /\ IsConnected(s.client) /\ ~InSeq(c, free2)
    BY DEF RecvOutcome, IsConnected
  <2>2. s.client.recv_pending => s.client.state = "ACTIVE"
    BY DEF RecvOutcome
  <2>3. s.client.state = "ACTIVE" => s.client.recv_pending \/ s.sq_full
    BY DEF RecvOutcome
  <2>4. s.sq_full => s.client.state = "ACTIVE" /\ ~s.client.recv_pending
    BY DEF RecvOutcome
  <2> QED
    BY <1>5, <1>6, <2>1, <2>2, <2>3, <2>4 DEF SlotOK
<1>8. ASSUME NEW d \in Slots, d # c
      PROVE  SlotOK(d, cls2[d], NoSlot, q2, free2)
  <2>1. SlotOK(d, cls[d], cu, q0, free) /\ cls2[d] = cls[d]
    BY <1>8 DEF SlotsInv, Only
  <2>2. d # cu /\ d # NoSlot /\ (InSeq(d, q2) <=> InSeq(d, q0))
        /\ (InSeq(d, free2) => InSeq(d, free))
    BY <1>5, <1>8, NoBufNotBuf
  <2> QED
    BY <2>1, <2>2 DEF SlotOK
<1> QED
  BY <1>4, <1>7, <1>8 DEF SlotsInv

(* What holds when a completion is dispatched.                                 *)
LEMMA Dispatching ==
  ASSUME IInv, NEW op, Dispatch(op)
  PROVE  /\ RingInv(ring, clients, fd_to_slot) /\ accept_pending = AcceptsOf(ring)
         /\ ring.seen > 0 /\ Head(ring.cq).op = op /\ cur = NoSlot /\ pc = "dispatch"
         /\ processed' \in BOOLEAN /\ sweep_due' \in BOOLEAN /\ Types
BY DEF IInv, Dispatch, PhaseOK, Types

-------------------------------------------------------------------------------
(* The accepts.                                                                *)

LEMMA StepRejected == ASSUME ~Reorder, IInv, AcceptRejected PROVE IInv'
<1>1. Dispatch("ACCEPT")
  BY DEF AcceptRejected
<1>2. /\ RingInv(ring, clients, fd_to_slot) /\ accept_pending = AcceptsOf(ring)
      /\ ring.seen > 0 /\ Head(ring.cq).op = "ACCEPT" /\ cur = NoSlot /\ pc = "dispatch"
      /\ processed' \in BOOLEAN /\ sweep_due' \in BOOLEAN /\ Types
  BY <1>1, Dispatching
<1>3. PICK r3 : r3 = [CqAdvance(ring) EXCEPT !.open = @ \ {Head(ring.cq).fd}]
  OBVIOUS
<1>4. RingInv(r3, clients, fd_to_slot) /\ AcceptsOf(r3) = AcceptsOf(ring) - 1
  BY <1>2, <1>3, AcceptRefused
<1>5. AcceptSubmitted(r3, accept_pending - 1, ring', accept_pending')
  BY <1>3 DEF AcceptRejected, SubmitAccept, AcceptSubmitted, Rest, Cqe
<1>6. PICK n : n = accept_pending - 1
  OBVIOUS
<1>7. RingInv(ring', clients, fd_to_slot) /\ accept_pending' = AcceptsOf(ring')
  BY <1>2, <1>4, <1>5, <1>6, AcceptSubmission
<1>8. UNCHANGED <<pc, cur, clients, fd_to_slot, free_slots, recv_free, stolen, recv_retry>>
  BY DEF AcceptRejected
<1>9. Types'
  BY <1>2, <1>8 DEF Types
<1>10. PhaseOK(pc', cur', clients', ring')
  BY <1>2, <1>8 DEF PhaseOK
<1>11. BufsOK(clients', recv_free', stolen') /\ SlotsInv(clients', cur', recv_retry', free_slots')
  BY <1>8 DEF IInv
<1> QED
  BY <1>7, <1>8, <1>9, <1>10, <1>11 DEF IInv

LEMMA InstallType ==
  ASSUME NEW cl \in Clients, NEW f \in Fds, NEW buf \in Bufs, cl.orphaned_recv_buf_idx = NoBuf,
         NEW cl2, cl2 = ClientInit(cl, f, buf)
  PROVE  /\ cl2 \in Clients /\ cl2.state = "ACTIVE" /\ cl2.fd = f /\ cl2.recv_buf_idx = buf
         /\ ~cl2.recv_pending /\ cl2.orphaned_recv_buf_idx = NoBuf
<1>1. cl.generation \in Nat
  BY LoopAssumption DEF Clients
<1>2. (cl.generation + 1) % GenMod \in 0 .. GenMod - 1
  BY <1>1, LoopAssumption
<1> QED
  BY <1>2 DEF ClientInit, FreeClient, Clients

LEMMA StepAccept == ASSUME ~Reorder, IInv, AcceptCqe PROVE IInv'
<1>1. Dispatch("ACCEPT")
  BY DEF AcceptCqe
<1>2. /\ RingInv(ring, clients, fd_to_slot) /\ accept_pending = AcceptsOf(ring)
      /\ ring.seen > 0 /\ Head(ring.cq).op = "ACCEPT" /\ cur = NoSlot /\ pc = "dispatch"
      /\ processed' \in BOOLEAN /\ sweep_due' \in BOOLEAN /\ Types
  BY <1>1, Dispatching
<1>3. PICK c, f, r2 : c = Head(free_slots) /\ f = Head(ring.cq).fd /\ r2 = CqAdvance(ring)
  OBVIOUS
<1>4. PICK buf, cl :
        /\ buf \in recv_free /\ cl = ClientInit(clients[c], f, buf)
        /\ \E s \in RecvSubmissions(r2, c, cl) :
             /\ clients' = [clients EXCEPT ![c] = s.client]
             /\ recv_free' = recv_free \ {buf}
             /\ fd_to_slot' = [fd_to_slot EXCEPT ![f] = c]
             /\ recv_retry' = Retried(recv_retry, c, s)
             /\ SubmitAccept(s.ring, accept_pending - 1)
  BY <1>3 DEF AcceptCqe, Cqe, Rest
<1>5. PICK s \in RecvSubmissions(r2, c, cl) :
        /\ clients' = [clients EXCEPT ![c] = s.client]
        /\ recv_free' = recv_free \ {buf}
        /\ fd_to_slot' = [fd_to_slot EXCEPT ![f] = c]
        /\ recv_retry' = Retried(recv_retry, c, s)
        /\ SubmitAccept(s.ring, accept_pending - 1)
  BY <1>4
<1>6. /\ Head(ring.cq).res = "ok" /\ free_slots # << >> /\ free_slots' = Tail(free_slots)
      /\ UNCHANGED <<pc, cur, stolen>>
  BY DEF AcceptCqe, Cqe, NoRoomFor
<1>7. /\ c \in Slots /\ InSeq(c, free_slots)
      /\ Tail(free_slots) \in Seq(Slots) /\ Distinct(Tail(free_slots))
      /\ \A d : InSeq(d, Tail(free_slots)) => InSeq(d, free_slots) /\ d # c
  BY <1>2, <1>3, <1>6, ListHead DEF Types
<1>8. /\ clients[c] \in Clients /\ clients[c].state = "FREE" /\ ~clients[c].recv_pending
      /\ clients[c].orphaned_recv_buf_idx = NoBuf /\ ~InSeq(c, recv_retry)
  <2>1. clients[c] \in Clients /\ SlotOK(c, clients[c], cur, recv_retry, free_slots)
    BY <1>7, Open
  <2> QED
    BY <1>7, <2>1 DEF SlotOK
<1>9. f \in Fds
  <2>1. Head(ring.cq).res = "ok" => Head(ring.cq).fd \in Fds
    BY <1>2, <1>3, AcceptDispatched
  <2> QED
    BY <1>3, <1>6, <2>1
<1>10. buf \in Bufs /\ buf \in recv_free
  BY <1>2, <1>4 DEF Types
<1>11. /\ cl \in Clients /\ cl.state = "ACTIVE" /\ cl.fd = f /\ cl.recv_buf_idx = buf
       /\ ~cl.recv_pending /\ cl.orphaned_recv_buf_idx = NoBuf
  BY <1>4, <1>8, <1>9, <1>10, InstallType
<1>12. PICK cls1 : cls1 = [clients EXCEPT ![c] = cl]
  OBVIOUS
<1>13. cls1[c] = cl /\ Only(clients, cls1, c)
  BY <1>2, <1>7, <1>12 DEF Types, Only
<1>14. PICK f2s : f2s = [fd_to_slot EXCEPT ![f] = c]
  OBVIOUS
<1>15. f2s[f] = c /\ \A g \in Fds : g # f => f2s[g] = fd_to_slot[g]
  BY <1>2, <1>9, <1>14 DEF Types
<1>16. RingInv(r2, cls1, f2s) /\ AcceptsOf(r2) = AcceptsOf(ring) - 1
  BY <1>2, <1>3, <1>6, <1>7, <1>8, <1>11, <1>13, <1>15, AcceptInstalled
<1>17. PICK cls2 : cls2 = [clients EXCEPT ![c] = s.client]
  OBVIOUS
<1>18. cls2[c] = s.client /\ Only(cls1, cls2, c) /\ Only(clients, cls2, c)
  BY <1>2, <1>7, <1>12, <1>17 DEF Types, Only
<1>19. cl.fd \in Fds
  BY <1>9, <1>11
<1>20. /\ RingInv(s.ring, cls2, f2s) /\ AcceptsOf(s.ring) = AcceptsOf(r2)
       /\ RecvOutcome(cl, s)
  BY <1>7, <1>11, <1>13, <1>16, <1>18, <1>19, RecvSubmission
<1>21. RingInv(ring', clients', fd_to_slot') /\ accept_pending' = AcceptsOf(ring')
  <2>1. AcceptSubmitted(s.ring, accept_pending - 1, ring', accept_pending')
    BY <1>5 DEF SubmitAccept, AcceptSubmitted
  <2>2. PICK n, r3 : n = accept_pending - 1 /\ r3 = s.ring
    OBVIOUS
  <2>3. RingInv(ring', cls2, f2s) /\ accept_pending' = AcceptsOf(ring')
    BY <1>2, <1>16, <1>20, <2>1, <2>2, AcceptSubmission
  <2> QED
    BY <1>5, <1>14, <1>17, <2>3
<1>22. /\ recv_retry' \in Seq(Slots) /\ Distinct(recv_retry')
       /\ SlotsInv(clients', NoSlot, recv_retry', free_slots')
  <2>1. PICK q2 : q2 = Retried(recv_retry, c, s)
    OBVIOUS
  <2>2. SlotsInv(clients, cur, recv_retry, free_slots) /\ recv_retry \in Seq(Slots) /\ Distinct(recv_retry)
    BY DEF IInv, Types
  <2>3. cl.fd # NoFd
    BY <1>19, NoBufNotBuf
  <2>4. q2 \in Seq(Slots) /\ Distinct(q2) /\ SlotsInv(cls2, NoSlot, q2, Tail(free_slots))
    BY <1>2, <1>7, <1>8, <1>11, <1>18, <1>20, <2>1, <2>2, <2>3, RecvSlots
  <2> QED
    BY <1>5, <1>6, <1>17, <2>1, <2>4
<1>23. BufsOK(clients', recv_free', stolen')
  <2>1. BufsOK(clients, recv_free, stolen) /\ recv_free \subseteq Bufs
    BY DEF IInv, Types
  <2>2. ~IsConnected(clients[c])
    BY <1>8 DEF IsConnected
  <2>3. /\ cls2[c].recv_buf_idx = buf /\ IsConnected(cls2[c])
        /\ \A d \in Slots : d # c => cls2[d] = clients[d]
    BY <1>11, <1>18, <1>20 DEF RecvOutcome, IsConnected, Only
  <2>4. clients[c].recv_buf_idx = NoBuf
    BY <1>7, <2>1, <2>2 DEF BufsOK
  <2>5. BufsOK(cls2, recv_free \ {buf}, stolen)
    BY <1>7, <1>10, <2>1, <2>3, <2>4, NoBufNotBuf DEF BufsOK
  <2> QED
    BY <1>5, <1>6, <1>17, <2>5
<1>24. Types'
  <2>1. clients' \in [Slots -> Clients]
    BY <1>2, <1>5, <1>20 DEF Types, RecvOutcome
  <2>2. fd_to_slot' \in [Fds -> Slots \cup {NoSlot}]
    BY <1>2, <1>5, <1>7 DEF Types
  <2> QED
    BY <1>2, <1>5, <1>6, <1>7, <1>22, <2>1, <2>2 DEF Types
<1>25. PhaseOK(pc', cur', clients', ring')
  BY <1>2, <1>6 DEF PhaseOK
<1> QED
  BY <1>2, <1>6, <1>21, <1>22, <1>23, <1>24, <1>25 DEF IInv

-------------------------------------------------------------------------------
(* The receives: the packets in a buffer, and what follows them.               *)

LEMMA StepRecv == ASSUME ~Reorder, IInv, RecvCqe PROVE IInv'
<1>1. Dispatch("RECV")
  BY DEF RecvCqe
<1>2. /\ RingInv(ring, clients, fd_to_slot) /\ accept_pending = AcceptsOf(ring)
      /\ ring.seen > 0 /\ Head(ring.cq).op = "RECV" /\ cur = NoSlot /\ pc = "dispatch"
      /\ processed' \in BOOLEAN /\ sweep_due' \in BOOLEAN /\ Types
  BY <1>1, Dispatching
<1>3. PICK c, r2 : c = Head(ring.cq).slot /\ r2 = CqAdvance(ring)
  OBVIOUS
<1>4. /\ c \in Slots /\ OwnRecv(Head(ring.cq), clients[c]) /\ clients[c].recv_pending
      /\ clients[c].fd \in Fds
      /\ \A cls2 : (Only(clients, cls2, c) /\ SameConnection(clients[c], cls2[c])
                      /\ ~cls2[c].recv_pending) => RingInv(r2, cls2, fd_to_slot)
      /\ AcceptsOf(r2) = AcceptsOf(ring)
  <2>1. RecvSettled(ring, clients, fd_to_slot, r2, c)
    BY <1>2, <1>3, RecvDispatched
  <2> QED
    BY <2>1 DEF RecvSettled
<1>5. /\ clients[c] \in Clients /\ clients[c].state = "ACTIVE" /\ ~InSeq(c, recv_retry)
      /\ ~InSeq(c, free_slots) /\ clients[c].orphaned_recv_buf_idx = NoBuf
  <2>1. clients[c] \in Clients /\ SlotOK(c, clients[c], cur, recv_retry, free_slots)
    BY <1>4, Open
  <2> QED
    BY <1>4, <2>1 DEF SlotOK
<1>6. RecvEnd \/ RecvData
  BY <1>3, <1>4, <1>5 DEF RecvCqe, ForActive, IsStale, OwnRecv, Cqe
<1>7. PICK cl1 : cl1 = [clients[c] EXCEPT !.recv_pending = FALSE]
  OBVIOUS
<1>8. /\ cl1 \in Clients /\ ~cl1.recv_pending /\ SameConnection(clients[c], cl1)
      /\ cl1.state = "ACTIVE" /\ cl1.recv_buf_idx = clients[c].recv_buf_idx
      /\ cl1.fd = clients[c].fd /\ cl1.generation = clients[c].generation
      /\ cl1.orphaned_recv_buf_idx = NoBuf
  BY <1>5, <1>7 DEF Clients, SameConnection, IsConnected
<1>9. PICK cls1 : cls1 = [clients EXCEPT ![c] = cl1]
  OBVIOUS
<1>10. cls1[c] = cl1 /\ Only(clients, cls1, c) /\ cls1 \in [Slots -> Clients]
  BY <1>2, <1>4, <1>8, <1>9 DEF Types, Only
<1>11. RingInv(r2, cls1, fd_to_slot)
  BY <1>4, <1>8, <1>10
<1>12. clients[c].fd # NoFd
  BY <1>4, NoBufNotBuf
<1>13. BufsOK(clients, recv_free, stolen) /\ SlotsInv(clients, cur, recv_retry, free_slots)
  BY DEF IInv
<1>14. c # NoSlot
  BY <1>4, NoBufNotBuf
<1>15. CASE RecvEnd
  <2>1. PICK cl2 : cl2 = [cl1 EXCEPT !.state = "CLOSING"]
    OBVIOUS
  <2>2. PICK cls2 : cls2 = [clients EXCEPT ![c] = cl2]
    OBVIOUS
  <2>3. /\ cl2 \in Clients /\ cl2.state = "CLOSING" /\ ~cl2.recv_pending
        /\ cl2.recv_buf_idx = cl1.recv_buf_idx /\ cl2.fd = cl1.fd
        /\ SameConnection(cl1, cl2) /\ cl2.orphaned_recv_buf_idx = NoBuf
    BY <1>8, <2>1 DEF Clients, SameConnection, IsConnected
  <2>4. /\ cls2[c] = cl2 /\ Only(cls1, cls2, c) /\ Only(clients, cls2, c)
        /\ cls2 \in [Slots -> Clients]
    BY <1>2, <1>4, <1>9, <2>2, <2>3 DEF Types, Only
  <2>5. clients' = cls2
    BY <1>2, <1>3, <1>7, <1>15, <2>1, <2>2 DEF RecvEnd, Cqe, Types, Clients
  <2>6. PICK cl : cl = clients[c]
    OBVIOUS
  <2>7. ring' \in Submitted(r2, CloseSqe(c, cl))
    BY <1>3, <1>15, <2>6 DEF RecvEnd, Cqe, Rest
  <2>8. RingInv(ring', cls2, fd_to_slot) /\ AcceptsOf(ring') = AcceptsOf(r2)
    <3>1. cl \in Clients /\ cl.fd \in Fds /\ cl.fd = cls1[c].fd /\ cl.generation = cls1[c].generation
      BY <1>4, <1>5, <1>8, <1>10, <2>6
    <3>2. /\ cls1[c].state # "CLOSING" /\ SameConnection(cls1[c], cls2[c])
          /\ cls2[c].state = "CLOSING" /\ (cls2[c].recv_pending <=> cls1[c].recv_pending)
          /\ cls2[c].recv_buf_idx = cls1[c].recv_buf_idx
      BY <1>8, <1>10, <2>3, <2>4
    <3> QED
      BY <1>4, <1>11, <2>4, <2>7, <3>1, <3>2, CloseSubmission
  <2>9. UNCHANGED <<pc, cur, fd_to_slot, free_slots, recv_free, stolen, recv_retry, accept_pending>>
    BY <1>15 DEF RecvEnd
  <2>10. BufsOK(cls2, recv_free, stolen)
    <3>1. IsConnected(cls2[c]) /\ IsConnected(clients[c]) /\ cls2[c].recv_buf_idx = clients[c].recv_buf_idx
      BY <1>5, <1>8, <2>3, <2>4 DEF IsConnected
    <3> QED
      BY <1>4, <1>13, <2>4, <3>1, BufsKept
  <2>11. SlotsInv(cls2, cur, recv_retry, free_slots)
    <3>1. SlotOK(c, cls2[c], cur, recv_retry, free_slots)
      BY <1>5, <1>8, <1>12, <2>3, <2>4 DEF SlotOK, IsConnected
    <3> QED
      BY <1>2, <1>4, <1>13, <2>4, <3>1, SlotsKept
  <2>12. Types'
    BY <1>2, <2>4, <2>5, <2>9 DEF Types
  <2>13. PhaseOK(pc', cur', clients', ring')
    BY <1>2, <2>9 DEF PhaseOK
  <2> QED
    BY <1>2, <1>4, <2>5, <2>8, <2>9, <2>10, <2>11, <2>12, <2>13 DEF IInv
<1>16. CASE RecvData
  <2>1. ring' = r2 /\ cur' = c /\ pc' = "packets"
        /\ UNCHANGED <<fd_to_slot, free_slots, recv_free, stolen, recv_retry, accept_pending>>
    BY <1>3, <1>16 DEF RecvData, Cqe, Rest
  <2>2. clients' = cls1
    BY <1>2, <1>3, <1>7, <1>9, <1>16 DEF RecvData, Cqe
  <2>3. BufsOK(cls1, recv_free, stolen)
    <3>1. IsConnected(cls1[c]) /\ IsConnected(clients[c]) /\ cls1[c].recv_buf_idx = clients[c].recv_buf_idx
      BY <1>5, <1>8, <1>10 DEF IsConnected
    <3> QED
      BY <1>4, <1>10, <1>13, <3>1, BufsKept
  <2>4. SlotsInv(cls1, c, recv_retry, free_slots)
    <3>1. SlotOK(c, cls1[c], c, recv_retry, free_slots)
      BY <1>5, <1>8, <1>10, <1>12 DEF SlotOK, IsConnected
    <3> QED
      BY <1>2, <1>4, <1>10, <1>13, <3>1, SlotsKept
  <2>5. Types'
    BY <1>2, <1>4, <1>10, <2>1, <2>2 DEF Types, Phases
  <2>6. PhaseOK(pc', cur', clients', ring')
    BY <1>4, <1>8, <1>10, <1>14, <2>1, <2>2 DEF PhaseOK
  <2> QED
    BY <1>2, <1>4, <1>11, <2>1, <2>2, <2>3, <2>4, <2>5, <2>6 DEF IInv
<1> QED
  BY <1>6, <1>15, <1>16

(* What holds while the packets of slot cur are processed.                     *)
LEMMA Handling ==
  ASSUME IInv, pc = "packets"
  PROVE  /\ RingInv(ring, clients, fd_to_slot) /\ accept_pending = AcceptsOf(ring) /\ Types
         /\ BufsOK(clients, recv_free, stolen) /\ SlotsInv(clients, cur, recv_retry, free_slots)
         /\ cur \in Slots /\ cur # NoSlot
         /\ clients[cur] \in Clients /\ clients[cur].state = "ACTIVE" /\ ~clients[cur].recv_pending
         /\ clients[cur].fd \in Fds /\ clients[cur].fd # NoFd
         /\ clients[cur].recv_buf_idx \in Bufs
         /\ clients[cur].orphaned_recv_buf_idx = NoBuf
         /\ ~InSeq(cur, recv_retry) /\ ~InSeq(cur, free_slots)
<1>1. /\ RingInv(ring, clients, fd_to_slot) /\ accept_pending = AcceptsOf(ring) /\ Types
      /\ BufsOK(clients, recv_free, stolen) /\ SlotsInv(clients, cur, recv_retry, free_slots)
      /\ cur \in Slots /\ clients[cur].state = "ACTIVE" /\ ~clients[cur].recv_pending
  BY DEF IInv, PhaseOK
<1>2. clients[cur] \in Clients /\ SlotOK(cur, clients[cur], cur, recv_retry, free_slots)
  BY <1>1 DEF SlotsInv, Types
<1>3. clients[cur].fd \in Fds /\ clients[cur].recv_buf_idx \in Bufs
  BY <1>1, Open DEF IsConnected
<1>4. /\ clients[cur].orphaned_recv_buf_idx = NoBuf
      /\ ~InSeq(cur, recv_retry) /\ ~InSeq(cur, free_slots)
  BY <1>1, <1>2 DEF SlotOK
<1> QED
  BY <1>1, <1>2, <1>3, <1>4, NoBufNotBuf

LEMMA StepPublish ==
  ASSUME ~Reorder, IInv, NEW kept \in BOOLEAN, Publish(kept) PROVE IInv'
<1>1. pc = "packets"
  BY DEF Publish
<1>2. /\ RingInv(ring, clients, fd_to_slot) /\ accept_pending = AcceptsOf(ring) /\ Types
      /\ BufsOK(clients, recv_free, stolen) /\ SlotsInv(clients, cur, recv_retry, free_slots)
      /\ cur \in Slots /\ cur # NoSlot
      /\ clients[cur] \in Clients /\ clients[cur].state = "ACTIVE" /\ ~clients[cur].recv_pending
      /\ clients[cur].fd \in Fds /\ clients[cur].fd # NoFd
      /\ clients[cur].recv_buf_idx \in Bufs
      /\ clients[cur].orphaned_recv_buf_idx = NoBuf
      /\ ~InSeq(cur, recv_retry) /\ ~InSeq(cur, free_slots)
  BY <1>1, Handling
<1>3. PICK c, old : c = cur /\ old = clients[cur].recv_buf_idx
  OBVIOUS
<1>4. PICK buf \in recv_free :
        /\ clients' = [clients EXCEPT ![c].recv_buf_idx = buf]
        /\ recv_free' = (recv_free \ {buf}) \cup (IF kept THEN {} ELSE {old})
        /\ stolen' = stolen \cup (IF kept THEN {old} ELSE {})
  BY <1>3 DEF Publish
<1>5. /\ ring' = FlushSqes(ring)
      /\ UNCHANGED <<pc, cur, processed, sweep_due, fd_to_slot, free_slots, recv_retry,
                     accept_pending>>
  BY DEF Publish
<1>6. PICK cl : cl = [clients[c] EXCEPT !.recv_buf_idx = buf]
  OBVIOUS
<1>7. buf \in Bufs
  BY <1>2 DEF Types
<1>8. /\ cl \in Clients /\ cl.state = "ACTIVE" /\ ~cl.recv_pending /\ cl.recv_buf_idx = buf
      /\ cl.fd = clients[c].fd /\ SameConnection(clients[c], cl) /\ cl.orphaned_recv_buf_idx = NoBuf
  BY <1>2, <1>3, <1>6, <1>7 DEF Clients, SameConnection, IsConnected
<1>9. PICK cls2 : cls2 = [clients EXCEPT ![c] = cl]
  OBVIOUS
<1>10. cls2[c] = cl /\ Only(clients, cls2, c) /\ cls2 \in [Slots -> Clients]
  BY <1>2, <1>3, <1>8, <1>9 DEF Types, Only
<1>11. clients' = cls2
  BY <1>2, <1>3, <1>4, <1>6, <1>9 DEF Types
<1>12. RingInv(ring, cls2, fd_to_slot)
  BY <1>2, <1>3, <1>8, <1>10, ClientKeeps
<1>13. RingInv(ring', cls2, fd_to_slot) /\ AcceptsOf(ring') = AcceptsOf(ring)
  <2>1. PICK r2 : r2 = FlushSqes(ring)
    OBVIOUS
  <2>2. RingInv(r2, cls2, fd_to_slot) /\ AcceptsOf(r2) = AcceptsOf(ring)
    BY <1>12, <2>1, FlushKeeps DEF RingInv
  <2> QED
    BY <1>5, <2>1, <2>2
<1>14. BufsOK(cls2, recv_free', stolen')
  <2>1. PICK pool, held : pool = recv_free' /\ held = stolen'
    OBVIOUS
  <2>2. /\ cls2[c].recv_buf_idx = buf /\ IsConnected(cls2[c]) /\ IsConnected(clients[c])
        /\ \A d \in Slots : d # c => cls2[d] = clients[d]
    BY <1>2, <1>3, <1>8, <1>10 DEF IsConnected, Only
  <2>3. pool \cup held = (recv_free \ {buf}) \cup stolen \cup {old}
    BY <1>4, <2>1
  <2>4. pool \cap held = {}
    <3>1. old \notin recv_free /\ old \notin stolen
      BY <1>2, <1>3 DEF BufsOK
    <3> QED
      BY <1>2, <1>4, <2>1, <3>1 DEF BufsOK
  <2>5. \A d \in Slots : IsConnected(cls2[d]) <=> cls2[d].recv_buf_idx # NoBuf
    BY <1>2, <1>7, <2>2, NoBufNotBuf DEF BufsOK
  <2>6. \A d \in Slots : cls2[d].recv_buf_idx \notin pool \cup held
    <3> SUFFICES ASSUME NEW d \in Slots PROVE cls2[d].recv_buf_idx \notin pool \cup held
      OBVIOUS
    <3>1. CASE d = c
      <4>1. buf # old /\ buf \notin stolen
        BY <1>2, <1>3, <1>4 DEF BufsOK
      <4> QED
        BY <2>2, <2>3, <3>1, <4>1
    <3>2. CASE d # c
      <4>1. cls2[d].recv_buf_idx = clients[d].recv_buf_idx
        BY <2>2, <3>2
      <4>2. clients[d].recv_buf_idx \notin recv_free \cup stolen
        BY <1>2 DEF BufsOK
      <4>3. clients[d].recv_buf_idx # old
        BY <1>2, <1>3, <3>2, NoBufNotBuf DEF BufsOK
      <4> QED
        BY <2>3, <4>1, <4>2, <4>3
    <3> QED
      BY <3>1, <3>2
  <2>7. \A d, e \in Slots : d # e /\ cls2[d].recv_buf_idx = cls2[e].recv_buf_idx
                              => cls2[d].recv_buf_idx = NoBuf
    <3>1. \A d \in Slots : clients[d].recv_buf_idx # buf
      BY <1>2, <1>4 DEF BufsOK
    <3> QED
      BY <1>2, <2>2, <3>1 DEF BufsOK
  <2>8. \A b \in Bufs : b \in pool \/ b \in held \/ \E d \in Slots : cls2[d].recv_buf_idx = b
    <3> SUFFICES ASSUME NEW b \in Bufs
                 PROVE  b \in pool \cup held \/ \E d \in Slots : cls2[d].recv_buf_idx = b
      OBVIOUS
    <3>1. CASE b = buf
      BY <1>2, <1>3, <2>2, <3>1
    <3>2. CASE b = old
      BY <2>3, <3>2
    <3>3. CASE b # buf /\ b # old
      BY <1>2, <1>3, <2>2, <2>3, <3>3 DEF BufsOK
    <3> QED
      BY <3>1, <3>2, <3>3
  <2>9. BufsOK(cls2, pool, held)
    BY <2>4, <2>5, <2>6, <2>7, <2>8 DEF BufsOK
  <2> QED
    BY <2>1, <2>9
<1>15. SlotsInv(cls2, cur, recv_retry, free_slots)
  <2>1. SlotOK(c, cls2[c], c, recv_retry, free_slots)
    BY <1>2, <1>3, <1>8, <1>10 DEF SlotOK, IsConnected
  <2> QED
    BY <1>2, <1>3, <1>10, <2>1, SlotsKept
<1>16. Types'
  <2>1. recv_free' \subseteq Bufs /\ stolen' \subseteq Bufs
    BY <1>2, <1>3, <1>4 DEF Types
  <2> QED
    BY <1>2, <1>5, <1>10, <1>11, <2>1 DEF Types
<1>17. PhaseOK(pc', cur', clients', ring')
  BY <1>1, <1>2, <1>3, <1>5, <1>8, <1>10, <1>11 DEF PhaseOK
<1> QED
  BY <1>2, <1>5, <1>11, <1>13, <1>14, <1>15, <1>16, <1>17 DEF IInv

LEMMA StepPacketError == ASSUME ~Reorder, IInv, PacketError PROVE IInv'
<1>1. pc = "packets"
  BY DEF PacketError
<1>2. /\ RingInv(ring, clients, fd_to_slot) /\ accept_pending = AcceptsOf(ring) /\ Types
      /\ BufsOK(clients, recv_free, stolen) /\ SlotsInv(clients, cur, recv_retry, free_slots)
      /\ cur \in Slots /\ cur # NoSlot
      /\ clients[cur] \in Clients /\ clients[cur].state = "ACTIVE" /\ ~clients[cur].recv_pending
      /\ clients[cur].fd \in Fds /\ clients[cur].fd # NoFd
      /\ clients[cur].recv_buf_idx \in Bufs
      /\ clients[cur].orphaned_recv_buf_idx = NoBuf
      /\ ~InSeq(cur, recv_retry) /\ ~InSeq(cur, free_slots)
  BY <1>1, Handling
<1>3. PICK c, cl : c = cur /\ cl = clients[cur]
  OBVIOUS
<1>4. /\ clients' = [clients EXCEPT ![c].state = "CLOSING"]
      /\ ring' \in Submitted(ring, CloseSqe(c, cl))
      /\ pc' = "dispatch" /\ cur' = NoSlot
      /\ UNCHANGED <<processed, sweep_due, fd_to_slot, free_slots, recv_free, stolen, recv_retry,
                     accept_pending>>
  BY <1>3 DEF PacketError, SubmitClose, BackToDispatch
<1>5. PICK cl2 : cl2 = [cl EXCEPT !.state = "CLOSING"]
  OBVIOUS
<1>6. /\ cl2 \in Clients /\ cl2.state = "CLOSING" /\ ~cl2.recv_pending
      /\ cl2.recv_buf_idx = cl.recv_buf_idx /\ cl2.fd = cl.fd
      /\ SameConnection(cl, cl2) /\ cl2.orphaned_recv_buf_idx = NoBuf
  BY <1>2, <1>3, <1>5 DEF Clients, SameConnection, IsConnected
<1>7. PICK cls2 : cls2 = [clients EXCEPT ![c] = cl2]
  OBVIOUS
<1>8. cls2[c] = cl2 /\ Only(clients, cls2, c) /\ cls2 \in [Slots -> Clients]
  BY <1>2, <1>3, <1>6, <1>7 DEF Types, Only
<1>9. clients' = cls2
  BY <1>2, <1>3, <1>4, <1>5, <1>7 DEF Types
<1>10. RingInv(ring', cls2, fd_to_slot) /\ AcceptsOf(ring') = AcceptsOf(ring)
  <2>1. cl \in Clients /\ cl.fd \in Fds /\ cl.fd = clients[c].fd
        /\ cl.generation = clients[c].generation /\ c \in Slots /\ clients[c].state # "CLOSING"
    BY <1>2, <1>3
  <2>2. /\ SameConnection(clients[c], cls2[c])
        /\ cls2[c].state = "CLOSING" /\ (cls2[c].recv_pending <=> clients[c].recv_pending)
        /\ cls2[c].recv_buf_idx = clients[c].recv_buf_idx
    BY <1>2, <1>3, <1>6, <1>8
  <2> QED
    BY <1>2, <1>4, <1>8, <2>1, <2>2, CloseSubmission
<1>11. BufsOK(cls2, recv_free, stolen)
  <2>1. IsConnected(cls2[c]) /\ IsConnected(clients[c]) /\ cls2[c].recv_buf_idx = clients[c].recv_buf_idx
    BY <1>2, <1>3, <1>6, <1>8 DEF IsConnected
  <2> QED
    BY <1>2, <1>3, <1>8, <2>1, BufsKept
<1>12. SlotsInv(cls2, NoSlot, recv_retry, free_slots)
  <2>1. SlotOK(c, cls2[c], NoSlot, recv_retry, free_slots)
    BY <1>2, <1>3, <1>6, <1>8 DEF SlotOK, IsConnected
  <2> QED
    BY <1>2, <1>3, <1>8, <2>1, SlotsKept
<1>13. Types'
  BY <1>2, <1>4, <1>8, <1>9 DEF Types, Phases
<1>14. PhaseOK(pc', cur', clients', ring')
  BY <1>4 DEF PhaseOK
<1> QED
  BY <1>2, <1>4, <1>9, <1>10, <1>11, <1>12, <1>13, <1>14 DEF IInv

LEMMA StepPacketsDone ==
  ASSUME ~Reorder, IInv, NEW full \in BOOLEAN, PacketsDone(full) PROVE IInv'
<1>1. pc = "packets"
  BY DEF PacketsDone
<1>2. /\ RingInv(ring, clients, fd_to_slot) /\ accept_pending = AcceptsOf(ring) /\ Types
      /\ BufsOK(clients, recv_free, stolen) /\ SlotsInv(clients, cur, recv_retry, free_slots)
      /\ cur \in Slots /\ cur # NoSlot
      /\ clients[cur] \in Clients /\ clients[cur].state = "ACTIVE" /\ ~clients[cur].recv_pending
      /\ clients[cur].fd \in Fds /\ clients[cur].fd # NoFd
      /\ clients[cur].recv_buf_idx \in Bufs
      /\ clients[cur].orphaned_recv_buf_idx = NoBuf
      /\ ~InSeq(cur, recv_retry) /\ ~InSeq(cur, free_slots)
  BY <1>1, Handling
<1>3. PICK c, cl : c = cur /\ cl = [clients[cur] EXCEPT !.full = full]
  OBVIOUS
<1>4. PICK s \in RecvSubmissions(ring, c, cl) :
        /\ ring' = s.ring /\ clients' = [clients EXCEPT ![c] = s.client]
        /\ recv_retry' = Retried(recv_retry, c, s)
  BY <1>3 DEF PacketsDone
<1>5. /\ pc' = "dispatch" /\ cur' = NoSlot
      /\ UNCHANGED <<processed, sweep_due, fd_to_slot, free_slots, recv_free, stolen,
                     accept_pending>>
  BY DEF PacketsDone, BackToDispatch
<1>6. /\ cl \in Clients /\ cl.state = "ACTIVE" /\ ~cl.recv_pending
      /\ cl.recv_buf_idx = clients[c].recv_buf_idx /\ cl.fd = clients[c].fd
      /\ SameConnection(clients[c], cl) /\ cl.orphaned_recv_buf_idx = NoBuf
  BY <1>2, <1>3 DEF Clients, SameConnection, IsConnected
<1>7. PICK cls1, cls2 : cls1 = [clients EXCEPT ![c] = cl] /\ cls2 = [clients EXCEPT ![c] = s.client]
  OBVIOUS
<1>8. /\ cls1[c] = cl /\ Only(clients, cls1, c)
      /\ cls2[c] = s.client /\ Only(cls1, cls2, c) /\ Only(clients, cls2, c)
  BY <1>2, <1>3, <1>7 DEF Types, Only
<1>9. RingInv(ring, cls1, fd_to_slot)
  BY <1>2, <1>3, <1>6, <1>8, ClientKeeps
<1>10. cl.fd \in Fds /\ cl.fd # NoFd /\ c \in Slots
  BY <1>2, <1>3, <1>6
<1>11. /\ RingInv(s.ring, cls2, fd_to_slot) /\ AcceptsOf(s.ring) = AcceptsOf(ring)
       /\ RecvOutcome(cl, s)
  BY <1>6, <1>8, <1>9, <1>10, RecvSubmission
<1>12. /\ recv_retry' \in Seq(Slots) /\ Distinct(recv_retry')
       /\ SlotsInv(cls2, NoSlot, recv_retry', free_slots)
  <2>1. PICK q2 : q2 = Retried(recv_retry, c, s)
    OBVIOUS
  <2>2. /\ recv_retry \in Seq(Slots) /\ Distinct(recv_retry) /\ ~InSeq(c, recv_retry)
        /\ \A d : InSeq(d, free_slots) => InSeq(d, free_slots) /\ d # c
        /\ \A d : d # c => (InSeq(d, recv_retry) <=> InSeq(d, recv_retry))
        /\ cur \in {c, NoSlot} /\ SlotsInv(clients, cur, recv_retry, free_slots)
        /\ cl.orphaned_recv_buf_idx = NoBuf
    BY <1>2, <1>3, <1>6 DEF Types
  <2>3. q2 \in Seq(Slots) /\ Distinct(q2) /\ SlotsInv(cls2, NoSlot, q2, free_slots)
    BY <1>8, <1>10, <1>11, <2>1, <2>2, RecvSlots
  <2> QED
    BY <1>4, <2>1, <2>3
<1>13. BufsOK(cls2, recv_free, stolen)
  <2>1. IsConnected(cls2[c]) /\ IsConnected(clients[c]) /\ cls2[c].recv_buf_idx = clients[c].recv_buf_idx
    BY <1>2, <1>3, <1>6, <1>8, <1>11 DEF IsConnected, RecvOutcome
  <2> QED
    BY <1>2, <1>8, <1>10, <2>1, BufsKept
<1>14. clients' = cls2 /\ cls2 \in [Slots -> Clients]
  BY <1>2, <1>4, <1>7, <1>11 DEF RecvOutcome, Types
<1>15. Types'
  BY <1>2, <1>5, <1>12, <1>14 DEF Types, Phases
<1>16. PhaseOK(pc', cur', clients', ring')
  BY <1>5 DEF PhaseOK
<1> QED
  BY <1>2, <1>4, <1>5, <1>11, <1>12, <1>13, <1>14, <1>15, <1>16 DEF IInv

-------------------------------------------------------------------------------
(* The writevs and the responses.                                              *)

LEMMA StepEgress == ASSUME ~Reorder, IInv, NEW c \in Slots, Egress(c) PROVE IInv'
<1>1. /\ RingInv(ring, clients, fd_to_slot) /\ accept_pending = AcceptsOf(ring) /\ Types
      /\ BufsOK(clients, recv_free, stolen) /\ SlotsInv(clients, cur, recv_retry, free_slots)
      /\ PhaseOK(pc, cur, clients, ring)
  BY DEF IInv
<1>2. PICK cl : cl = clients[c]
  OBVIOUS
<1>3. /\ ring' = Prepare(ring, WritevSqe(c, cl)) /\ cl.state = "ACTIVE"
      /\ clients' = [clients EXCEPT ![c].egress_inflight = TRUE]
      /\ pc # "blocked"
      /\ UNCHANGED <<pc, cur, processed, sweep_due, fd_to_slot, free_slots, recv_free, stolen,
                     recv_retry, accept_pending>>
  BY <1>2 DEF Egress
<1>4. cl \in Clients /\ SlotOK(c, cl, cur, recv_retry, free_slots) /\ cl.fd \in Fds
  BY <1>2, <1>3, Open DEF IsConnected
<1>5. PICK cl2 : cl2 = [cl EXCEPT !.egress_inflight = TRUE]
  OBVIOUS
<1>6. /\ cl2 \in Clients /\ SameConnection(cl, cl2) /\ cl2.state = cl.state
      /\ cl2.recv_pending = cl.recv_pending /\ cl2.recv_buf_idx = cl.recv_buf_idx
      /\ cl2.orphaned_recv_buf_idx = cl.orphaned_recv_buf_idx /\ cl2.fd = cl.fd
  BY <1>4, <1>5 DEF Clients, SameConnection, IsConnected
<1>7. PICK cls2 : cls2 = [clients EXCEPT ![c] = cl2]
  OBVIOUS
<1>8. cls2[c] = cl2 /\ Only(clients, cls2, c) /\ cls2 \in [Slots -> Clients] /\ clients' = cls2
  BY <1>1, <1>2, <1>3, <1>5, <1>6, <1>7 DEF Types, Only
<1>9. RingInv(ring, cls2, fd_to_slot)
  BY <1>1, <1>2, <1>6, <1>8, ClientKeeps
<1>10. RingInv(ring', cls2, fd_to_slot) /\ AcceptsOf(ring') = AcceptsOf(ring)
  <2>1. PICK r2 : r2 = Prepare(ring, WritevSqe(c, cl))
    OBVIOUS
  <2>2. RingInv(r2, cls2, fd_to_slot) /\ AcceptsOf(r2) = AcceptsOf(ring)
    BY <1>4, <1>9, <2>1, AddedSend DEF WritevSqe
  <2> QED
    BY <1>3, <2>1, <2>2
<1>11. BufsOK(cls2, recv_free, stolen)
  <2>1. IsConnected(cls2[c]) <=> IsConnected(clients[c])
    BY <1>2, <1>6, <1>8 DEF IsConnected
  <2> QED
    BY <1>1, <1>2, <1>6, <1>8, <2>1, BufsKept
<1>12. SlotsInv(cls2, cur, recv_retry, free_slots)
  <2>1. SlotOK(c, cls2[c], cur, recv_retry, free_slots)
    BY <1>4, <1>6, <1>8 DEF SlotOK, IsConnected
  <2> QED
    BY <1>1, <1>8, <2>1 DEF SlotsInv, Only
<1>13. Types'
  BY <1>1, <1>3, <1>8 DEF Types
<1>14. PhaseOK(pc, cur, cls2, ring')
  <2>1. cur \in Slots => /\ cls2[cur].state = clients[cur].state
                         /\ cls2[cur].recv_pending = clients[cur].recv_pending
    BY <1>2, <1>6, <1>8 DEF Only
  <2> QED
    BY <1>1, <1>3, <2>1 DEF PhaseOK
<1> QED
  BY <1>1, <1>3, <1>8, <1>10, <1>11, <1>12, <1>13, <1>14 DEF IInv

LEMMA StepEgressCqe ==
  ASSUME ~Reorder, IInv, NEW more \in BOOLEAN, EgressCqe(more) PROVE IInv'
<1>1. Dispatch("EGRESS")
  BY DEF EgressCqe
<1>2. /\ RingInv(ring, clients, fd_to_slot) /\ accept_pending = AcceptsOf(ring)
      /\ ring.seen > 0 /\ Head(ring.cq).op = "EGRESS" /\ cur = NoSlot /\ pc = "dispatch"
      /\ processed' \in BOOLEAN /\ sweep_due' \in BOOLEAN /\ Types
  BY <1>1, Dispatching
<1>3. BufsOK(clients, recv_free, stolen) /\ SlotsInv(clients, cur, recv_retry, free_slots)
  BY DEF IInv
<1>4. PICK c, cl, r2 : c = Head(ring.cq).slot /\ cl = clients[c] /\ r2 = CqAdvance(ring)
  OBVIOUS
<1>5. RingInv(r2, clients, fd_to_slot) /\ AcceptsOf(r2) = AcceptsOf(ring) /\ Owned(Head(ring.cq))
  BY <1>2, <1>4, SendDispatched
<1>6. c \in Slots /\ Head(ring.cq).fd \in Fds
  BY <1>2, <1>4, <1>5 DEF Owned
<1>7. cl \in Clients /\ SlotOK(c, cl, cur, recv_retry, free_slots)
  BY <1>4, <1>6, Open
<1>8. UNCHANGED <<pc, cur, fd_to_slot, free_slots, recv_free, stolen, recv_retry, accept_pending>>
  BY DEF EgressCqe
<1>9. \/ /\ cl.fd = Head(ring.cq).fd /\ ring' = Prepare(r2, WritevSqe(c, cl)) /\ UNCHANGED clients
      \/ \E b \in BOOLEAN :
           /\ ring' = r2 /\ clients' = [clients EXCEPT ![c].egress_inflight = b]
  <2>1. PICK own : own = (cl.generation = Head(ring.cq).gen /\ cl.fd = Head(ring.cq).fd)
    OBVIOUS
  <2>2. own \in BOOLEAN
    BY <2>1
  <2>3. IF own /\ more /\ cl.state = "ACTIVE" /\ ~SqFull(r2)
        THEN ring' = Prepare(r2, WritevSqe(c, cl)) /\ UNCHANGED clients
        ELSE /\ ring' = r2
             /\ clients' = [clients EXCEPT ![c].egress_inflight = @ /\ ~own]
    BY <1>4, <2>1 DEF EgressCqe, Cqe, Rest
  <2>4. CASE own /\ more /\ cl.state = "ACTIVE" /\ ~SqFull(r2)
    BY <2>1, <2>3, <2>4
  <2>5. CASE ~(own /\ more /\ cl.state = "ACTIVE" /\ ~SqFull(r2))
    <3>1. ring' = r2 /\ clients' = [clients EXCEPT ![c].egress_inflight = @ /\ ~own]
      BY <2>3, <2>5
    <3>2. clients' = [clients EXCEPT ![c].egress_inflight = (cl.egress_inflight /\ ~own)]
      BY <1>4, <3>1
    <3>3. (cl.egress_inflight /\ ~own) \in BOOLEAN
      OBVIOUS
    <3> QED
      BY <3>1, <3>2, <3>3
  <2> QED
    BY <2>4, <2>5
<1>10. RingInv(ring', clients', fd_to_slot) /\ AcceptsOf(ring') = AcceptsOf(ring)
       /\ BufsOK(clients', recv_free, stolen) /\ SlotsInv(clients', cur, recv_retry, free_slots)
       /\ clients' \in [Slots -> Clients]
  <2>1. CASE cl.fd = Head(ring.cq).fd /\ ring' = Prepare(r2, WritevSqe(c, cl)) /\ UNCHANGED clients
    <3>1. cl.fd \in Fds
      BY <1>6, <2>1
    <3>2. PICK r3 : r3 = Prepare(r2, WritevSqe(c, cl))
      OBVIOUS
    <3>3. RingInv(r3, clients, fd_to_slot) /\ AcceptsOf(r3) = AcceptsOf(r2)
      BY <1>5, <1>6, <1>7, <3>1, <3>2, AddedSend DEF WritevSqe
    <3> QED
      BY <1>2, <1>3, <1>5, <2>1, <3>2, <3>3 DEF Types
  <2>2. ASSUME NEW b \in BOOLEAN, ring' = r2, clients' = [clients EXCEPT ![c].egress_inflight = b]
        PROVE  /\ RingInv(ring', clients', fd_to_slot) /\ AcceptsOf(ring') = AcceptsOf(ring)
               /\ BufsOK(clients', recv_free, stolen)
               /\ SlotsInv(clients', cur, recv_retry, free_slots)
               /\ clients' \in [Slots -> Clients]
    <3>1. PICK cl2 : cl2 = [cl EXCEPT !.egress_inflight = b]
      OBVIOUS
    <3>2. /\ cl2 \in Clients /\ SameConnection(cl, cl2) /\ cl2.state = cl.state
          /\ cl2.recv_pending = cl.recv_pending /\ cl2.recv_buf_idx = cl.recv_buf_idx
          /\ cl2.orphaned_recv_buf_idx = cl.orphaned_recv_buf_idx /\ cl2.fd = cl.fd
      BY <1>7, <3>1 DEF Clients, SameConnection, IsConnected
    <3>3. PICK cls2 : cls2 = [clients EXCEPT ![c] = cl2]
      OBVIOUS
    <3>4. /\ cls2[c] = cl2 /\ Only(clients, cls2, c) /\ cls2 \in [Slots -> Clients]
          /\ clients' = cls2
      BY <1>2, <1>4, <1>6, <2>2, <3>1, <3>2, <3>3 DEF Types, Only
    <3>5. RingInv(r2, cls2, fd_to_slot)
      BY <1>4, <1>5, <1>6, <3>2, <3>4, ClientKeeps
    <3>6. BufsOK(cls2, recv_free, stolen)
      <4>1. IsConnected(cls2[c]) <=> IsConnected(clients[c])
        BY <1>4, <3>2, <3>4 DEF IsConnected
      <4> QED
        BY <1>3, <1>4, <1>6, <3>2, <3>4, <4>1, BufsKept
    <3>7. SlotsInv(cls2, cur, recv_retry, free_slots)
      <4>1. SlotOK(c, cls2[c], cur, recv_retry, free_slots)
        BY <1>7, <3>2, <3>4 DEF SlotOK, IsConnected
      <4> QED
        BY <1>3, <3>4, <4>1 DEF SlotsInv, Only
    <3> QED
      BY <1>5, <2>2, <3>4, <3>5, <3>6, <3>7
  <2> QED
    BY <1>9, <2>1, <2>2
<1>11. Types'
  BY <1>2, <1>8, <1>10 DEF Types
<1>12. PhaseOK(pc', cur', clients', ring')
  BY <1>2, <1>8 DEF PhaseOK
<1> QED
  BY <1>2, <1>8, <1>10, <1>11, <1>12 DEF IInv

LEMMA StepRespond == ASSUME ~Reorder, IInv, Respond PROVE IInv'
<1>1. /\ RingInv(ring, clients, fd_to_slot) /\ accept_pending = AcceptsOf(ring) /\ Types
      /\ BufsOK(clients, recv_free, stolen) /\ SlotsInv(clients, cur, recv_retry, free_slots)
      /\ PhaseOK(pc, cur, clients, ring)
  BY DEF IInv
<1>2. /\ pc = "packets"
      /\ UNCHANGED <<pc, cur, processed, sweep_due, clients, fd_to_slot, free_slots, recv_free,
                     stolen, recv_retry, accept_pending>>
  BY DEF Respond
<1>3. cur \in Slots /\ clients[cur].state = "ACTIVE"
  BY <1>1, <1>2 DEF PhaseOK
<1>4. clients[cur] \in Clients /\ clients[cur].fd \in Fds
  BY <1>3, Open DEF IsConnected
<1>5. PICK room \in MakeRoom(ring) :
        ring' = IF SqFull(room) THEN room ELSE Prepare(room, RespSqe(cur, clients[cur]))
  BY DEF Respond, Submitted
<1>6. RingInv(room, clients, fd_to_slot) /\ AcceptsOf(room) = AcceptsOf(ring)
  BY <1>1, <1>5, RoomKeeps
<1>7. RingInv(ring', clients, fd_to_slot) /\ AcceptsOf(ring') = AcceptsOf(ring)
  <2>1. CASE SqFull(room)
    BY <1>5, <1>6, <2>1
  <2>2. CASE ~SqFull(room)
    <3>1. PICK r2 : r2 = Prepare(room, Request("SEND_RESP", cur, clients[cur], NoBuf))
      OBVIOUS
    <3>2. RingInv(r2, clients, fd_to_slot) /\ AcceptsOf(r2) = AcceptsOf(room)
      BY <1>3, <1>4, <1>6, <3>1, AddedSend
    <3> QED
      BY <1>5, <1>6, <2>2, <3>1, <3>2 DEF RespSqe
  <2> QED
    BY <2>1, <2>2
<1>8. Types' /\ PhaseOK(pc', cur', clients', ring')
  BY <1>1, <1>2 DEF Types, PhaseOK
<1> QED
  BY <1>1, <1>2, <1>7, <1>8 DEF IInv

LEMMA StepRespCqe == ASSUME ~Reorder, IInv, RespCqe PROVE IInv'
<1>1. Dispatch("SEND_RESP")
  BY DEF RespCqe
<1>2. /\ RingInv(ring, clients, fd_to_slot) /\ accept_pending = AcceptsOf(ring)
      /\ ring.seen > 0 /\ Head(ring.cq).op = "SEND_RESP" /\ cur = NoSlot /\ pc = "dispatch"
      /\ processed' \in BOOLEAN /\ sweep_due' \in BOOLEAN /\ Types
  BY <1>1, Dispatching
<1>3. /\ ring' = CqAdvance(ring)
      /\ UNCHANGED <<pc, cur, clients, fd_to_slot, free_slots, recv_free, stolen, recv_retry,
                     accept_pending>>
  BY DEF RespCqe, Rest
<1>4. RingInv(ring', clients, fd_to_slot) /\ AcceptsOf(ring') = AcceptsOf(ring)
  BY <1>2, <1>3, SendDispatched
<1>5. BufsOK(clients, recv_free, stolen) /\ SlotsInv(clients, cur, recv_retry, free_slots)
  BY DEF IInv
<1>6. Types' /\ PhaseOK(pc', cur', clients', ring')
  BY <1>2, <1>3 DEF Types, PhaseOK
<1> QED
  BY <1>2, <1>3, <1>4, <1>5, <1>6 DEF IInv

-------------------------------------------------------------------------------
(* A close.                                                                    *)

LEMMA StepClose ==
  ASSUME ~Reorder, IInv, NEW clean \in BOOLEAN, CloseCqe(clean) PROVE IInv'
<1>1. Dispatch("CLOSE")
  BY DEF CloseCqe
<1>2. /\ RingInv(ring, clients, fd_to_slot) /\ accept_pending = AcceptsOf(ring)
      /\ ring.seen > 0 /\ Head(ring.cq).op = "CLOSE" /\ cur = NoSlot /\ pc = "dispatch"
      /\ processed' \in BOOLEAN /\ sweep_due' \in BOOLEAN /\ Types
  BY <1>1, Dispatching
<1>3. BufsOK(clients, recv_free, stolen) /\ SlotsInv(clients, cur, recv_retry, free_slots)
  BY DEF IInv
<1>4. PICK f, r2 : f = Head(ring.cq).fd /\ r2 = CqAdvance(ring)
  OBVIOUS
<1>5. PICK c, cl : c = fd_to_slot[f] /\ cl = clients[c]
  OBVIOUS
<1>6. /\ f \in Fds /\ c \in Slots /\ OwnClose(Head(ring.cq), cl)
      /\ AcceptsOf(r2) = AcceptsOf(ring)
      /\ \A cls2, f2s2 :
           /\ Only(clients, cls2, c) /\ cls2[c].state \notin {"ACTIVE", "CLOSING"}
           /\ ~cl.recv_pending /\ ~cls2[c].recv_pending
           /\ f2s2[f] = NoSlot /\ \A g \in Fds : g # f => f2s2[g] = fd_to_slot[g]
           => RingInv(r2, cls2, f2s2)
  BY <1>2, <1>4, <1>5, CloseDispatched
<1>7. cl.state = "CLOSING" /\ cl.fd = f
  BY <1>4, <1>6 DEF OwnClose
<1>8. /\ cl \in Clients /\ SlotOK(c, cl, cur, recv_retry, free_slots)
      /\ cl.recv_buf_idx \in Bufs
  BY <1>5, <1>6, <1>7, Open DEF IsConnected
<1>9. /\ ~cl.recv_pending /\ ~InSeq(c, recv_retry) /\ ~InSeq(c, free_slots)
      /\ cl.orphaned_recv_buf_idx = NoBuf
  BY <1>7, <1>8 DEF SlotOK
<1>10. c # NoSlot
  BY <1>6, NoBufNotBuf
<1>11. ring' = r2 /\ Close(clean)
  BY <1>4, <1>5, <1>7, <1>10 DEF CloseCqe, HasCloser, ClosedSlot, Cqe, Rest
<1>12. PICK cl2 : cl2 = Disconnected(cl, clean)
  OBVIOUS
<1>13. /\ clients' = [clients EXCEPT ![c] = cl2]
       /\ recv_free' = recv_free \cup {cl.recv_buf_idx}
       /\ fd_to_slot' = [fd_to_slot EXCEPT ![f] = NoSlot]
       /\ free_slots' = IF clean THEN <<c>> \o free_slots ELSE free_slots
       /\ UNCHANGED <<pc, cur, stolen, recv_retry, accept_pending>>
  BY <1>4, <1>5, <1>7, <1>9, <1>11, <1>12 DEF Close, ClosedSlot, Cqe
<1>14. /\ cl2 \in Clients /\ cl2.state \in {"FREE", "DORMANT"} /\ cl2.fd = NoFd
       /\ ~cl2.recv_pending /\ cl2.recv_buf_idx = NoBuf /\ cl2.orphaned_recv_buf_idx = NoBuf
       /\ (clean => cl2.state = "FREE")
  BY <1>8, <1>9, <1>12 DEF Disconnected, Clients
<1>15. PICK cls2, f2s2 : /\ cls2 = [clients EXCEPT ![c] = cl2]
                         /\ f2s2 = [fd_to_slot EXCEPT ![f] = NoSlot]
  OBVIOUS
<1>16. cls2[c] = cl2 /\ Only(clients, cls2, c) /\ cls2 \in [Slots -> Clients]
  BY <1>2, <1>6, <1>14, <1>15 DEF Types, Only
<1>17. /\ f2s2[f] = NoSlot /\ \A g \in Fds : g # f => f2s2[g] = fd_to_slot[g]
       /\ f2s2 \in [Fds -> Slots \cup {NoSlot}]
  BY <1>2, <1>6, <1>15 DEF Types
<1>18. RingInv(r2, cls2, f2s2)
  <2>1. cls2[c].state \notin {"ACTIVE", "CLOSING"} /\ ~cls2[c].recv_pending
    BY <1>14, <1>16
  <2> QED
    BY <1>6, <1>9, <1>16, <1>17, <2>1
<1>19. BufsOK(cls2, recv_free', stolen)
  <2>1. PICK buf, pool : buf = cl.recv_buf_idx /\ pool = recv_free \cup {buf}
    OBVIOUS
  <2>2. /\ cls2[c].recv_buf_idx = NoBuf /\ ~IsConnected(cls2[c])
        /\ \A d \in Slots : d # c => cls2[d] = clients[d]
    BY <1>14, <1>16 DEF IsConnected, Only
  <2>3. clients[c].recv_buf_idx = buf /\ buf \in Bufs /\ buf \notin stolen
    BY <1>3, <1>5, <1>6, <1>8, <2>1 DEF BufsOK
  <2>4. NoBuf \notin pool \cup stolen
    BY <1>2, <2>1, <2>3, NoBufNotBuf DEF Types
  <2>5. \A d \in Slots : d # c => clients[d].recv_buf_idx # buf
    BY <1>3, <1>6, <2>3, NoBufNotBuf DEF BufsOK
  <2>6. \A d \in Slots : cls2[d].recv_buf_idx \notin pool \cup stolen
    BY <1>3, <2>1, <2>2, <2>4, <2>5 DEF BufsOK
  <2>7. pool \cap stolen = {}
    BY <1>3, <2>1, <2>3 DEF BufsOK
  <2>8. \A b \in Bufs : b \in pool \/ b \in stolen \/ \E d \in Slots : cls2[d].recv_buf_idx = b
    BY <1>3, <2>1, <2>2, <2>3 DEF BufsOK
  <2>9. BufsOK(cls2, pool, stolen)
    BY <1>3, <2>2, <2>6, <2>7, <2>8 DEF BufsOK
  <2> QED
    BY <1>13, <2>1, <2>9
<1>20. /\ free_slots' \in Seq(Slots) /\ Distinct(free_slots')
       /\ \A d : InSeq(d, free_slots') => InSeq(d, free_slots) \/ (d = c /\ clean)
  <2>1. PICK q : q = <<c>> \o free_slots
    OBVIOUS
  <2>2. q \in Seq(Slots) /\ Distinct(q) /\ \A d : InSeq(d, q) <=> InSeq(d, free_slots) \/ d = c
    BY <1>2, <1>6, <1>9, <2>1, ListPushed DEF Types
  <2>3. CASE clean
    <3>1. free_slots' = q
      BY <1>13, <2>1, <2>3
    <3> QED
      BY <2>2, <2>3, <3>1
  <2>4. CASE ~clean
    <3>1. free_slots' = free_slots
      BY <1>13, <2>4
    <3> QED
      BY <1>2, <3>1 DEF Types
  <2> QED
    BY <2>3, <2>4
<1>21. SlotsInv(cls2, cur, recv_retry, free_slots')
  <2>1. PICK free : free = free_slots'
    OBVIOUS
  <2>2. SlotOK(c, cls2[c], cur, recv_retry, free)
    BY <1>9, <1>14, <1>16, <1>20, <2>1 DEF SlotOK, IsConnected
  <2>3. ASSUME NEW d \in Slots, d # c PROVE SlotOK(d, cls2[d], cur, recv_retry, free)
    <3>1. cls2[d] = clients[d] /\ SlotOK(d, clients[d], cur, recv_retry, free_slots)
      BY <1>3, <1>16, <2>3 DEF SlotsInv, Only
    <3> QED
      BY <1>20, <2>1, <2>3, <3>1 DEF SlotOK
  <2>4. SlotsInv(cls2, cur, recv_retry, free)
    BY <2>2, <2>3 DEF SlotsInv
  <2> QED
    BY <2>1, <2>4
<1>22. clients' = cls2 /\ fd_to_slot' = f2s2
  BY <1>13, <1>15
<1>23. Types'
  <2>1. recv_free' \subseteq Bufs
    BY <1>2, <1>8, <1>13 DEF Types
  <2> QED
    BY <1>2, <1>13, <1>16, <1>17, <1>20, <1>22, <2>1 DEF Types
<1>24. PhaseOK(pc', cur', clients', ring')
  BY <1>2, <1>13 DEF PhaseOK
<1> QED
  BY <1>2, <1>6, <1>11, <1>13, <1>18, <1>19, <1>21, <1>22, <1>23, <1>24 DEF IInv

-------------------------------------------------------------------------------
(* The retries.                                                                *)

LEMMA StepRetry == ASSUME ~Reorder, IInv, RecvRetry PROVE IInv'
<1>1. /\ RingInv(ring, clients, fd_to_slot) /\ accept_pending = AcceptsOf(ring) /\ Types
      /\ BufsOK(clients, recv_free, stolen) /\ SlotsInv(clients, cur, recv_retry, free_slots)
      /\ pc = "retries" /\ cur = NoSlot /\ recv_retry # << >>
  BY DEF IInv, PhaseOK, RecvRetry
<1>2. PICK c, cl : c = Head(recv_retry) /\ cl = clients[c]
  OBVIOUS
<1>3. PICK q : q = Tail(recv_retry)
  OBVIOUS
<1>4. /\ q \in Seq(Slots) /\ Distinct(q) /\ c \in Slots /\ InSeq(c, recv_retry)
      /\ \A d : InSeq(d, q) <=> InSeq(d, recv_retry) /\ d # c
  BY <1>1, <1>2, <1>3, ListHead DEF Types
<1>5. /\ cl \in Clients /\ cl.state = "ACTIVE" /\ ~cl.recv_pending
      /\ cl.orphaned_recv_buf_idx = NoBuf /\ ~InSeq(c, free_slots)
      /\ cl.fd \in Fds /\ cl.fd # NoFd
  <2>1. cl \in Clients /\ SlotOK(c, cl, cur, recv_retry, free_slots)
    BY <1>2, <1>4, Open
  <2>2. cl.state = "ACTIVE" /\ ~cl.recv_pending /\ cl.orphaned_recv_buf_idx = NoBuf
        /\ ~InSeq(c, free_slots)
    BY <1>4, <2>1 DEF SlotOK
  <2>3. cl.fd \in Fds
    BY <1>2, <1>4, <2>2, Open DEF IsConnected
  <2> QED
    BY <2>1, <2>2, <2>3, NoBufNotBuf
<1>6. PICK s \in RecvSubmissions(ring, c, cl) :
        /\ ring' = s.ring /\ clients' = [clients EXCEPT ![c] = s.client]
        /\ recv_retry' = Retried(q, c, s)
        /\ pc' = IF s.sq_full THEN "accepts" ELSE pc
  <2>1. ~RetrySkipped(c)
    BY <1>2, <1>5 DEF RetrySkipped
  <2> QED
    BY <1>2, <1>3, <2>1 DEF RecvRetry
<1>7. UNCHANGED <<cur, processed, sweep_due, fd_to_slot, free_slots, recv_free, stolen,
                  accept_pending>>
  BY DEF RecvRetry
<1>8. PICK cls2 : cls2 = [clients EXCEPT ![c] = s.client]
  OBVIOUS
<1>9. cls2[c] = s.client /\ Only(clients, cls2, c)
  BY <1>1, <1>4, <1>8 DEF Types, Only
<1>10. /\ RingInv(s.ring, cls2, fd_to_slot) /\ AcceptsOf(s.ring) = AcceptsOf(ring)
       /\ RecvOutcome(cl, s)
  BY <1>1, <1>2, <1>4, <1>5, <1>9, RecvSubmission
<1>11. /\ recv_retry' \in Seq(Slots) /\ Distinct(recv_retry')
       /\ SlotsInv(cls2, NoSlot, recv_retry', free_slots)
  <2>1. PICK q2 : q2 = Retried(q, c, s)
    OBVIOUS
  <2>2. /\ \A d : InSeq(d, free_slots) => InSeq(d, free_slots) /\ d # c
        /\ \A d : d # c => (InSeq(d, q) <=> InSeq(d, recv_retry))
        /\ ~InSeq(c, q) /\ cur \in {c, NoSlot}
    BY <1>1, <1>4, <1>5
  <2>3. q2 \in Seq(Slots) /\ Distinct(q2) /\ SlotsInv(cls2, NoSlot, q2, free_slots)
    BY <1>1, <1>4, <1>5, <1>9, <1>10, <2>1, <2>2, RecvSlots
  <2> QED
    BY <1>6, <2>1, <2>3
<1>12. BufsOK(cls2, recv_free, stolen)
  <2>1. IsConnected(cls2[c]) /\ IsConnected(clients[c]) /\ cls2[c].recv_buf_idx = clients[c].recv_buf_idx
    BY <1>2, <1>5, <1>9, <1>10 DEF IsConnected, RecvOutcome
  <2> QED
    BY <1>1, <1>4, <1>9, <2>1, BufsKept
<1>13. clients' = cls2 /\ cls2 \in [Slots -> Clients]
  BY <1>1, <1>6, <1>8, <1>10 DEF RecvOutcome, Types
<1>14. pc' \in {"accepts", "retries"}
  BY <1>1, <1>6
<1>15. Types'
  BY <1>1, <1>7, <1>11, <1>13, <1>14 DEF Types, Phases
<1>16. PhaseOK(pc', cur', clients', ring')
  BY <1>1, <1>7, <1>14 DEF PhaseOK
<1> QED
  BY <1>1, <1>6, <1>7, <1>10, <1>11, <1>12, <1>13, <1>15, <1>16 DEF IInv

-------------------------------------------------------------------------------
(* The invariant holds.                                                        *)

LEMMA StepOK == ASSUME ~Reorder PROVE IInv /\ [Next]_vars => IInv'
<1> SUFFICES ASSUME IInv, [Next]_vars PROVE IInv'
  OBVIOUS
<1>1. CASE UNCHANGED vars
  BY <1>1, Unmoved
<1>2. CASE Next
  <2>1. CASE Loop
    <3>1. CASE Top
      BY <3>1, StepTop
    <3>2. CASE Moves
      BY <3>2, StepMoves
    <3>3. CASE AcceptRejected
      BY <3>3, StepRejected
    <3>4. CASE AcceptCqe
      BY <3>4, StepAccept
    <3>5. CASE RecvCqe
      BY <3>5, StepRecv
    <3>6. CASE PacketError
      BY <3>6, StepPacketError
    <3>7. ASSUME NEW full \in BOOLEAN, PacketsDone(full) PROVE IInv'
      BY <3>7, StepPacketsDone
    <3>8. ASSUME NEW more \in BOOLEAN, EgressCqe(more) PROVE IInv'
      BY <3>8, StepEgressCqe
    <3>9. ASSUME NEW clean \in BOOLEAN, CloseCqe(clean) PROVE IInv'
      BY <3>9, StepClose
    <3>10. CASE RecvRetry
      BY <3>10, StepRetry
    <3>11. CASE Replenish
      BY <3>11, StepReplenish
    <3>12. CASE Wait
      BY <3>12, StepWait
    <3>13. CASE RespCqe
      BY <3>13, StepRespCqe
    <3> QED
      BY <2>1, <3>1, <3>2, <3>3, <3>4, <3>5, <3>6, <3>7, <3>8, <3>9, <3>10, <3>11, <3>12, <3>13
         DEF Loop, Moves
  <2>2. ASSUME NEW kept \in BOOLEAN, Publish(kept) PROVE IInv'
    BY <2>2, StepPublish
  <2>3. ASSUME NEW c \in Writers, Egress(c) PROVE IInv'
    BY <2>3, WritersAssumption, StepEgress
  <2>4. ASSUME NEW buf \in Bufs, MessageDone(buf) PROVE IInv'
    BY <2>4, StepMessageDone
  <2>5. CASE KernelAccept
    BY <2>5, StepKernelAccept
  <2>6. ASSUME NEW req \in ring.pending, NEW res \in {"data", "end"}, KernelRecv(req, res)
        PROVE  IInv'
    BY <2>6, StepCompletes
  <2>7. ASSUME NEW req \in ring.pending, KernelOther(req) PROVE IInv'
    BY <2>7, StepCompletes
  <2>8. CASE IntervalElapses
    BY <2>8, StepMoves DEF Moves
  <2>9. CASE Respond
    BY <2>9, StepRespond
  <2> QED
    BY <1>2, <2>1, <2>2, <2>3, <2>4, <2>5, <2>6, <2>7, <2>8, <2>9 DEF Next
<1> QED
  BY <1>1, <1>2

(* The inductive invariant holds in every state, as long as closes are reported *)
(* while they are submitted.                                                    *)
THEOREM IInvAlways == ASSUME ~Reorder PROVE Spec => []IInv
<1>1. Init => IInv
  BY InitOK
<1>2. IInv /\ [Next]_vars => IInv'
  BY StepOK
<1> QED
  BY <1>1, <1>2, PTL DEF Spec

-------------------------------------------------------------------------------
(* What follows from it.                                                       *)

LEMMA OutstandingHeld ==
  ASSUME NEW op, NEW e PROVE e \in Outstanding(op) <=> Holds(ring, e) /\ e.op = op
BY DEF Outstanding, ElementsOf, Holds

LEMMA HeldOwned ==
  ASSUME RingOK(ring), NEW e, Holds(ring, e) PROVE Owned(e)
BY DEF RingOK, Holds, Prepared, Answered

(* One of a kind for a slot, wherever it is. *)
LEMMA OneHeld ==
  ASSUME NEW op, NEW c, One(ring, op, c), NEW d, NEW e,
         Holds(ring, d), Is(d, op, c), Holds(ring, e), Is(e, op, c)
  PROVE  d = e
BY DEF One, Holds, SqHas, CqHas, HeldHas

LEMMA TypeLemma == IInv => TypeOK
<1> SUFFICES ASSUME IInv PROVE TypeOK
  OBVIOUS
<1>1. Types /\ RingOK(ring) /\ accept_pending = AcceptsOf(ring)
  BY DEF IInv, RingInv
<1>2. ring \in Rings
  BY <1>1 DEF RingOK
<1>3. accept_pending \in Nat
  <2>1. ring.sq \in Seq(Requests) /\ ring.cq \in Seq(Requests) /\ ring.accepts \in Nat
    BY <1>1, RingParts
  <2>2. Accepts(ring.sq) \in Nat /\ Accepts(ring.cq) \in Nat
    BY <2>1, AcceptsParts
  <2> QED
    BY <1>1, <2>1, <2>2 DEF AcceptsOf
<1> QED
  BY <1>1, <1>2, <1>3 DEF TypeOK, Types, Rings, Clients

(* Every variable keeps its type: the generation stays within its width, no    *)
(* list holds anything but slots, and no fd is stored that the kernel did not  *)
(* give out.                                                                   *)
THEOREM TypeCorrect == ASSUME ~Reorder PROVE Spec => []TypeOK
<1>1. Spec => []IInv
  BY IInvAlways
<1>2. IInv => TypeOK
  BY TypeLemma
<1> QED
  BY <1>1, <1>2, PTL

LEMMA OwnersLemma == IInv => BufferOwners
<1> SUFFICES ASSUME IInv PROVE BufferOwners
  OBVIOUS
<1>1. /\ BufsOK(clients, recv_free, stolen) /\ Types
      /\ SlotsInv(clients, cur, recv_retry, free_slots)
  BY DEF IInv
<1>2. \A c \in Slots : Held(c) = IF clients[c].recv_buf_idx = NoBuf THEN {}
                                 ELSE {clients[c].recv_buf_idx}
  BY <1>1 DEF Held, Freed, SlotsInv, SlotOK
<1>3. \A c \in Slots : Connected(c) <=> clients[c].recv_buf_idx # NoBuf
  BY <1>1 DEF BufsOK, Connected, IsConnected
<1>4. recv_free \cap stolen = {}
  BY <1>1 DEF BufsOK
<1>5. \A c \in Slots : Held(c) \cap (recv_free \cup stolen) = {}
  BY <1>1, <1>2 DEF BufsOK
<1>6. \A c, d \in Slots : c # d => Held(c) \cap Held(d) = {}
  BY <1>1, <1>2 DEF BufsOK
<1>7. recv_free \cup stolen \cup UNION {Held(c) : c \in Slots} = Bufs
  <2>1. ASSUME NEW b \in Bufs
        PROVE  b \in recv_free \cup stolen \cup UNION {Held(c) : c \in Slots}
    <3>1. b \in recv_free \/ b \in stolen \/ \E c \in Slots : clients[c].recv_buf_idx = b
      BY <1>1 DEF BufsOK
    <3>2. ASSUME NEW c \in Slots, clients[c].recv_buf_idx = b PROVE b \in Held(c)
      BY <1>2, <3>2, NoBufNotBuf
    <3> QED
      BY <3>1, <3>2
  <2>2. \A c \in Slots : Held(c) \subseteq Bufs
    BY <1>1, <1>2 DEF Types, Clients
  <2>3. recv_free \subseteq Bufs /\ stolen \subseteq Bufs
    BY <1>1 DEF Types
  <2> QED
    BY <2>1, <2>2, <2>3
<1> QED
  BY <1>3, <1>4, <1>5, <1>6, <1>7 DEF BufferOwners

(* Through every interleaving of steals, disconnects, reconnects and late      *)
(* completions, a receive buffer is in the pool, held by messages or owned by  *)
(* one connection, and none is lost.                                           *)
THEOREM OwnersCorrect == ASSUME ~Reorder PROVE Spec => []BufferOwners
<1>1. Spec => []IInv
  BY IInvAlways
<1>2. IInv => BufferOwners
  BY OwnersLemma
<1> QED
  BY <1>1, <1>2, PTL

LEMMA WritesLemma == IInv => KernelWritesOwned
<1> SUFFICES ASSUME IInv, NEW e \in Outstanding("RECV")
             PROVE  /\ clients[e.slot].generation = e.gen /\ clients[e.slot].fd = e.fd
                    /\ clients[e.slot].recv_buf_idx = e.buf
  BY DEF KernelWritesOwned
<1>1. Holds(ring, e) /\ e.op = "RECV"
  BY OutstandingHeld
<1> QED
  BY <1>1 DEF IInv, RingInv, RecvsOK, OwnRecv

(* The kernel writes only into the buffer that the connection which asked for  *)
(* the receive owns at that moment.                                            *)
THEOREM WritesCorrect == ASSUME ~Reorder PROVE Spec => []KernelWritesOwned
<1>1. Spec => []IInv
  BY IInvAlways
<1>2. IInv => KernelWritesOwned
  BY WritesLemma
<1> QED
  BY <1>1, <1>2, PTL

LEMMA ReceivesLemma == IInv => ReceivesExact
<1> SUFFICES ASSUME IInv, NEW c \in Slots
             PROVE  /\ Receives(c) + Retries(c) =
                         IF clients[c].state = "ACTIVE" /\ c # cur THEN 1 ELSE 0
                    /\ clients[c].recv_pending <=> Receives(c) = 1
  BY DEF ReceivesExact
<1>1. /\ One(ring, "RECV", c) /\ (clients[c].recv_pending <=> Has(ring, "RECV", c))
      /\ SlotOK(c, clients[c], cur, recv_retry, free_slots) /\ Distinct(recv_retry)
  BY DEF IInv, RingInv, RecvsOK, SlotsInv, Types
<1>2. Receives(c) = IF Has(ring, "RECV", c) THEN 1 ELSE 0
  <2>1. PICK R : R = {e \in Outstanding("RECV") : e.slot = c}
    OBVIOUS
  <2>2. \A e : e \in R <=> Holds(ring, e) /\ Is(e, "RECV", c)
    BY <2>1, OutstandingHeld DEF Is
  <2>3. \A d, e \in R : d = e
    BY <1>1, <2>2, OneHeld
  <2>4. Has(ring, "RECV", c) <=> R # {}
    BY <2>2 DEF Has, SqHas, CqHas, HeldHas, Holds
  <2>5. CASE R = {}
    BY <2>1, <2>4, <2>5, FS_EmptySet DEF Receives
  <2>6. CASE R # {}
    <3>1. PICK x : x \in R
      BY <2>6
    <3>2. R = {x}
      BY <2>3, <3>1
    <3>3. Cardinality(R) = 1
      BY <3>2, FS_Singleton
    <3> QED
      BY <2>1, <2>4, <2>6, <3>3 DEF Receives
  <2> QED
    BY <2>5, <2>6
<1>3. Retries(c) = IF InSeq(c, recv_retry) THEN 1 ELSE 0
  <2>1. PICK P : P = {i \in DOMAIN recv_retry : recv_retry[i] = c}
    OBVIOUS
  <2>2. \A i, j \in P : i = j
    BY <1>1, <2>1 DEF Distinct
  <2>3. InSeq(c, recv_retry) <=> P # {}
    BY <2>1 DEF InSeq
  <2>4. CASE P = {}
    BY <2>1, <2>3, <2>4, FS_EmptySet DEF Retries
  <2>5. CASE P # {}
    <3>1. PICK x : x \in P
      BY <2>5
    <3>2. P = {x}
      BY <2>2, <3>1
    <3>3. Cardinality(P) = 1
      BY <3>2, FS_Singleton
    <3> QED
      BY <2>1, <2>3, <2>5, <3>3 DEF Retries
  <2> QED
    BY <2>4, <2>5
<1>4. /\ clients[c].recv_pending => clients[c].state = "ACTIVE" /\ c # cur
      /\ clients[c].state = "ACTIVE" /\ c # cur => clients[c].recv_pending \/ InSeq(c, recv_retry)
      /\ InSeq(c, recv_retry) => clients[c].state = "ACTIVE" /\ c # cur /\ ~clients[c].recv_pending
  BY <1>1 DEF SlotOK
<1> QED
  BY <1>1, <1>2, <1>3, <1>4

(* No connection goes deaf and none listens twice, however often the           *)
(* submission queue is full.                                                   *)
THEOREM ReceivesCorrect == ASSUME ~Reorder PROVE Spec => []ReceivesExact
<1>1. Spec => []IInv
  BY IInvAlways
<1>2. IInv => ReceivesExact
  BY ReceivesLemma
<1> QED
  BY <1>1, <1>2, PTL

LEMMA ClosesLemma == IInv => CloseHitsCloser
<1> SUFFICES ASSUME IInv, NEW e \in Outstanding("CLOSE")
             PROVE  /\ fd_to_slot[e.fd] = e.slot
                    /\ clients[e.slot].state = "CLOSING" /\ clients[e.slot].generation = e.gen
                    /\ \A d \in Outstanding("CLOSE") : d.slot = e.slot => d = e
  BY DEF CloseHitsCloser
<1>1. Holds(ring, e) /\ e.op = "CLOSE"
  BY OutstandingHeld
<1>2. RingOK(ring) /\ ClosesOK(ring, clients) /\ MapOK(clients, fd_to_slot)
  BY DEF IInv, RingInv
<1>3. e.slot \in Slots /\ e.fd \in Fds
  BY <1>1, <1>2, HeldOwned DEF Owned
<1>4. /\ clients[e.slot].generation = e.gen /\ clients[e.slot].fd = e.fd
      /\ clients[e.slot].state = "CLOSING"
  BY <1>1, <1>2 DEF ClosesOK, OwnClose
<1>5. fd_to_slot[e.fd] = e.slot
  BY <1>2, <1>3, <1>4 DEF MapOK, IsConnected
<1>6. ASSUME NEW d \in Outstanding("CLOSE"), d.slot = e.slot PROVE d = e
  <2>1. Holds(ring, d) /\ d.op = "CLOSE"
    BY OutstandingHeld
  <2>2. One(ring, "CLOSE", e.slot)
    BY <1>2, <1>3 DEF ClosesOK
  <2> QED
    BY <1>1, <1>6, <2>1, <2>2, OneHeld DEF Is
<1> QED
  BY <1>4, <1>5, <1>6

(* A close completion names only an fd, and still reaches the connection that  *)
(* asked for it, which asked once.                                             *)
THEOREM ClosesCorrect == ASSUME ~Reorder PROVE Spec => []CloseHitsCloser
<1>1. Spec => []IInv
  BY IInvAlways
<1>2. IInv => CloseHitsCloser
  BY ClosesLemma
<1> QED
  BY <1>1, <1>2, PTL

LEMMA FdsLemma == IInv => FdsExact
<1> SUFFICES ASSUME IInv PROVE FdsExact
  OBVIOUS
<1>1. RingOK(ring) /\ FdsOK(ring, fd_to_slot) /\ MapOK(clients, fd_to_slot)
  BY DEF IInv, RingInv
<1>2. \A f \in Fds, c \in Slots : fd_to_slot[f] = c <=> Connected(c) /\ clients[c].fd = f
  BY <1>1 DEF MapOK, IsConnected, Connected
<1>3. PICK A : A = {e.fd : e \in {a \in Outstanding("ACCEPT") : a.res = "ok"}}
  OBVIOUS
<1>4. PICK B : B = {f \in Fds : /\ fd_to_slot[f] # NoSlot
                                /\ ~\E e \in ElementsOf(ring.cq) : e.op = "CLOSE" /\ e.fd = f}
  OBVIOUS
<1>5. \A f : f \in A <=> \E e : Holds(ring, e) /\ e.op = "ACCEPT" /\ e.res = "ok" /\ e.fd = f
  BY <1>3, OutstandingHeld
<1>6. \A f : f \in A <=> f \in Fds /\ \E i \in DOMAIN ring.cq : Accepted(ring, i, f)
  <2>1. ASSUME NEW f, NEW e, Holds(ring, e), e.op = "ACCEPT", e.res = "ok", e.fd = f
        PROVE  f \in Fds /\ \E i \in DOMAIN ring.cq : Accepted(ring, i, f)
    <3>1. PICK i \in DOMAIN ring.cq : ring.cq[i] = e
      BY <1>1, <2>1 DEF RingOK, Holds, Prepared
    <3>2. f \in Fds
      BY <1>1, <2>1, <3>1 DEF RingOK, Answered
    <3> QED
      BY <2>1, <3>1, <3>2 DEF Accepted
  <2>2. ASSUME NEW f, NEW i \in DOMAIN ring.cq, Accepted(ring, i, f)
        PROVE  f \in A
    BY <1>5, <2>2 DEF Accepted, Holds
  <2> QED
    BY <1>5, <2>1, <2>2
<1>7. \A f \in Fds : f \in B <=> /\ fd_to_slot[f] # NoSlot
                                 /\ ~\E i \in DOMAIN ring.cq : Closed(ring, i, f)
  BY <1>4 DEF ElementsOf, Closed
<1>8. B \subseteq Fds /\ ring.open \subseteq Fds
  BY <1>1, <1>4, RingParts
<1>9. ring.open = A \cup B
  BY <1>1, <1>6, <1>7, <1>8 DEF FdsOK, FdOK
<1> QED
  BY <1>2, <1>3, <1>4, <1>9 DEF FdsExact

(* The fd map is the inverse of the connections' fds, and no fd leaks.         *)
THEOREM FdsCorrect == ASSUME ~Reorder PROVE Spec => []FdsExact
<1>1. Spec => []IInv
  BY IInvAlways
<1>2. IInv => FdsExact
  BY FdsLemma
<1> QED
  BY <1>1, <1>2, PTL

(* A broker that blocks has left nothing it prepared behind.                   *)
THEOREM BlockedCorrect == ASSUME ~Reorder PROVE Spec => []BlockedIdle
<1>1. Spec => []IInv
  BY IInvAlways
<1>2. IInv => BlockedIdle
  BY DEF IInv, PhaseOK, BlockedIdle
<1> QED
  BY <1>1, <1>2, PTL
===============================================================================
