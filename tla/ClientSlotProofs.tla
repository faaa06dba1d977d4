--------------------------- MODULE ClientSlotProofs ---------------------------
(***************************************************************************)
(* What the operators of ClientSlot preserve, for every size of the tables: *)
(* first that a record stays typed, counted and in shape, then that its    *)
(* parts agree with each other.  The lemmas about one client record are    *)
(* cited, one per step of the broker, by the modules that extend this one. *)
(***************************************************************************)
EXTENDS ClientSlot, FiniteSetTheorems, SequenceTheorems, TLAPS

-------------------------------------------------------------------------------
(* Counting.                                                                   *)

(* Every element of a finite set of integers has a rank, and every rank from 1 *)
(* to the size of the set has an element.                                      *)
LEMMA NthLemma ==
  ASSUME NEW S, IsFiniteSet(S), S \subseteq Int, NEW k \in 1 .. Cardinality(S)
  PROVE  /\ Nth(S, k) \in S
         /\ Cardinality({j \in S : j <= Nth(S, k)}) = k
<1> DEFINE Below(x) == {j \in S : j <= x}
           rank == [x \in S |-> Cardinality(Below(x))]
<1>1. /\ Cardinality(S) \in Nat
      /\ IsFiniteSet(1 .. Cardinality(S))
      /\ Cardinality(1 .. Cardinality(S)) = Cardinality(S)
  <2>1. Cardinality(S) \in Nat
    BY FS_CardinalityType
  <2> QED
    BY <2>1, FS_Interval
<1>2. ASSUME NEW x \in S
      PROVE  /\ IsFiniteSet(Below(x))
             /\ Cardinality(Below(x)) \in 1 .. Cardinality(S)
  <2>1. IsFiniteSet(Below(x)) /\ Cardinality(Below(x)) <= Cardinality(S)
    BY FS_Subset, Below(x) \in SUBSET S
  <2>2. Cardinality(Below(x)) \in Nat
    BY <2>1, FS_CardinalityType
  <2>3. x \in Below(x)
    OBVIOUS
  <2>4. Cardinality(Below(x)) # 0
    BY <2>1, <2>3, FS_EmptySet
  <2> QED
    BY <2>1, <2>2, <2>4, <1>1
<1>3. ASSUME NEW x \in S, NEW y \in S, x < y
      PROVE  rank[x] # rank[y]
  <2>1. Below(x) \in SUBSET Below(y)
    <3>1. ASSUME NEW j \in S, j <= x
          PROVE  j <= y
      <4>1. j \in Int /\ x \in Int /\ y \in Int
        OBVIOUS
      <4> QED
        BY <4>1, <3>1, <1>3
    <3> QED
      BY <3>1
  <2>2. y \in Below(y) /\ y \notin Below(x)
    BY <1>3
  <2>3. Below(x) # Below(y)
    BY <2>2
  <2>4. Cardinality(Below(x)) # Cardinality(Below(y))
    BY <2>1, <2>3, <1>2, FS_Subset
  <2> QED
    BY <2>4
<1>4. rank \in Injection(S, 1 .. Cardinality(S))
  <2>1. rank \in [S -> 1 .. Cardinality(S)]
    BY <1>2
  <2>2. \A x, y \in S : rank[x] = rank[y] => x = y
    <3> SUFFICES ASSUME NEW x \in S, NEW y \in S, x # y
                 PROVE  rank[x] # rank[y]
      OBVIOUS
    <3>1. x < y \/ y < x
      OBVIOUS
    <3> QED
      BY <3>1, <1>3
  <2> QED
    BY <2>1, <2>2 DEF Injection, IsInjective
<1>5. rank \in Surjection(S, 1 .. Cardinality(S))
  BY <1>1, <1>4, FS_Injection
<1>6. PICK x \in S : rank[x] = k
  BY <1>5 DEF Surjection
<1>7. Cardinality({j \in S : j <= x}) = k
  BY <1>6
<1> HIDE DEF rank, Below
<1> QED
  BY <1>7 DEF Nth

(* A finite set of integers that is not empty has a largest element. *)
LEMMA LargestLemma ==
  ASSUME NEW S, IsFiniteSet(S), S \subseteq Int, S # {}
  PROVE  \E m \in S : \A x \in S : x <= m
<1>1. Cardinality(S) \in Nat /\ Cardinality(S) # 0
  BY FS_CardinalityType, FS_EmptySet
<1> DEFINE m == Nth(S, Cardinality(S))
           Below == {j \in S : j <= m}
<1>2. m \in S /\ Cardinality(Below) = Cardinality(S)
  <2>1. Cardinality(S) \in 1 .. Cardinality(S)
    BY <1>1
  <2> QED
    BY <2>1, NthLemma
<1>3. Below = S
  BY <1>2, FS_Subset, Below \in SUBSET S
<1>4. \A x \in S : x <= m
  BY <1>3
<1> QED
  BY <1>2, <1>4

-------------------------------------------------------------------------------
(* The invariant of one client record.                                         *)

Counted(cl) == cl.inflight_count = Cardinality(Used(cl))

(* What QueueShape (module Delivery) says of one record. *)
Shaped(cl) ==
  /\ Len(cl.egress) <= EgressCap
  /\ \A i \in DOMAIN cl.egress : /\ cl.egress[i].slot_gen = cl.generation
                                 /\ cl.egress[i].cursor = 1 => i = 1
  /\ cl.egress # << >> => cl.state \in {"ACTIVE", "CLOSING"}

ClientOK(cl) == cl \in Client /\ Counted(cl) /\ Shaped(cl)

(* The table and every subset of it are finite. *)
LEMMA TableFinite ==
  /\ MaxInflight \in Nat /\ MaxInflight > 0
  /\ IsFiniteSet(InflightIdx) /\ Cardinality(InflightIdx) = MaxInflight
  /\ \A S \in SUBSET InflightIdx : /\ IsFiniteSet(S)
                                   /\ Cardinality(S) \in Nat
                                   /\ Cardinality(S) <= MaxInflight
<1>1. MaxInflight \in Nat /\ MaxInflight > 0
  BY InflightAssumption
<1>2. IsFiniteSet(InflightIdx) /\ Cardinality(InflightIdx) = MaxInflight
  <2>1. 0 \in Int /\ MaxInflight - 1 \in Int /\ ~(0 > MaxInflight - 1)
    BY <1>1
  <2>2. IsFiniteSet(0 .. MaxInflight - 1)
    BY <2>1, FS_Interval
  <2>3. Cardinality(0 .. MaxInflight - 1) = (MaxInflight - 1) - 0 + 1
    BY <2>1, FS_Interval
  <2> QED
    BY <1>1, <2>2, <2>3 DEF InflightIdx
<1>3. ASSUME NEW S \in SUBSET InflightIdx
      PROVE  IsFiniteSet(S) /\ Cardinality(S) \in Nat /\ Cardinality(S) <= MaxInflight
  BY <1>2, FS_Subset, FS_CardinalityType
<1> QED
  BY <1>1, <1>2, <1>3

(* The empty inflight table is a table, and uses no entry.                     *)
LEMMA EmptyTableOK ==
  /\ EmptyTable \in [InflightIdx -> Entry]
  /\ 0 \in InflightIdx
  /\ \A cl : cl.inflight = EmptyTable => Used(cl) = {}
<1>1. IdSpace \in Nat /\ IdSpace > 0 /\ MaxInflight \in Nat /\ MaxInflight > 0
  BY InflightAssumption
<1>2. FreeEntry \in Entry
  BY <1>1 DEF FreeEntry, Entry, PacketIds
<1> QED
  BY <1>1, <1>2 DEF EmptyTable, InflightIdx, Used, FreeEntry

(* A slot nobody has used yet is in order.                                     *)
LEMMA UnusedClientOK == UnusedClient \in Client /\ ClientOK(UnusedClient)
<1>1. UnusedClient \in Client
  BY EmptyTableOK, GenAssumption, EmptySeq DEF UnusedClient, Client, Generations
<1>2. Used(UnusedClient) = {}
  BY EmptyTableOK DEF UnusedClient
<1>3. Counted(UnusedClient)
  BY <1>2, FS_EmptySet DEF Counted, UnusedClient
<1>4. Shaped(UnusedClient)
  BY EgressAssumption DEF Shaped, UnusedClient
<1> QED
  BY <1>1, <1>3, <1>4 DEF ClientOK

(* client_init puts a record in order, whatever the slot held before.          *)
LEMMA ClientInitOK ==
  ASSUME NEW cl \in Client, cl.generation < MaxGen
  PROVE  ClientOK(ClientInit(cl)) /\ ClientInit(cl).state = "ACTIVE"
<1> DEFINE new == ClientInit(cl)
<1>1. cl.generation + 1 \in Generations
  BY GenAssumption DEF Client, Generations
<1>2. new \in Client
  BY <1>1, UnusedClientOK DEF ClientInit, Client
<1>3. new.inflight = EmptyTable /\ new.inflight_count = 0 /\ new.egress = << >>
      /\ new.state = "ACTIVE"
  BY DEF ClientInit, UnusedClient
<1>4. Counted(new)
  BY <1>3, EmptyTableOK, FS_EmptySet DEF Counted
<1>5. Shaped(new)
  BY <1>3, EgressAssumption DEF Shaped
<1> QED
  BY <1>2, <1>3, <1>4, <1>5 DEF ClientOK

(* client_inflight_free_all empties the table and its count together. *)
LEMMA FreeAllOK ==
  ASSUME NEW cl, ClientOK(cl)
  PROVE  ClientOK(FreeAll(cl)) /\ FreeAll(cl).egress = cl.egress
<1>1. CASE cl.inflight_count = 0
  BY <1>1 DEF FreeAll
<1>2. CASE cl.inflight_count # 0
  <2> DEFINE new == FreeAll(cl)
  <2>1. new \in Client /\ new.inflight = EmptyTable /\ new.inflight_count = 0
        /\ new.egress = cl.egress /\ new.state = cl.state
        /\ new.generation = cl.generation
    BY <1>2, EmptyTableOK DEF FreeAll, ClientOK, Client
  <2>2. Counted(new)
    BY <2>1, EmptyTableOK, FS_EmptySet DEF Counted
  <2>3. Shaped(new)
    BY <2>1 DEF Shaped, ClientOK
  <2> QED
    BY <2>1, <2>2, <2>3 DEF ClientOK
<1> QED
  BY <1>1, <1>2

(* handle_close leaves an empty queue, and either way the record is in order. *)
LEMMA CloseOK ==
  ASSUME NEW cl, ClientOK(cl)
  PROVE  LET drained == [cl EXCEPT !.egress = << >>]
         IN  ClientOK(ClientFree(FreeAll(drained))) /\ ClientOK(ClientGoDormant(drained))
<1> DEFINE drained == [cl EXCEPT !.egress = << >>]
<1>1. drained \in Client /\ drained.egress = << >>
      /\ drained.inflight = cl.inflight /\ drained.inflight_count = cl.inflight_count
  BY EmptySeq DEF ClientOK, Client
<1>2. ClientOK(drained)
  BY <1>1, EgressAssumption DEF ClientOK, Counted, Shaped, Used
<1>3. ASSUME NEW x, ClientOK(x), x.egress = << >>
      PROVE  ClientOK(ClientFree(x)) /\ ClientOK(ClientGoDormant(x))
  <2>1. /\ ClientFree(x) \in Client /\ ClientFree(x).egress = << >>
        /\ ClientFree(x).inflight = x.inflight
        /\ ClientFree(x).inflight_count = x.inflight_count
    BY <1>3 DEF ClientFree, ClientOK, Client
  <2>2. /\ ClientGoDormant(x) \in Client /\ ClientGoDormant(x).egress = << >>
        /\ ClientGoDormant(x).inflight = x.inflight
        /\ ClientGoDormant(x).inflight_count = x.inflight_count
    BY <1>3 DEF ClientGoDormant, ClientOK, Client
  <2> QED
    BY <1>3, <2>1, <2>2, EgressAssumption DEF ClientOK, Counted, Shaped, Used
<1>4. ClientOK(FreeAll(drained)) /\ FreeAll(drained).egress = << >>
  BY <1>1, <1>2, FreeAllOK
<1> QED
  BY <1>1, <1>2, <1>3, <1>4

-------------------------------------------------------------------------------
(* The inflight table.                                                         *)

(* Emptying a set of used entries, and counting them off. *)
LEMMA FreeEntriesOK ==
  ASSUME NEW cl, ClientOK(cl), NEW S \in SUBSET Used(cl)
  PROVE  ClientOK([cl EXCEPT !.inflight = [s \in InflightIdx |->
                                             IF s \in S THEN FreeEntry ELSE @[s]],
                             !.inflight_count = @ - Cardinality(S)])
<1> DEFINE new == [cl EXCEPT !.inflight = [s \in InflightIdx |->
                                             IF s \in S THEN FreeEntry ELSE @[s]],
                             !.inflight_count = @ - Cardinality(S)]
<1>1. FreeEntry \in Entry /\ FreeEntry.state = "FREE"
  BY InflightAssumption DEF FreeEntry, Entry, PacketIds
<1>2. Used(cl) \in SUBSET InflightIdx
  BY DEF Used
<1>3. /\ IsFiniteSet(Used(cl)) /\ IsFiniteSet(S)
      /\ Cardinality(Used(cl)) \in Nat /\ Cardinality(S) \in Nat
      /\ Cardinality(S) <= Cardinality(Used(cl))
  BY <1>2, TableFinite, FS_Subset
<1>4. cl.inflight_count = Cardinality(Used(cl))
  BY DEF ClientOK, Counted
<1>5. /\ new \in Client
      /\ new.inflight = [s \in InflightIdx |-> IF s \in S THEN FreeEntry ELSE cl.inflight[s]]
      /\ new.inflight_count = Cardinality(Used(cl)) - Cardinality(S)
      /\ new.egress = cl.egress /\ new.state = cl.state /\ new.generation = cl.generation
  <2> DEFINE table == [s \in InflightIdx |-> IF s \in S THEN FreeEntry ELSE cl.inflight[s]]
             left == Cardinality(Used(cl)) - Cardinality(S)
  <2>1. table \in [InflightIdx -> Entry] /\ left \in Nat
    BY <1>1, <1>3 DEF ClientOK, Client
  <2>2. new = [cl EXCEPT !.inflight = table, !.inflight_count = left]
    BY <1>4 DEF ClientOK, Client
  <2> HIDE DEF table, left
  <2>3. /\ new \in Client /\ new.inflight = table /\ new.inflight_count = left
        /\ new.egress = cl.egress /\ new.state = cl.state
        /\ new.generation = cl.generation
    BY <2>1, <2>2 DEF ClientOK, Client
  <2> QED
    BY <2>3 DEF table, left
<1>6. Used(new) = Used(cl) \ S
  BY <1>1, <1>5 DEF Used
<1>7. Cardinality(Used(cl) \ S) = Cardinality(Used(cl)) - Cardinality(S)
  <2>1. Used(cl) \cap S = S
    OBVIOUS
  <2> QED
    BY <1>3, <2>1, FS_Difference
<1>8. Counted(new)
  BY <1>5, <1>6, <1>7 DEF Counted
<1>9. Shaped(new)
  BY <1>5 DEF Shaped, ClientOK
<1> QED
  BY <1>5, <1>8, <1>9 DEF ClientOK

(* client_inflight_free_slot keeps a record in order.                          *)
LEMMA FreeSlotOK ==
  ASSUME NEW cl, ClientOK(cl), NEW s
  PROVE  /\ ClientOK(FreeSlot(cl, s))
         /\ FreeSlot(cl, s).state = cl.state
         /\ FreeSlot(cl, s).generation = cl.generation
         /\ FreeSlot(cl, s).egress = cl.egress
<1>1. CASE s \notin Used(cl)
  BY <1>1 DEF FreeSlot
<1>2. CASE s \in Used(cl)
  <2> DEFINE new == [cl EXCEPT !.inflight = [t \in InflightIdx |->
                                               IF t \in {s} THEN FreeEntry ELSE @[t]],
                               !.inflight_count = @ - Cardinality({s})]
  <2>1. ClientOK(new)
    BY <1>2, FreeEntriesOK, {s} \in SUBSET Used(cl)
  <2>2. Cardinality({s}) = 1
    BY FS_Singleton
  <2>3. cl.inflight_count > 0
    <3>1. IsFiniteSet(Used(cl)) /\ Cardinality(Used(cl)) \in Nat
      BY TableFinite, Used(cl) \in SUBSET InflightIdx DEF Used
    <3>2. Cardinality(Used(cl)) # 0
      BY <3>1, <1>2, FS_EmptySet
    <3> QED
      BY <3>1, <3>2 DEF ClientOK, Counted
  <2>4. FreeSlot(cl, s) = new
    <3>1. cl.inflight \in [InflightIdx -> Entry] /\ s \in InflightIdx
      BY <1>2 DEF ClientOK, Client, Used
    <3>2. [cl.inflight EXCEPT ![s] = FreeEntry]
            = [t \in InflightIdx |-> IF t \in {s} THEN FreeEntry ELSE cl.inflight[t]]
      BY <3>1
    <3> QED
      BY <1>2, <2>2, <2>3, <3>1, <3>2 DEF FreeSlot, ClientOK, Client
  <2> QED
    BY <2>1, <2>4 DEF ClientOK, Client
<1> QED
  BY <1>1, <1>2

(* The k-th free slot of the search is one, and different k find different slots. *)
LEMMA SlotAtLemma ==
  ASSUME NEW cl, ClientOK(cl)
  PROVE  /\ IsFiniteSet(Unused(cl))
         /\ Cardinality(Unused(cl)) = MaxInflight - cl.inflight_count
         /\ \A k \in 1 .. Cardinality(Unused(cl)) : SlotAt(cl, k) \in Unused(cl)
         /\ \A j, k \in 1 .. Cardinality(Unused(cl)) :
              SlotAt(cl, j) = SlotAt(cl, k) => j = k
<1> DEFINE U == Unused(cl)
           h == cl.inflight_free_hint
           M == MaxInflight
           pos == [s \in U |-> SearchPos(cl, s)]
           P == FreePositions(cl)
<1>1. M \in Nat /\ M > 0 /\ h \in 0 .. M - 1
  BY TableFinite DEF ClientOK, Client, InflightIdx
<1>2. U \in SUBSET InflightIdx /\ U \in SUBSET (0 .. M - 1) /\ IsFiniteSet(U)
  BY TableFinite DEF Unused, InflightIdx
<1>3. Cardinality(U) = M - cl.inflight_count
  <2>1. Used(cl) \in SUBSET InflightIdx /\ InflightIdx \cap Used(cl) = Used(cl)
    BY DEF Used
  <2>2. Cardinality(InflightIdx \ Used(cl)) = Cardinality(InflightIdx) - Cardinality(Used(cl))
    BY <2>1, TableFinite, FS_Difference
  <2> QED
    BY <2>2, TableFinite DEF Unused, ClientOK, Counted
<1>4. ASSUME NEW s \in 0 .. M - 1
      PROVE  /\ SearchPos(cl, s) = IF s >= h THEN s - h ELSE s - h + M
             /\ SearchPos(cl, s) \in 0 .. M - 1
             /\ (h + SearchPos(cl, s)) % M = s
  <2>1. CASE s >= h
    <3>1. s - h \in 0 .. M - 1
      BY <1>1, <2>1
    <3>2. (s - h) % M = s - h /\ s % M = s
      BY <1>1, <3>1
    <3>3. h + (s - h) = s
      BY <1>1
    <3> QED
      BY <2>1, <3>1, <3>2, <3>3 DEF SearchPos
  <2>2. CASE s < h
    <3>1. s - h + M \in 0 .. M - 1
      BY <1>1, <2>2
    <3>2. (s - h) % M = s - h + M
      BY <1>1, <2>2, <3>1
    <3>3. (h + (s - h + M)) % M = s
      <4>1. h + (s - h + M) = s + M
        BY <1>1
      <4>2. (s + M) % M = s
        BY <1>1
      <4> QED
        BY <4>1, <4>2
    <3> QED
      BY <1>1, <2>2, <3>1, <3>2, <3>3 DEF SearchPos
  <2> QED
    BY <1>1, <2>1, <2>2
<1>5. pos \in Bijection(U, P)
  <2>1. pos \in [U -> P] /\ \A p \in P : \E s \in U : pos[s] = p
    BY DEF FreePositions
  <2>2. ASSUME NEW s \in U, NEW t \in U, pos[s] = pos[t]
        PROVE  s = t
    BY <1>2, <1>4, <2>2
  <2> QED
    BY <2>1, <2>2 DEF Bijection, Injection, Surjection, IsInjective
<1>6. /\ IsFiniteSet(P) /\ Cardinality(P) = Cardinality(U)
      /\ P \subseteq Int
  <2>1. ExistsBijection(U, P)
    BY <1>5 DEF ExistsBijection
  <2>2. P \subseteq Int
    BY <1>2, <1>4 DEF FreePositions
  <2> QED
    BY <1>2, <2>1, <2>2, FS_Bijection
<1>7. ASSUME NEW k \in 1 .. Cardinality(U)
      PROVE  \E s \in U : /\ SlotAt(cl, k) = s
                          /\ Nth(P, k) = SearchPos(cl, s)
                          /\ Cardinality({j \in P : j <= Nth(P, k)}) = k
  <2>1. Nth(P, k) \in P /\ Cardinality({j \in P : j <= Nth(P, k)}) = k
    BY <1>6, NthLemma
  <2>2. PICK s \in U : Nth(P, k) = SearchPos(cl, s)
    BY <2>1 DEF FreePositions
  <2>3. SlotAt(cl, k) = s
    BY <1>2, <1>4, <2>2 DEF SlotAt
  <2> QED
    BY <2>1, <2>2, <2>3
<1>8. ASSUME NEW j \in 1 .. Cardinality(U), NEW k \in 1 .. Cardinality(U),
             SlotAt(cl, j) = SlotAt(cl, k)
      PROVE  j = k
  <2>1. Nth(P, j) = Nth(P, k)
    BY <1>7, <1>8
  <2> QED
    BY <1>7, <2>1
<1> QED
  BY <1>2, <1>3, <1>7, <1>8

(* Filling a set of free entries counts them in. *)
LEMMA FillCounted ==
  ASSUME NEW cl, ClientOK(cl), NEW T \in SUBSET Unused(cl), NEW new,
         new.inflight_count = cl.inflight_count + Cardinality(T),
         \A s \in InflightIdx : IF s \in T THEN new.inflight[s].state # "FREE"
                                ELSE new.inflight[s] = cl.inflight[s]
  PROVE  Counted(new)
<1>1. Used(new) = Used(cl) \cup T /\ Used(cl) \cap T = {}
  BY DEF Used, Unused
<1>2. Used(cl) \in SUBSET InflightIdx /\ T \in SUBSET InflightIdx
  BY DEF Used, Unused
<1>3. IsFiniteSet(Used(cl)) /\ IsFiniteSet(T)
      /\ Cardinality(Used(cl)) \in Nat /\ Cardinality(T) \in Nat
  BY <1>2, TableFinite
<1>4. Cardinality(Used(new)) = Cardinality(Used(cl)) + Cardinality(T)
  <2>1. Cardinality(Used(cl) \cup T)
          = Cardinality(Used(cl)) + Cardinality(T) - Cardinality(Used(cl) \cap T)
    BY <1>3, FS_Union
  <2>2. Cardinality(Used(cl) \cap T) = 0
    BY <1>1, FS_EmptySet
  <2> QED
    BY <1>1, <1>3, <2>1, <2>2
<1> QED
  BY <1>4 DEF ClientOK, Counted

(* client_inflight_track_incoming keeps a record in order.                     *)
LEMMA TrackIncomingOK ==
  ASSUME NEW cl, ClientOK(cl), NEW id \in PacketIds
  PROVE  /\ ClientOK(TrackIncoming(cl, id))
         /\ TrackIncoming(cl, id).state = cl.state
<1>1. CASE TrackFails(cl) \/ Incoming(cl, id) # {}
  BY <1>1 DEF TrackIncoming
<1>2. CASE ~(TrackFails(cl) \/ Incoming(cl, id) # {})
  <2> DEFINE s == SlotAt(cl, 1)
             entry == [state |-> "WAIT_PUBREL", packet_id |-> id, direction |-> "in",
                       msg_idx |-> NoMsg, qos |-> 2, dup_count |-> 0]
             new == [cl EXCEPT !.inflight[s] = entry, !.inflight_count = @ + 1,
                               !.inflight_free_hint = (s + 1) % MaxInflight]
  <2>1. TrackIncoming(cl, id) = new
    BY <1>2 DEF TrackIncoming
  <2>2. Cardinality(Unused(cl)) \in Nat /\ Cardinality(Unused(cl)) # 0
    <3>1. IsFiniteSet(Unused(cl)) /\ Unused(cl) # {}
      BY <1>2, SlotAtLemma DEF TrackFails
    <3> QED
      BY <3>1, FS_CardinalityType, FS_EmptySet
  <2>3. s \in Unused(cl)
    BY <2>2, SlotAtLemma
  <2>4. s \in InflightIdx /\ (s + 1) % MaxInflight \in InflightIdx
    BY <2>3, TableFinite DEF Unused, InflightIdx
  <2>5. entry \in Entry /\ entry.state # "FREE"
    BY DEF Entry
  <2> HIDE DEF s, entry
  <2>6. /\ new \in Client
        /\ new.inflight = [cl.inflight EXCEPT ![s] = entry]
        /\ new.inflight_count = cl.inflight_count + 1
        /\ new.egress = cl.egress /\ new.state = cl.state
        /\ new.generation = cl.generation
    <3> DEFINE table == [cl.inflight EXCEPT ![s] = entry]
               hint == (s + 1) % MaxInflight
               count == cl.inflight_count + 1
    <3>1. table \in [InflightIdx -> Entry] /\ hint \in InflightIdx /\ count \in Nat
      BY <2>4, <2>5 DEF ClientOK, Client
    <3>2. new = [cl EXCEPT !.inflight = table, !.inflight_count = count,
                           !.inflight_free_hint = hint]
      BY DEF ClientOK, Client
    <3> HIDE DEF table, hint, count
    <3>3. /\ new \in Client /\ new.inflight = table /\ new.inflight_count = count
          /\ new.egress = cl.egress /\ new.state = cl.state
          /\ new.generation = cl.generation
      BY <3>1, <3>2 DEF ClientOK, Client
    <3> QED
      BY <3>3 DEF table, count
  <2> HIDE DEF new
  <2>7. Counted(new)
    <3>1. {s} \in SUBSET Unused(cl) /\ Cardinality({s}) = 1
      BY <2>3, FS_Singleton
    <3>2. \A t \in InflightIdx : IF t \in {s} THEN new.inflight[t].state # "FREE"
                                 ELSE new.inflight[t] = cl.inflight[t]
      BY <2>5, <2>6 DEF ClientOK, Client
    <3>3. new.inflight_count = cl.inflight_count + Cardinality({s})
      BY <2>6, <3>1
    <3> QED
      BY <3>1, <3>2, <3>3, FillCounted
  <2>8. Shaped(new)
    BY <2>6 DEF Shaped, ClientOK
  <2> QED
    BY <2>1, <2>6, <2>7, <2>8 DEF ClientOK
<1> QED
  BY <1>1, <1>2

(* A packet id is one, is not 0, and leads back to its slot. *)
LEMMA PacketIdLemma ==
  ASSUME NEW gen \in Nat, NEW s \in InflightIdx
  PROVE  /\ PacketIdOf(gen, s) \in PacketIds
         /\ PacketIdOf(gen, s) # 0
<1>1. IdSpace \in Nat /\ MaxInflight \in Nat /\ IdSpace > MaxInflight /\ MaxInflight > 0
      /\ s \in 0 .. MaxInflight - 1
  BY InflightAssumption DEF InflightIdx
<1>2. gen * MaxInflight \in Nat
  BY <1>1
<1> DEFINE id == (s + 1 + gen * MaxInflight) % IdSpace
<1>3. id \in 0 .. IdSpace - 1
  BY <1>1, <1>2
<1>4. s + 1 \in 1 .. IdSpace - 1
  BY <1>1
<1> HIDE DEF id
<1>5. PacketIdOf(gen, s) = IF id = 0 THEN s + 1 ELSE id
  BY DEF PacketIdOf, id
<1> QED
  BY <1>1, <1>3, <1>4, <1>5 DEF PacketIds

-------------------------------------------------------------------------------
(* The egress queue.                                                           *)

(* egress_push of a fresh segment of this connection keeps a record in order.  *)
LEMMA PushOK ==
  ASSUME NEW cl, ClientOK(cl), cl.state \in {"ACTIVE", "CLOSING"}, ~EgressFull(cl),
         NEW seg \in Segment, seg.slot_gen = cl.generation, seg.cursor = 0
  PROVE  /\ ClientOK(Push(cl, seg))
         /\ Push(cl, seg).state = cl.state
         /\ Push(cl, seg).generation = cl.generation
<1> DEFINE new == Push(cl, seg)
           queue == Append(cl.egress, seg)
<1>1. cl.egress \in Seq(Segment) /\ Len(cl.egress) \in Nat
  BY LenProperties DEF ClientOK, Client
<1>2. queue \in Seq(Segment) /\ Len(queue) = Len(cl.egress) + 1
      /\ \A i \in 1 .. Len(queue) :
           queue[i] = IF i = Len(cl.egress) + 1 THEN seg ELSE cl.egress[i]
  BY <1>1
<1> HIDE DEF queue
<1>3. /\ new \in Client /\ new.egress = queue /\ new.inflight = cl.inflight
      /\ new.inflight_count = cl.inflight_count
      /\ new.state = cl.state /\ new.generation = cl.generation
  BY <1>2 DEF Push, queue, ClientOK, Client
<1>4. Counted(new)
  BY <1>3 DEF Counted, Used, ClientOK
<1>5. Shaped(new)
  <2>1. Len(queue) <= EgressCap
    BY <1>1, <1>2, EgressAssumption DEF EgressFull
  <2>2. DOMAIN queue = 1 .. Len(queue) /\ DOMAIN cl.egress = 1 .. Len(cl.egress)
    BY <1>1, <1>2, LenProperties
  <2>3. ASSUME NEW i \in DOMAIN queue
        PROVE  queue[i].slot_gen = cl.generation /\ (queue[i].cursor = 1 => i = 1)
    BY <1>1, <1>2, <2>2 DEF ClientOK, Shaped
  <2> QED
    BY <1>3, <2>1, <2>3 DEF Shaped
<1> QED
  BY <1>3, <1>4, <1>5 DEF ClientOK

(* egress_pop keeps a record in order, and leaves no partly written segment.   *)
LEMMA DropOK ==
  ASSUME NEW cl, ClientOK(cl), NEW n \in Nat
  PROVE  /\ ClientOK(Drop(cl, n))
         /\ Drop(cl, n).state = cl.state
         /\ Drop(cl, n).generation = cl.generation
         /\ Drop(cl, n).inflight_count = cl.inflight_count
         /\ \A i \in DOMAIN Drop(cl, n).egress : i > 1 => Drop(cl, n).egress[i].cursor = 0
<1> DEFINE new == Drop(cl, n)
           queue == SubSeq(cl.egress, n + 1, Len(cl.egress))
<1>1. cl.egress \in Seq(Segment) /\ Len(cl.egress) \in Nat
      /\ DOMAIN cl.egress = 1 .. Len(cl.egress)
  BY LenProperties DEF ClientOK, Client
<1>2. /\ queue \in Seq(Segment)
      /\ Len(queue) = IF n + 1 <= Len(cl.egress) THEN Len(cl.egress) - n ELSE 0
      /\ \A i \in 1 .. Len(queue) : queue[i] = cl.egress[n + i]
      /\ DOMAIN queue = 1 .. Len(queue)
  <2>1. \A i \in n + 1 .. Len(cl.egress) : cl.egress[i] \in Segment
    BY <1>1, ElementOfSeq
  <2>2. /\ queue \in Seq(Segment)
        /\ Len(queue) = IF n + 1 <= Len(cl.egress) THEN Len(cl.egress) - (n + 1) + 1 ELSE 0
        /\ \A i \in 1 .. Len(cl.egress) - (n + 1) + 1 : queue[i] = cl.egress[(n + 1) + i - 1]
    BY <1>1, <2>1, n + 1 \in Int, SubSeqProperties
  <2> HIDE DEF queue
  <2>3. \A i \in 1 .. Len(queue) : queue[i] = cl.egress[n + i]
    <3> SUFFICES ASSUME NEW i \in 1 .. Len(queue)
                 PROVE  queue[i] = cl.egress[n + i]
      OBVIOUS
    <3>1. i \in 1 .. Len(cl.egress) - (n + 1) + 1 /\ (n + 1) + i - 1 = n + i
      BY <1>1, <2>2
    <3> QED
      BY <2>2, <3>1
  <2> QED
    BY <1>1, <2>2, <2>3, LenProperties
<1> HIDE DEF queue
<1>3. /\ new \in Client /\ new.egress = queue /\ new.inflight = cl.inflight
      /\ new.inflight_count = cl.inflight_count
      /\ new.state = cl.state /\ new.generation = cl.generation
  BY <1>2 DEF Drop, queue, ClientOK, Client
<1>4. Counted(new)
  BY <1>3 DEF Counted, Used, ClientOK
<1>5. ASSUME NEW i \in DOMAIN queue
      PROVE  /\ queue[i].slot_gen = cl.generation
             /\ queue[i].cursor = 1 => i = 1
             /\ i > 1 => queue[i].cursor = 0
  <2>1. n + i \in DOMAIN cl.egress /\ queue[i] = cl.egress[n + i]
    BY <1>1, <1>2
  <2>2. cl.egress[n + i].cursor \in {0, 1}
    <3>1. n + i \in 1 .. Len(cl.egress)
      BY <1>1, <2>1
    <3>2. cl.egress[n + i] \in Segment
      BY <1>1, <3>1, ElementOfSeq
    <3> QED
      BY <3>2 DEF Segment
  <2>3. cl.egress[n + i].slot_gen = cl.generation
        /\ (cl.egress[n + i].cursor = 1 => n + i = 1)
    BY <2>1 DEF ClientOK, Shaped
  <2> QED
    BY <1>2, <2>1, <2>2, <2>3
<1>6. Shaped(new)
  <2>1. Len(queue) <= EgressCap
    BY <1>1, <1>2, EgressAssumption DEF ClientOK, Shaped
  <2>2. cl.state \in {"ACTIVE", "CLOSING"} \/ queue = << >>
    <3>1. CASE cl.egress = << >>
      BY <1>2, <3>1, EmptySeq
    <3>2. CASE cl.egress # << >>
      BY <3>2 DEF ClientOK, Shaped
    <3> QED
      BY <3>1, <3>2
  <2> QED
    BY <1>3, <1>5, <2>1, <2>2 DEF Shaped
<1> QED
  BY <1>3, <1>4, <1>5, <1>6 DEF ClientOK

-------------------------------------------------------------------------------
(* egress_flush.                                                               *)

(* The batch is a prefix of the queue, and there is a free entry for every      *)
(* segment of it that needs one.                                                *)
LEMMA BatchLemma ==
  ASSUME NEW cl, NEW bare, ClientOK(cl)
  PROVE  /\ BatchLen(cl, bare) \in 0 .. Len(cl.egress)
         /\ IsFiniteSet(Fresh(cl, bare))
         /\ Fresh(cl, bare) \in SUBSET (1 .. Len(cl.egress))
         /\ Cardinality(Fresh(cl, bare)) \in Nat
         /\ Cardinality(Fresh(cl, bare)) <= Cardinality(Unused(cl))
         /\ \A i \in Fresh(cl, bare) : cl.egress[i].qos > 0
<1> DEFINE B == Batches(cl, bare)
<1>1. cl.egress \in Seq(Segment) /\ Len(cl.egress) \in Nat
      /\ DOMAIN cl.egress = 1 .. Len(cl.egress)
  BY LenProperties DEF ClientOK, Client
<1>2. B \subseteq 0 .. Len(cl.egress)
  BY DEF Batches
<1>3. IsFiniteSet(B) /\ B \subseteq Int
  <2>1. IsFiniteSet(0 .. Len(cl.egress))
    BY <1>1, FS_Interval
  <2> QED
    BY <1>1, <1>2, <2>1, FS_Subset
<1>4. 0 \in B
  <2>1. NeedsIdUpTo(cl, 0) = {}
    BY DEF NeedsIdUpTo
  <2>2. Cardinality(NeedsIdUpTo(cl, 0)) = 0
    BY <2>1, FS_EmptySet
  <2>3. MaxInflight - cl.inflight_count >= 0
    <3>1. Used(cl) \in SUBSET InflightIdx
      BY DEF Used
    <3>2. Cardinality(Used(cl)) <= MaxInflight /\ Cardinality(Used(cl)) \in Nat
      BY <3>1, TableFinite
    <3> QED
      BY <3>2, TableFinite DEF ClientOK, Counted
  <2> QED
    BY <1>1, <2>2, <2>3, EgressAssumption DEF Batches
<1>5. BatchLen(cl, bare) \in B
  <2>1. \E m \in B : \A x \in B : x <= m
    BY <1>3, <1>4, LargestLemma
  <2> QED
    BY <2>1 DEF BatchLen
<1>6. BatchLen(cl, bare) \in 0 .. Len(cl.egress)
      /\ Cardinality(Fresh(cl, bare)) <= MaxInflight - cl.inflight_count
  BY <1>2, <1>5 DEF Batches, Fresh
<1>7. Fresh(cl, bare) \in SUBSET (1 .. Len(cl.egress)) /\ IsFiniteSet(Fresh(cl, bare))
      /\ Cardinality(Fresh(cl, bare)) \in Nat
  <2>1. Fresh(cl, bare) \in SUBSET (1 .. Len(cl.egress))
    BY <1>1 DEF Fresh, NeedsIdUpTo
  <2>2. IsFiniteSet(1 .. Len(cl.egress))
    BY <1>1, FS_Interval
  <2>3. IsFiniteSet(Fresh(cl, bare))
    BY <2>1, <2>2, FS_Subset
  <2> QED
    BY <2>1, <2>3, FS_CardinalityType
<1>8. \A i \in Fresh(cl, bare) : cl.egress[i].qos > 0
  BY DEF Fresh, NeedsIdUpTo, NeedsId
<1> QED
  BY <1>6, <1>7, <1>8, SlotAtLemma

(* Every segment of the batch that needs one gets a free slot of its own. *)
LEMMA SlotOfLemma ==
  ASSUME NEW cl, NEW bare, ClientOK(cl)
  PROVE  /\ \A i \in Fresh(cl, bare) : SlotOf(cl, i) \in Unused(cl)
         /\ \A i, j \in Fresh(cl, bare) : SlotOf(cl, i) = SlotOf(cl, j) => i = j
         /\ Taken(cl, bare) \in SUBSET Unused(cl)
         /\ Cardinality(Taken(cl, bare)) = Cardinality(Fresh(cl, bare))
<1> DEFINE F == Fresh(cl, bare)
           U == Unused(cl)
           UpTo(i) == NeedsIdUpTo(cl, i)
<1>1. IsFiniteSet(F) /\ F \in SUBSET (1 .. BatchLen(cl, bare)) /\ BatchLen(cl, bare) \in Nat
      /\ Cardinality(F) \in Nat /\ Cardinality(F) <= Cardinality(U)
  <2>1. BatchLen(cl, bare) \in Nat
    BY BatchLemma
  <2> QED
    BY <2>1, BatchLemma DEF Fresh, NeedsIdUpTo
<1>2. \A i \in F : UpTo(i) = {x \in F : x <= i}
  BY <1>1 DEF Fresh, NeedsIdUpTo
<1> HIDE DEF F, U, UpTo
<1>3. IsFiniteSet(U) /\ Cardinality(U) \in Nat
  BY SlotAtLemma, FS_CardinalityType DEF U
<1>4. ASSUME NEW i \in F
      PROVE  /\ IsFiniteSet(UpTo(i))
             /\ Cardinality(UpTo(i)) \in 1 .. Cardinality(U)
  <2>1. UpTo(i) \in SUBSET F /\ i \in UpTo(i)
    BY <1>1, <1>2
  <2>2. IsFiniteSet(UpTo(i)) /\ Cardinality(UpTo(i)) \in Nat
        /\ Cardinality(UpTo(i)) <= Cardinality(F)
    BY <1>1, <2>1, FS_Subset, FS_CardinalityType
  <2>3. Cardinality(UpTo(i)) # 0
    BY <2>1, <2>2, FS_EmptySet
  <2> QED
    BY <1>1, <1>3, <2>2, <2>3
<1>5. ASSUME NEW i \in F, NEW j \in F, i < j
      PROVE  Cardinality(UpTo(i)) # Cardinality(UpTo(j))
  <2>1. UpTo(i) \in SUBSET UpTo(j)
    <3>1. \A x \in F : x \in Int
      BY <1>1
    <3>2. \A x \in F : x <= i => x <= j
      BY <3>1, <1>5
    <3> QED
      BY <1>2, <3>2
  <2>2. j \in UpTo(j) /\ j \notin UpTo(i)
    BY <1>1, <1>2, <1>5
  <2> QED
    BY <1>4, <2>1, <2>2, FS_Subset
<1>6. ASSUME NEW i \in F
      PROVE  SlotOf(cl, i) = SlotAt(cl, Cardinality(UpTo(i)))
  BY DEF SlotOf, UpTo
<1>7. \A i \in F : SlotOf(cl, i) \in U
  BY <1>4, <1>6, SlotAtLemma DEF U
<1>8. ASSUME NEW i \in F, NEW j \in F, SlotOf(cl, i) = SlotOf(cl, j)
      PROVE  i = j
  <2>1. Cardinality(UpTo(i)) = Cardinality(UpTo(j))
    BY <1>4, <1>6, <1>8, SlotAtLemma DEF U
  <2>2. ~(i < j) /\ ~(j < i)
    BY <1>5, <2>1
  <2> QED
    BY <1>1, <2>2
<1>9. Cardinality(Taken(cl, bare)) = Cardinality(F)
  <2> DEFINE f == [i \in F |-> SlotOf(cl, i)]
  <2>1. f \in [F -> Taken(cl, bare)] /\ \A s \in Taken(cl, bare) : \E i \in F : f[i] = s
    BY DEF Taken, F
  <2>2. \A i, j \in F : f[i] = f[j] => i = j
    BY <1>8
  <2>3. f \in Bijection(F, Taken(cl, bare))
    BY <2>1, <2>2 DEF Bijection, Injection, Surjection, IsInjective
  <2>4. ExistsBijection(F, Taken(cl, bare))
    BY <2>3 DEF ExistsBijection
  <2> QED
    BY <1>1, <2>4, FS_Bijection
<1> QED
  BY <1>7, <1>8, <1>9 DEF F, U, Taken

(* Assigning packet ids keeps a record in order, and changes nothing of a       *)
(* segment but its packet id.                                                   *)
LEMMA AssignOK ==
  ASSUME NEW cl, NEW bare, ClientOK(cl)
  PROVE  /\ ClientOK(Assign(cl, bare))
         /\ Assign(cl, bare).state = cl.state
         /\ Assign(cl, bare).generation = cl.generation
         /\ Len(Assign(cl, bare).egress) = Len(cl.egress)
         /\ Assign(cl, bare).egress_retry_queued = cl.egress_retry_queued
<1> DEFINE new == Assign(cl, bare)
           fresh == Fresh(cl, bare)
           taken == Taken(cl, bare)
           queue == [i \in DOMAIN cl.egress |->
                       IF i \in fresh
                       THEN [cl.egress[i] EXCEPT !.packet_id = IdOf(cl, bare, SlotOf(cl, i))]
                       ELSE cl.egress[i]]
           table == [s \in InflightIdx |->
                       IF s \in taken THEN NewEntry(SegOf(cl, bare, s), IdOf(cl, bare, s))
                                      ELSE cl.inflight[s]]
           count == cl.inflight_count + Cardinality(fresh)
           hint  == IF fresh = {} THEN cl.inflight_free_hint
                    ELSE (SlotAt(cl, Cardinality(fresh)) + 1) % MaxInflight
           gen   == IF 0 \in taken
                    THEN (cl.inflight_generation + 1) % (IdSpace \div MaxInflight)
                    ELSE cl.inflight_generation
<1>1. /\ cl.egress \in Seq(Segment) /\ Len(cl.egress) \in Nat
      /\ DOMAIN cl.egress = 1 .. Len(cl.egress)
      /\ cl.inflight \in [InflightIdx -> Entry]
      /\ cl.inflight_count \in Nat /\ cl.inflight_generation \in Nat
      /\ cl.inflight_free_hint \in InflightIdx
  BY LenProperties DEF ClientOK, Client
<1>2. taken \in SUBSET InflightIdx
  BY SlotOfLemma DEF Unused
<1>3. ASSUME NEW s \in InflightIdx
      PROVE  IdOf(cl, bare, s) \in PacketIds
  <2> DEFINE wrapped == 0 \in Taken(cl, bare) /\ SearchPos(cl, 0) < SearchPos(cl, s)
  <2>1. cl.inflight_generation + (IF wrapped THEN 1 ELSE 0) \in Nat
    BY <1>1
  <2> HIDE DEF wrapped
  <2>2. PacketIdOf(cl.inflight_generation + (IF wrapped THEN 1 ELSE 0), s) \in PacketIds
    BY <2>1, PacketIdLemma
  <2> QED
    BY <2>2 DEF IdOf, wrapped
<1>4. /\ queue \in Seq(Segment) /\ Len(queue) = Len(cl.egress)
      /\ DOMAIN queue = 1 .. Len(cl.egress)
      /\ \A i \in 1 .. Len(cl.egress) : /\ queue[i].slot_gen = cl.egress[i].slot_gen
                                        /\ queue[i].cursor = cl.egress[i].cursor
  <2>1. ASSUME NEW i \in 1 .. Len(cl.egress)
        PROVE  /\ queue[i] \in Segment
               /\ queue[i].slot_gen = cl.egress[i].slot_gen
               /\ queue[i].cursor = cl.egress[i].cursor
    <3>1. cl.egress[i] \in Segment
      BY <1>1, ElementOfSeq
    <3>2. CASE i \in fresh
      <4>1. IdOf(cl, bare, SlotOf(cl, i)) \in PacketIds
        BY <1>3, <3>2, SlotOfLemma DEF Unused
      <4>2. queue[i] = [cl.egress[i] EXCEPT !.packet_id = IdOf(cl, bare, SlotOf(cl, i))]
        BY <1>1, <3>2
      <4> QED
        BY <3>1, <4>1, <4>2 DEF Segment
    <3>3. CASE i \notin fresh
      BY <1>1, <3>1, <3>3
    <3> QED
      BY <3>2, <3>3
  <2>2. queue \in [1 .. Len(cl.egress) -> Segment]
    BY <1>1, <2>1
  <2>3. queue \in Seq(Segment)
    BY <1>1, <2>2, SeqDef
  <2> HIDE DEF queue
  <2>4. DOMAIN queue = 1 .. Len(cl.egress) /\ DOMAIN queue = 1 .. Len(queue)
        /\ Len(queue) \in Nat
    BY <2>2, <2>3, LenProperties
  <2>5. Len(queue) = Len(cl.egress)
    BY <1>1, <2>4
  <2> QED
    BY <2>1, <2>3, <2>4, <2>5
<1>5. table \in [InflightIdx -> Entry] /\ \A s \in taken : table[s].state # "FREE"
  <2>1. ASSUME NEW s \in taken
        PROVE  /\ NewEntry(SegOf(cl, bare, s), IdOf(cl, bare, s)) \in Entry
               /\ NewEntry(SegOf(cl, bare, s), IdOf(cl, bare, s)).state # "FREE"
    <3>1. \E i \in fresh : SlotOf(cl, i) = s
      BY DEF Taken
    <3>2. PICK i \in fresh : SegOf(cl, bare, s) = cl.egress[i]
      BY <3>1 DEF SegOf
    <3>3. i \in 1 .. Len(cl.egress)
      BY <3>2, BatchLemma
    <3>4. SegOf(cl, bare, s) \in Segment
      BY <1>1, <3>2, <3>3, ElementOfSeq
    <3>5. IdOf(cl, bare, s) \in PacketIds
      BY <1>2, <1>3
    <3> QED
      BY <3>4, <3>5 DEF NewEntry, Entry, Segment
  <2> QED
    BY <1>1, <1>2, <2>1
<1>6. count \in Nat
  BY <1>1, BatchLemma
<1>7. hint \in InflightIdx
  <2>1. CASE fresh = {}
    BY <1>1, <2>1
  <2>2. CASE fresh # {}
    <3>1. Cardinality(fresh) # 0
      BY <2>2, BatchLemma, FS_EmptySet
    <3>2. IsFiniteSet(Unused(cl)) /\ Cardinality(Unused(cl)) \in Nat
      BY SlotAtLemma, FS_CardinalityType
    <3>3. Cardinality(fresh) \in 1 .. Cardinality(Unused(cl))
      BY <3>1, <3>2, BatchLemma
    <3>4. SlotAt(cl, Cardinality(fresh)) \in InflightIdx
      BY <3>3, SlotAtLemma DEF Unused
    <3>5. (SlotAt(cl, Cardinality(fresh)) + 1) % MaxInflight \in InflightIdx
      BY <3>4, TableFinite DEF InflightIdx
    <3> QED
      BY <2>2, <3>5
  <2> QED
    BY <2>1, <2>2
<1>8. gen \in Nat
  <2>1. IdSpace \div MaxInflight \in Nat /\ IdSpace \div MaxInflight > 0
    BY InflightAssumption
  <2>2. cl.inflight_generation + 1 \in Nat
    BY <1>1
  <2>3. (cl.inflight_generation + 1) % (IdSpace \div MaxInflight) \in Nat
    BY <2>1, <2>2
  <2> QED
    BY <1>1, <2>3
<1>9. new = [cl EXCEPT !.egress = queue, !.inflight = table, !.inflight_count = count,
                       !.inflight_free_hint = hint, !.inflight_generation = gen]
  BY <1>1 DEF Assign
<1> HIDE DEF queue, table, count, hint, gen
<1>10. /\ new \in Client
       /\ new.egress = queue /\ new.inflight = table /\ new.inflight_count = count
       /\ new.state = cl.state /\ new.generation = cl.generation
       /\ new.egress_retry_queued = cl.egress_retry_queued
  BY <1>4, <1>5, <1>6, <1>7, <1>8, <1>9 DEF ClientOK, Client
<1> HIDE DEF new
<1>11. Counted(new)
  <2>1. count = cl.inflight_count + Cardinality(taken)
    BY SlotOfLemma DEF count
  <2>2. \A s \in InflightIdx : IF s \in taken THEN new.inflight[s].state # "FREE"
                               ELSE new.inflight[s] = cl.inflight[s]
    BY <1>5, <1>10 DEF table
  <2>3. taken \in SUBSET Unused(cl)
    BY SlotOfLemma
  <2> QED
    BY <1>10, <2>1, <2>2, <2>3, FillCounted
<1>12. Shaped(new)
  <2>1. cl.egress = << >> => queue = << >>
    BY <1>4, EmptySeq
  <2> QED
    BY <1>1, <1>4, <1>10, <2>1 DEF Shaped, ClientOK
<1> QED
  BY <1>4, <1>10, <1>11, <1>12 DEF ClientOK, new

(* A record that differs in flags and counters only. *)
LEMMA SameQueueAndTable ==
  ASSUME NEW cl, ClientOK(cl), NEW new \in Client,
         new.egress = cl.egress, new.inflight = cl.inflight,
         new.inflight_count = cl.inflight_count,
         new.state = cl.state \/ new.state \in {"ACTIVE", "CLOSING"},
         new.generation = cl.generation
  PROVE  ClientOK(new)
<1>1. Counted(new)
  BY DEF ClientOK, Counted, Used
<1>2. Shaped(new)
  BY DEF ClientOK, Shaped
<1> QED
  BY <1>1, <1>2 DEF ClientOK

(* A submitted flush keeps a record in order, and its batch is made of segments. *)
LEMMA SubmitOK ==
  ASSUME NEW cl, NEW bare, ClientOK(cl)
  PROVE  /\ ClientOK(Submit(cl, bare))
         /\ Submit(cl, bare).state = cl.state
         /\ SubSeq(Assign(cl, bare).egress, 1, BatchLen(cl, bare)) \in Seq(Segment)
<1> DEFINE a == Assign(cl, bare)
           new == Submit(cl, bare)
<1>1. ClientOK(a) /\ a.state = cl.state /\ a.generation = cl.generation
      /\ Len(a.egress) = Len(cl.egress)
  BY AssignOK
<1>2. BatchLen(cl, bare) \in Nat /\ BatchLen(cl, bare) <= Len(a.egress) /\ a.egress \in Seq(Segment)
  <2>1. a.egress \in Seq(Segment) /\ Len(cl.egress) \in Nat
    BY <1>1, LenProperties DEF ClientOK, Client
  <2> QED
    BY <1>1, <2>1, BatchLemma
<1> HIDE DEF a
<1>3. /\ new \in Client /\ new.egress = a.egress /\ new.inflight = a.inflight
      /\ new.inflight_count = a.inflight_count
      /\ new.state = a.state /\ new.generation = a.generation
  BY <1>1, <1>2 DEF Submit, a, ClientOK, Client
<1>4. ClientOK(new)
  BY <1>1, <1>3, SameQueueAndTable
<1>5. SubSeq(a.egress, 1, BatchLen(cl, bare)) \in Seq(Segment)
  <2>1. \A i \in 1 .. BatchLen(cl, bare) : a.egress[i] \in Segment
    BY <1>2, ElementOfSeq, LenProperties
  <2> QED
    BY <1>2, <2>1, SubSeqProperties
<1> QED
  BY <1>1, <1>3, <1>4, <1>5 DEF a

(* fsm_sub_timeout counts a retry. *)
LEMMA RetryOK ==
  ASSUME NEW cl, ClientOK(cl), NEW s \in Used(cl)
  PROVE  LET retry == [cl EXCEPT !.inflight[s].dup_count = @ + 1]
         IN  /\ ClientOK(retry)
             /\ retry.state = cl.state /\ retry.generation = cl.generation
             /\ retry.egress = cl.egress
<1> DEFINE retry == [cl EXCEPT !.inflight[s].dup_count = @ + 1]
           entry == [cl.inflight[s] EXCEPT !.dup_count = @ + 1]
           table == [cl.inflight EXCEPT ![s] = entry]
<1>1. s \in InflightIdx /\ cl.inflight \in [InflightIdx -> Entry]
      /\ cl.inflight[s].state # "FREE"
  BY DEF Used, ClientOK, Client
<1>2. entry \in Entry /\ entry.state = cl.inflight[s].state
  BY <1>1 DEF Entry
<1>3. table \in [InflightIdx -> Entry]
  BY <1>1, <1>2
<1>4. retry = [cl EXCEPT !.inflight = table]
  BY <1>1 DEF ClientOK, Client
<1>5. \A t \in InflightIdx : table[t].state = cl.inflight[t].state
  BY <1>1, <1>2
<1> HIDE DEF table, entry
<1>6. /\ retry \in Client /\ retry.inflight = table
      /\ retry.inflight_count = cl.inflight_count /\ retry.egress = cl.egress
      /\ retry.state = cl.state /\ retry.generation = cl.generation
  BY <1>3, <1>4 DEF ClientOK, Client
<1> HIDE DEF retry
<1>7. Used(retry) = Used(cl)
  BY <1>5, <1>6 DEF Used
<1>8. Counted(retry) /\ Shaped(retry)
  BY <1>6, <1>7 DEF Counted, Shaped, ClientOK
<1> QED
  BY <1>6, <1>8 DEF ClientOK, retry

-------------------------------------------------------------------------------
(***************************************************************************)
(* What ties the parts of a client record to each other: an entry of the   *)
(* inflight table to its packet id, a segment to the message it refers to, *)
(* a batch under way to the segments it was made of.                       *)
(***************************************************************************)

Live(cl) == cl.state \in {"ACTIVE", "CLOSING"}

(* An incoming entry waits for a PUBREL; an outgoing one holds a message and   *)
(* has the packet id that leads back to it.                                    *)
TableOK(cl) ==
  \A s \in Used(cl) :
    LET e == cl.inflight[s]
    IN  \/ e.direction = "in" /\ e.state = "WAIT_PUBREL" /\ e.msg_idx = NoMsg
        \/ /\ e.direction = "out" /\ e.state \in {"WAIT_PUBACK", "WAIT_PUBREC"}
           /\ e.msg_idx \in Msgs /\ e.qos > 0
           /\ e.packet_id # 0 /\ (e.packet_id - 1) % MaxInflight = s

(* A PUBLISH segment has a message, and no packet id at QoS 0.                 *)
QueueOK(cl) ==
  \A i \in DOMAIN cl.egress :
    cl.egress[i].kind = "PUBLISH" => /\ cl.egress[i].msg_idx \in Msgs
                                     /\ cl.egress[i].qos = 0 => cl.egress[i].packet_id = 0

(* The batch under way is a prefix of the queue whose segments have their ids. *)
BatchOK(cl) ==
  cl.egress_inflight => /\ Live(cl)
                        /\ cl.egress_batch_count \in 1 .. Len(cl.egress)
                        /\ \A i \in 1 .. cl.egress_batch_count : ~NeedsId(cl.egress[i])

RecordOK(cl) == ClientOK(cl) /\ TableOK(cl) /\ QueueOK(cl) /\ BatchOK(cl)

(* The references to message m that a record accounts for: one per segment     *)
(* that egress owns, one per outgoing entry of a connection.                   *)
Queued(cl, m) == {i \in DOMAIN cl.egress : OwnsRef(cl.egress[i]) /\ cl.egress[i].msg_idx = m}
Held(cl, m) == {s \in Outgoing(cl) : Live(cl) /\ cl.inflight[s].msg_idx = m}
Owned(cl, m) == Cardinality(Queued(cl, m)) + Cardinality(Held(cl, m))

(* The entries of messages being received. *)
Tracking(cl) == Used(cl) \ Outgoing(cl)

(* new is cl with the entries of S freed. *)
Freed(cl, S, new) ==
  /\ new.egress = cl.egress /\ new.state = cl.state
  /\ new.egress_inflight = cl.egress_inflight
  /\ new.egress_batch_count = cl.egress_batch_count
  /\ \A s \in InflightIdx : new.inflight[s] = IF s \in S THEN FreeEntry ELSE cl.inflight[s]
Within(cl, S, m) == {s \in S : cl.inflight[s].msg_idx = m}

-------------------------------------------------------------------------------
(* Packet ids.                                                                 *)

(* The packet id given to the entry in slot s leads back to s, also after the  *)
(* u16 has wrapped.                                                            *)
LEMMA PacketIdBack ==
  ASSUME NEW gen \in Nat, NEW s \in InflightIdx
  PROVE  (PacketIdOf(gen, s) - 1) % MaxInflight = s
<1> DEFINE M == MaxInflight
           q == IdSpace \div M
           x == s + 1 + gen * M
           id == x % IdSpace
           k == x \div IdSpace
<1>1. /\ IdSpace \in Nat /\ M \in Nat /\ IdSpace > M /\ M > 0
      /\ s \in 0 .. M - 1 /\ IdSpace % M = 0
  BY InflightAssumption DEF InflightIdx
<1>2. q \in Nat /\ IdSpace = M * q
  BY <1>1
<1>3. gen * M \in Nat /\ x \in Nat
  BY <1>1
<1>4. k \in Nat /\ id \in Nat /\ x = IdSpace * k + id
  BY <1>1, <1>3
<1>5. s % M = s
  BY <1>1
<1>6. CASE id = 0
  <2>1. PacketIdOf(gen, s) = s + 1
    BY <1>6 DEF PacketIdOf
  <2> QED
    BY <1>1, <1>5, <2>1
<1>7. CASE id # 0
  <2> DEFINE d == gen - q * k
  <2>1. PacketIdOf(gen, s) = id
    BY <1>7 DEF PacketIdOf
  <2>2. q * k \in Nat /\ IdSpace * k = M * (q * k) /\ d \in Int
    <3> HIDE DEF q, k
    <3>1. q * k \in Nat /\ (M * q) * k = M * (q * k)
      BY <1>1, <1>2, <1>4
    <3> QED
      BY <1>2, <3>1
  <2>3. id - 1 = s + M * d
    <3>1. gen * M - M * (q * k) = M * d
      BY <1>1, <2>2
    <3> QED
      BY <1>1, <1>3, <1>4, <2>2, <3>1
  <2>4. (s + M * d) % M = s
    BY <1>1, <2>2
  <2> QED
    BY <2>1, <2>3, <2>4
<1> QED
  BY <1>6, <1>7

-------------------------------------------------------------------------------
(* The operations on a record, and the references it owns before and after.    *)

(* The references of a record can be counted.                                  *)
LEMMA OwnedNat ==
  ASSUME NEW cl, ClientOK(cl), NEW m
  PROVE  /\ Queued(cl, m) \in SUBSET (1 .. Len(cl.egress))
         /\ Held(cl, m) \in SUBSET InflightIdx
         /\ IsFiniteSet(Queued(cl, m)) /\ Cardinality(Queued(cl, m)) \in Nat
         /\ IsFiniteSet(Held(cl, m)) /\ Cardinality(Held(cl, m)) \in Nat
         /\ Owned(cl, m) \in Nat
<1>1. Len(cl.egress) \in Nat /\ DOMAIN cl.egress = 1 .. Len(cl.egress)
  BY LenProperties DEF ClientOK, Client
<1>2. Queued(cl, m) \in SUBSET (1 .. Len(cl.egress)) /\ IsFiniteSet(1 .. Len(cl.egress))
  BY <1>1, FS_Interval DEF Queued
<1>3. IsFiniteSet(Queued(cl, m)) /\ Cardinality(Queued(cl, m)) \in Nat
  BY <1>2, FS_Subset, FS_CardinalityType
<1>4. Held(cl, m) \in SUBSET InflightIdx
  BY DEF Held, Outgoing, Used
<1>5. IsFiniteSet(Held(cl, m)) /\ Cardinality(Held(cl, m)) \in Nat
  BY <1>4, TableFinite
<1> QED
  BY <1>2, <1>3, <1>4, <1>5 DEF Owned

(* A record whose queue and table stay as they are.                            *)
LEMMA SameRecord ==
  ASSUME NEW cl, RecordOK(cl), NEW new \in Client,
         new.egress = cl.egress, new.inflight = cl.inflight,
         new.inflight_count = cl.inflight_count,
         new.state = cl.state \/ (Live(cl) /\ Live(new)),
         new.generation = cl.generation,
         new.egress_inflight => /\ cl.egress_inflight
                                /\ new.egress_batch_count = cl.egress_batch_count
  PROVE  /\ RecordOK(new)
         /\ Tracking(new) = Tracking(cl)
         /\ \A m : Owned(new, m) = Owned(cl, m)
<1>1. Live(new) = Live(cl) /\ Used(new) = Used(cl) /\ Outgoing(new) = Outgoing(cl)
  BY DEF Live, Used, Outgoing
<1>2. ClientOK(new)
  BY SameQueueAndTable DEF RecordOK, Live
<1>3. TableOK(new) /\ QueueOK(new)
  BY <1>1 DEF RecordOK, TableOK, QueueOK
<1>4. BatchOK(new)
  BY <1>1 DEF RecordOK, BatchOK
<1>5. ASSUME NEW m PROVE Owned(new, m) = Owned(cl, m)
  <2>1. Queued(new, m) = Queued(cl, m) /\ Held(new, m) = Held(cl, m)
    BY <1>1 DEF Queued, Held
  <2> QED
    BY <2>1 DEF Owned
<1> QED
  BY <1>1, <1>2, <1>3, <1>4, <1>5 DEF RecordOK, Tracking

(* A record with nothing in its queue and table. *)
LEMMA EmptyRecord ==
  ASSUME NEW cl, ClientOK(cl), cl.egress = << >>, ~cl.egress_inflight,
         Used(cl) = {} \/ (~Live(cl) /\ TableOK(cl))
  PROVE  RecordOK(cl) /\ \A m : Owned(cl, m) = 0
<1>1. DOMAIN cl.egress = {}
  BY EmptySeq
<1>2. TableOK(cl) /\ QueueOK(cl) /\ BatchOK(cl)
  BY <1>1 DEF TableOK, QueueOK, BatchOK
<1>3. ASSUME NEW m PROVE Queued(cl, m) = {} /\ Held(cl, m) = {}
  BY <1>1 DEF Queued, Held, Outgoing
<1> QED
  BY <1>2, <1>3, FS_EmptySet DEF RecordOK, Owned

(* client_init *)
LEMMA ClientInitRecord ==
  ASSUME NEW cl \in Client, cl.generation < MaxGen
  PROVE  RecordOK(ClientInit(cl)) /\ \A m : Owned(ClientInit(cl), m) = 0
<1> DEFINE new == ClientInit(cl)
<1>1. ClientOK(new)
  BY ClientInitOK
<1>2. new.egress = << >> /\ ~new.egress_inflight /\ new.inflight = EmptyTable
  BY DEF ClientInit, UnusedClient
<1>3. Used(new) = {}
  BY <1>2, EmptyTableOK
<1> QED
  BY <1>1, <1>2, <1>3, EmptyRecord

(* handle_close gives up what the connection owned. *)
LEMMA CloseRecord ==
  ASSUME NEW cl, RecordOK(cl), NEW clean \in BOOLEAN
  PROVE  LET drained == [cl EXCEPT !.egress = << >>]
             new == IF clean THEN ClientFree(FreeAll(drained)) ELSE ClientGoDormant(drained)
         IN  /\ RecordOK(new) /\ ~Live(new)
             /\ new.generation = cl.generation
             /\ ~new.egress_inflight /\ ~new.egress_retry_queued
             /\ \A m : Owned(new, m) = 0
<1> DEFINE drained == [cl EXCEPT !.egress = << >>]
           free == ClientFree(FreeAll(drained))
           dormant == ClientGoDormant(drained)
<1>1. ClientOK(free) /\ ClientOK(dormant)
  BY CloseOK DEF RecordOK
<1>2. drained \in Client /\ drained.egress = << >> /\ drained.inflight = cl.inflight
      /\ drained.generation = cl.generation
  BY EmptySeq DEF RecordOK, ClientOK, Client
<1>3. Used(drained) = Used(cl) /\ TableOK(drained)
  BY <1>2 DEF Used, RecordOK, TableOK
<1> HIDE DEF drained
<1>4. /\ FreeAll(drained) \in Client
      /\ FreeAll(drained).egress = << >> /\ FreeAll(drained).generation = cl.generation
      /\ FreeAll(drained).inflight \in {EmptyTable, drained.inflight}
  BY <1>2, EmptyTableOK DEF FreeAll, Client
<1>5. free.egress = << >> /\ ~free.egress_inflight /\ ~Live(free)
      /\ ~free.egress_retry_queued /\ free.generation = cl.generation
      /\ free.inflight \in {EmptyTable, drained.inflight}
  BY <1>4 DEF ClientFree, Live, Client
<1>6. dormant.egress = << >> /\ ~dormant.egress_inflight /\ ~Live(dormant)
      /\ ~dormant.egress_retry_queued /\ dormant.generation = cl.generation
      /\ dormant.inflight = drained.inflight
  BY <1>2 DEF ClientGoDormant, Live, Client
<1> HIDE DEF free, dormant
<1>7. TableOK(free) /\ TableOK(dormant)
  <2>1. ASSUME NEW new, new.inflight = drained.inflight
        PROVE  TableOK(new)
    BY <1>3, <2>1 DEF TableOK, Used
  <2>2. ASSUME NEW new, new.inflight = EmptyTable
        PROVE  TableOK(new)
    BY <2>2, EmptyTableOK DEF TableOK
  <2> QED
    BY <1>5, <1>6, <2>1, <2>2
<1>8. RecordOK(free) /\ (\A m : Owned(free, m) = 0)
  BY <1>1, <1>5, <1>7, EmptyRecord
<1>9. RecordOK(dormant) /\ (\A m : Owned(dormant, m) = 0)
  BY <1>1, <1>6, <1>7, EmptyRecord
<1>10. CASE clean
  BY <1>5, <1>8, <1>10 DEF free, drained
<1>11. CASE ~clean
  BY <1>6, <1>9, <1>11 DEF dormant, drained
<1> QED
  BY <1>10, <1>11

(* Freeing entries of a connection gives up the references they held.          *)
LEMMA RemoveEntries ==
  ASSUME NEW cl, RecordOK(cl), Live(cl), NEW S \in SUBSET Used(cl), NEW new, ClientOK(new),
         Freed(cl, S, new)
  PROVE  /\ RecordOK(new)
         /\ \A m \in Msgs : /\ Cardinality(Within(cl, S, m)) \in Nat
                            /\ Owned(new, m) = Owned(cl, m) - Cardinality(Within(cl, S, m))
<1> USE DEF Freed
<1>1. Used(new) = Used(cl) \ S /\ Live(new)
      /\ \A s \in Used(new) : new.inflight[s] = cl.inflight[s]
  BY DEF Used, FreeEntry, Live
<1>2. RecordOK(new)
  BY <1>1 DEF RecordOK, TableOK, QueueOK, BatchOK
<1>3. ASSUME NEW m \in Msgs
      PROVE  /\ Cardinality(Within(cl, S, m)) \in Nat
             /\ Owned(new, m) = Owned(cl, m) - Cardinality(Within(cl, S, m))
  <2> DEFINE gone == Within(cl, S, m)
  <2>1. gone \in SUBSET Held(cl, m)
    <3>1. \A s \in gone : cl.inflight[s].direction = "out"
      BY NoMsgAssumption DEF RecordOK, TableOK, Within
    <3> QED
      BY <3>1 DEF Held, Outgoing, Within
  <2>2. Held(new, m) = Held(cl, m) \ gone /\ Queued(new, m) = Queued(cl, m)
    BY <1>1 DEF Held, Outgoing, Queued, Within
  <2>3. /\ IsFiniteSet(Held(cl, m)) /\ Cardinality(Held(cl, m)) \in Nat
        /\ Cardinality(Queued(cl, m)) \in Nat
    BY OwnedNat DEF RecordOK
  <2>4. IsFiniteSet(gone) /\ Cardinality(gone) \in Nat
    BY <2>1, <2>3, FS_Subset, FS_CardinalityType
  <2>5. Held(cl, m) \cap gone = gone
    BY <2>1
  <2>6. Cardinality(Held(new, m)) = Cardinality(Held(cl, m)) - Cardinality(gone)
    BY <2>2, <2>3, <2>5, FS_Difference
  <2> HIDE DEF gone
  <2>7. Owned(new, m) = Owned(cl, m) - Cardinality(gone)
    BY <2>2, <2>3, <2>4, <2>6 DEF Owned
  <2> QED
    BY <2>4, <2>7 DEF gone
<1> QED
  BY <1>2, <1>3

(* client_inflight_free_slot *)
LEMMA FreeSlotRecord ==
  ASSUME NEW cl, RecordOK(cl), Live(cl), NEW s \in Used(cl)
  PROVE  LET new == FreeSlot(cl, s)
         IN  /\ RecordOK(new)
             /\ new.egress = cl.egress /\ new.state = cl.state
             /\ new.generation = cl.generation
             /\ new.egress_inflight = cl.egress_inflight
             /\ new.egress_batch_count = cl.egress_batch_count
             /\ new.egress_retry_queued = cl.egress_retry_queued
             /\ Tracking(new) \subseteq Tracking(cl)
             /\ \A m \in Msgs : Owned(new, m) = Owned(cl, m)
                                  - (IF cl.inflight[s].msg_idx = m THEN 1 ELSE 0)
<1> DEFINE new == FreeSlot(cl, s)
<1>1. /\ ClientOK(new) /\ new.state = cl.state /\ new.generation = cl.generation
      /\ new.egress = cl.egress
  BY FreeSlotOK DEF RecordOK
<1>2. /\ new.egress_inflight = cl.egress_inflight
      /\ new.egress_batch_count = cl.egress_batch_count
      /\ new.egress_retry_queued = cl.egress_retry_queued
      /\ \A t \in InflightIdx : new.inflight[t] = IF t \in {s} THEN FreeEntry
                                                               ELSE cl.inflight[t]
  BY DEF FreeSlot, RecordOK, ClientOK, Client
<1> HIDE DEF new
<1>3. /\ RecordOK(new)
      /\ \A m \in Msgs : Owned(new, m) = Owned(cl, m) - Cardinality(Within(cl, {s}, m))
  <2>1. Freed(cl, {s}, new) /\ {s} \in SUBSET Used(cl)
    BY <1>1, <1>2 DEF Freed
  <2> QED
    BY <1>1, <2>1, RemoveEntries
<1>4. \A m \in Msgs : Cardinality(Within(cl, {s}, m))
                        = IF cl.inflight[s].msg_idx = m THEN 1 ELSE 0
  <2> TAKE m \in Msgs
  <2>1. Within(cl, {s}, m) = IF cl.inflight[s].msg_idx = m THEN {s} ELSE {}
    BY DEF Within
  <2> QED
    BY <2>1, FS_EmptySet, FS_Singleton
<1>5. Tracking(new) \subseteq Tracking(cl)
  BY <1>2 DEF Tracking, Outgoing, Used, FreeEntry
<1> QED
  BY <1>1, <1>2, <1>3, <1>4, <1>5 DEF new

(* client_inflight_track_incoming holds no reference.                          *)
LEMMA TrackIncomingRecord ==
  ASSUME NEW cl, RecordOK(cl), NEW id \in PacketIds
  PROVE  LET new == TrackIncoming(cl, id)
         IN  /\ RecordOK(new)
             /\ new.egress = cl.egress /\ new.state = cl.state
             /\ new.generation = cl.generation
             /\ new.egress_inflight = cl.egress_inflight
             /\ new.egress_batch_count = cl.egress_batch_count
             /\ new.egress_retry_queued = cl.egress_retry_queued
             /\ \A m : Owned(new, m) = Owned(cl, m)
<1> DEFINE new == TrackIncoming(cl, id)
           s == SlotAt(cl, 1)
           entry == [state |-> "WAIT_PUBREL", packet_id |-> id, direction |-> "in",
                     msg_idx |-> NoMsg, qos |-> 2, dup_count |-> 0]
<1>1. ClientOK(new) /\ new.state = cl.state
  BY TrackIncomingOK DEF RecordOK
<1>2. CASE TrackFails(cl) \/ Incoming(cl, id) # {}
  BY <1>2 DEF TrackIncoming
<1>3. CASE ~(TrackFails(cl) \/ Incoming(cl, id) # {})
  <2>1. s \in Unused(cl)
    <3>1. IsFiniteSet(Unused(cl)) /\ Unused(cl) # {}
      BY <1>3, SlotAtLemma DEF TrackFails, RecordOK
    <3>2. Cardinality(Unused(cl)) \in Nat /\ Cardinality(Unused(cl)) # 0
      BY <3>1, FS_EmptySet, FS_CardinalityType
    <3>3. 1 \in 1 .. Cardinality(Unused(cl))
      BY <3>2
    <3> QED
      BY <3>3, SlotAtLemma DEF RecordOK
  <2>2. /\ new.egress = cl.egress /\ new.generation = cl.generation
        /\ new.egress_inflight = cl.egress_inflight
        /\ new.egress_batch_count = cl.egress_batch_count
        /\ new.egress_retry_queued = cl.egress_retry_queued
        /\ new.inflight = [cl.inflight EXCEPT ![s] = entry]
    BY <1>3 DEF TrackIncoming, RecordOK, ClientOK, Client
  <2>3. \A t \in InflightIdx : new.inflight[t] = IF t = s THEN entry ELSE cl.inflight[t]
    BY <2>1, <2>2 DEF RecordOK, ClientOK, Client
  <2> HIDE DEF new, s
  <2>4. Used(new) = Used(cl) \cup {s} /\ s \in InflightIdx
    BY <2>1, <2>3 DEF Used, Unused
  <2>5. TableOK(new)
    BY <2>1, <2>3, <2>4 DEF RecordOK, TableOK, Unused, Used
  <2>6. Live(new) = Live(cl) /\ QueueOK(new) /\ BatchOK(new)
    BY <1>1, <2>2 DEF Live, RecordOK, QueueOK, BatchOK
  <2>7. ASSUME NEW m
        PROVE  Owned(new, m) = Owned(cl, m)
    <3>1. Outgoing(new) = Outgoing(cl)
      BY <2>1, <2>3, <2>4 DEF Outgoing, Used, Unused
    <3>2. \A t \in Outgoing(cl) : new.inflight[t] = cl.inflight[t]
      BY <2>1, <2>3 DEF Outgoing, Used, Unused
    <3>3. Held(new, m) = Held(cl, m) /\ Queued(new, m) = Queued(cl, m)
      BY <2>2, <2>6, <3>1, <3>2 DEF Held, Queued
    <3> QED
      BY <3>3 DEF Owned
  <2> QED
    BY <1>1, <2>2, <2>5, <2>6, <2>7 DEF RecordOK, new
<1> QED
  BY <1>2, <1>3

(* A segment at the end of the queue adds the reference it owns, if it does,   *)
(* and no more; the batch under way is not touched.                            *)
LEMMA PushRecord ==
  ASSUME NEW cl, RecordOK(cl), Live(cl), ~EgressFull(cl),
         NEW seg \in Segment, seg.slot_gen = cl.generation, seg.cursor = 0,
         seg.kind = "PUBLISH" => seg.msg_idx \in Msgs /\ (seg.qos = 0 => seg.packet_id = 0)
  PROVE  LET new == Push(cl, seg)
         IN  /\ RecordOK(new)
             /\ new.state = cl.state /\ new.generation = cl.generation
             /\ new.egress = Append(cl.egress, seg)
             /\ new.egress_inflight = cl.egress_inflight
             /\ new.egress_batch_count = cl.egress_batch_count
             /\ new.egress_retry_queued = cl.egress_retry_queued
             /\ \A m : Owned(new, m) = Owned(cl, m)
                         + (IF OwnsRef(seg) /\ seg.msg_idx = m THEN 1 ELSE 0)
<1> DEFINE new == Push(cl, seg)
           n == Len(cl.egress)
<1>1. ClientOK(new)
  BY PushOK DEF RecordOK, Live
<1>2. cl.egress \in Seq(Segment) /\ n \in Nat /\ DOMAIN cl.egress = 1 .. n
  BY LenProperties DEF RecordOK, ClientOK, Client
<1>3. /\ new.state = cl.state /\ new.generation = cl.generation
      /\ new.egress = Append(cl.egress, seg)
      /\ new.inflight = cl.inflight
      /\ new.egress_inflight = cl.egress_inflight
      /\ new.egress_batch_count = cl.egress_batch_count
      /\ new.egress_retry_queued = cl.egress_retry_queued
  BY DEF Push, RecordOK, ClientOK, Client
<1>4. /\ DOMAIN new.egress = 1 .. n + 1 /\ Len(new.egress) = n + 1
      /\ new.egress[n + 1] = seg
      /\ \A i \in 1 .. n : new.egress[i] = cl.egress[i]
  BY <1>2, <1>3, AppendProperties
<1> HIDE DEF new
<1>5. QueueOK(new)
  <2>1. \A i \in 1 .. n + 1 : i \in 1 .. n \/ i = n + 1
    BY <1>2
  <2> QED
    BY <1>2, <1>4, <2>1 DEF RecordOK, QueueOK
<1>6. Live(new) = Live(cl) /\ Used(new) = Used(cl) /\ Outgoing(new) = Outgoing(cl)
  BY <1>3 DEF Live, Used, Outgoing
<1>7. TableOK(new)
  BY <1>3, <1>6 DEF RecordOK, TableOK
<1>8. BatchOK(new)
  <2> SUFFICES ASSUME new.egress_inflight
               PROVE  /\ new.egress_batch_count \in 1 .. Len(new.egress)
                      /\ \A i \in 1 .. new.egress_batch_count : ~NeedsId(new.egress[i])
    BY <1>6 DEF BatchOK
  <2>1. /\ cl.egress_batch_count \in 1 .. n
        /\ \A i \in 1 .. cl.egress_batch_count : ~NeedsId(cl.egress[i])
    BY <1>3 DEF RecordOK, BatchOK
  <2>2. \A i \in 1 .. cl.egress_batch_count : i \in 1 .. n
    BY <1>2, <2>1
  <2> QED
    BY <1>2, <1>3, <1>4, <2>1, <2>2
<1>9. ASSUME NEW m
      PROVE  Owned(new, m) = Owned(cl, m)
                               + (IF OwnsRef(seg) /\ seg.msg_idx = m THEN 1 ELSE 0)
  <2>1. Held(new, m) = Held(cl, m)
    BY <1>3, <1>6 DEF Held
  <2>2. Queued(new, m) = Queued(cl, m)
                           \cup (IF OwnsRef(seg) /\ seg.msg_idx = m THEN {n + 1} ELSE {})
    <3>1. \A i \in 1 .. n + 1 : i \in 1 .. n \/ i = n + 1
      BY <1>2
    <3>2. \A i \in 1 .. n : i \in 1 .. n + 1
      BY <1>2
    <3>3. n + 1 \in 1 .. n + 1
      BY <1>2
    <3> QED
      BY <1>2, <1>4, <3>1, <3>2, <3>3 DEF Queued
  <2>3. n + 1 \notin Queued(cl, m)
    BY <1>2 DEF Queued
  <2>4. /\ IsFiniteSet(Queued(cl, m)) /\ Cardinality(Queued(cl, m)) \in Nat
        /\ Cardinality(Held(cl, m)) \in Nat
    BY OwnedNat DEF RecordOK
  <2>5. Cardinality(Queued(cl, m) \cup {n + 1}) = Cardinality(Queued(cl, m)) + 1
    BY <2>3, <2>4, FS_AddElement
  <2>6. CASE OwnsRef(seg) /\ seg.msg_idx = m
    BY <2>1, <2>2, <2>4, <2>5, <2>6 DEF Owned
  <2>7. CASE ~(OwnsRef(seg) /\ seg.msg_idx = m)
    <3>1. Queued(new, m) = Queued(cl, m)
      BY <2>2, <2>7
    <3> QED
      BY <2>1, <2>4, <2>7, <3>1 DEF Owned
  <2> QED
    BY <2>6, <2>7
<1> QED
  BY <1>1, <1>3, <1>5, <1>7, <1>8, <1>9 DEF RecordOK, new

(* A retransmission counts a retry in an entry and nothing else.               *)
LEMMA RetryRecord ==
  ASSUME NEW cl, RecordOK(cl), NEW s \in Used(cl)
  PROVE  LET new == [cl EXCEPT !.inflight[s].dup_count = @ + 1]
         IN  /\ RecordOK(new)
             /\ new.egress = cl.egress /\ new.state = cl.state
             /\ new.generation = cl.generation
             /\ new.egress_inflight = cl.egress_inflight
             /\ new.egress_batch_count = cl.egress_batch_count
             /\ new.egress_retry_queued = cl.egress_retry_queued
             /\ Tracking(new) = Tracking(cl)
             /\ \A m : Owned(new, m) = Owned(cl, m)
<1> DEFINE new == [cl EXCEPT !.inflight[s].dup_count = @ + 1]
<1>1. ClientOK(new) /\ new.state = cl.state /\ new.generation = cl.generation
      /\ new.egress = cl.egress
  BY RetryOK DEF RecordOK
<1>2. /\ new.egress_inflight = cl.egress_inflight
      /\ new.egress_batch_count = cl.egress_batch_count
      /\ new.egress_retry_queued = cl.egress_retry_queued
      /\ new.inflight = [cl.inflight EXCEPT ![s].dup_count = @ + 1]
  BY DEF RecordOK, ClientOK, Client
<1>3. ASSUME NEW t \in InflightIdx
      PROVE  /\ new.inflight[t].state = cl.inflight[t].state
             /\ new.inflight[t].direction = cl.inflight[t].direction
             /\ new.inflight[t].msg_idx = cl.inflight[t].msg_idx
             /\ new.inflight[t].qos = cl.inflight[t].qos
             /\ new.inflight[t].packet_id = cl.inflight[t].packet_id
  BY <1>2 DEF RecordOK, ClientOK, Client, Entry, Used
<1> HIDE DEF new
<1>4. Used(new) = Used(cl) /\ Outgoing(new) = Outgoing(cl) /\ Live(new) = Live(cl)
  BY <1>1, <1>3 DEF Used, Outgoing, Live
<1>5. TableOK(new)
  BY <1>3, <1>4 DEF RecordOK, TableOK, Used
<1>6. QueueOK(new) /\ BatchOK(new)
  BY <1>1, <1>2, <1>4 DEF RecordOK, QueueOK, BatchOK
<1>7. ASSUME NEW m
      PROVE  Owned(new, m) = Owned(cl, m)
  <2>1. Queued(new, m) = Queued(cl, m) /\ Held(new, m) = Held(cl, m)
    BY <1>1, <1>3, <1>4 DEF Queued, Held, Outgoing, Used
  <2> QED
    BY <2>1 DEF Owned
<1> QED
  BY <1>1, <1>2, <1>4, <1>5, <1>6, <1>7 DEF RecordOK, new, Tracking

(* The segments among the first n that egress owns for m. *)
QueuedUpTo(cl, n, m) == {i \in Queued(cl, m) : i <= n}

(* egress_pop, n times, with no batch under way gives up what the first n own. *)
LEMMA DropRecord ==
  ASSUME NEW cl, RecordOK(cl), ~cl.egress_inflight, NEW n \in Nat
  PROVE  LET new == Drop(cl, n)
         IN  /\ RecordOK(new)
             /\ new.state = cl.state /\ new.generation = cl.generation
             /\ ~new.egress_inflight
             /\ new.egress_retry_queued = cl.egress_retry_queued
             /\ \A m : /\ Cardinality(QueuedUpTo(cl, n, m)) \in Nat
                       /\ Owned(new, m) = Owned(cl, m) - Cardinality(QueuedUpTo(cl, n, m))
<1> DEFINE new == Drop(cl, n)
<1>1. ClientOK(new) /\ new.state = cl.state /\ new.generation = cl.generation
  BY DropOK DEF RecordOK
<1>2. cl.egress \in Seq(Segment) /\ Len(cl.egress) \in Nat
      /\ DOMAIN cl.egress = 1 .. Len(cl.egress)
  BY LenProperties DEF RecordOK, ClientOK, Client
<1>3. /\ new.egress_inflight = cl.egress_inflight
      /\ new.egress_retry_queued = cl.egress_retry_queued
      /\ new.inflight = cl.inflight
      /\ new.egress = SubSeq(cl.egress, n + 1, Len(cl.egress))
  BY DEF Drop, RecordOK, ClientOK, Client
<1> DEFINE left == IF n < Len(cl.egress) THEN Len(cl.egress) - n ELSE 0
<1>4. /\ DOMAIN new.egress = 1 .. left
      /\ \A i \in 1 .. left : i + n \in 1 .. Len(cl.egress) /\ new.egress[i] = cl.egress[i + n]
  <2>1. \A i \in n + 1 .. Len(cl.egress) : cl.egress[i] \in Segment
    BY <1>2, ElementOfSeq
  <2>2. /\ new.egress \in Seq(Segment)
        /\ Len(new.egress) = IF n + 1 <= Len(cl.egress) THEN Len(cl.egress) - (n + 1) + 1 ELSE 0
        /\ \A i \in 1 .. Len(cl.egress) - (n + 1) + 1 :
             new.egress[i] = cl.egress[(n + 1) + i - 1]
    BY <1>2, <1>3, <2>1, n + 1 \in Int, SubSeqProperties
  <2>3. Len(new.egress) = left /\ DOMAIN new.egress = 1 .. left
    BY <1>2, <2>2, LenProperties
  <2>4. ASSUME NEW i \in 1 .. left
        PROVE  i + n \in 1 .. Len(cl.egress) /\ new.egress[i] = cl.egress[i + n]
    <3>1. i \in 1 .. Len(cl.egress) - (n + 1) + 1 /\ (n + 1) + i - 1 = i + n
      BY <1>2
    <3> QED
      BY <1>2, <2>2, <3>1
  <2> QED
    BY <2>3, <2>4
<1> HIDE DEF new
<1>5. Used(new) = Used(cl) /\ Outgoing(new) = Outgoing(cl) /\ Live(new) = Live(cl)
  BY <1>1, <1>3 DEF Used, Outgoing, Live
<1>6. TableOK(new) /\ BatchOK(new)
  BY <1>3, <1>5 DEF RecordOK, TableOK, BatchOK
<1>7. QueueOK(new)
  BY <1>2, <1>4 DEF RecordOK, QueueOK
<1>8. ASSUME NEW m
      PROVE  /\ Cardinality(QueuedUpTo(cl, n, m)) \in Nat
             /\ Owned(new, m) = Owned(cl, m) - Cardinality(QueuedUpTo(cl, n, m))
  <2> DEFINE rest == Queued(cl, m) \ QueuedUpTo(cl, n, m)
             f == [i \in Queued(new, m) |-> i + n]
  <2>1. /\ Queued(cl, m) \in SUBSET (1 .. Len(cl.egress)) /\ IsFiniteSet(Queued(cl, m))
        /\ Cardinality(Queued(cl, m)) \in Nat /\ Cardinality(Held(cl, m)) \in Nat
    BY OwnedNat DEF RecordOK
  <2>2. /\ Queued(new, m) \in SUBSET (1 .. left) /\ IsFiniteSet(Queued(new, m))
        /\ Cardinality(Queued(new, m)) \in Nat
    <3>1. Queued(new, m) \in SUBSET (1 .. left)
      BY <1>4 DEF Queued
    <3> QED
      BY <1>1, <3>1, OwnedNat
  <2>3. Held(new, m) = Held(cl, m)
    BY <1>3, <1>5 DEF Held
  <2>4. /\ QueuedUpTo(cl, n, m) \in SUBSET Queued(cl, m)
        /\ IsFiniteSet(QueuedUpTo(cl, n, m))
        /\ Cardinality(QueuedUpTo(cl, n, m)) \in Nat
        /\ Queued(cl, m) \cap QueuedUpTo(cl, n, m) = QueuedUpTo(cl, n, m)
    <3>1. QueuedUpTo(cl, n, m) \in SUBSET Queued(cl, m)
      BY DEF QueuedUpTo
    <3> QED
      BY <2>1, <3>1, FS_Subset, FS_CardinalityType
  <2>5. Cardinality(rest) = Cardinality(Queued(cl, m)) - Cardinality(QueuedUpTo(cl, n, m))
    BY <2>1, <2>4, FS_Difference
  <2>6. ASSUME NEW i \in Queued(new, m)
        PROVE  i + n \in rest
    <3>1. i \in 1 .. left
      BY <2>2
    <3>2. i + n \in 1 .. Len(cl.egress) /\ new.egress[i] = cl.egress[i + n]
      BY <1>4, <3>1
    <3>3. i + n \in Queued(cl, m)
      BY <1>2, <3>2 DEF Queued
    <3>4. ~(i + n <= n)
      BY <3>1
    <3> QED
      BY <3>3, <3>4 DEF QueuedUpTo
  <2>7. ASSUME NEW j \in rest
        PROVE  \E i \in Queued(new, m) : f[i] = j
    <3>1. j \in 1 .. Len(cl.egress) /\ j > n /\ j \in Queued(cl, m)
      BY <2>1 DEF QueuedUpTo
    <3>2. j - n \in 1 .. left /\ (j - n) + n = j
      BY <1>2, <3>1
    <3>3. new.egress[j - n] = cl.egress[j]
      BY <1>4, <3>2
    <3>4. j - n \in Queued(new, m)
      BY <1>4, <3>1, <3>2, <3>3 DEF Queued
    <3> QED
      BY <3>2, <3>4
  <2>8. f \in Bijection(Queued(new, m), rest)
    <3>1. f \in [Queued(new, m) -> rest]
      BY <2>6
    <3>2. ASSUME NEW i \in Queued(new, m), NEW j \in Queued(new, m), f[i] = f[j]
          PROVE  i = j
      <4>1. i \in Int /\ j \in Int
        BY <2>2
      <4>2. i + n = j + n
        BY <3>2
      <4> QED
        BY <4>1, <4>2
    <3> QED
      BY <2>7, <3>1, <3>2 DEF Bijection, Injection, Surjection, IsInjective
  <2>9. Cardinality(rest) = Cardinality(Queued(new, m))
    <3>1. ExistsBijection(Queued(new, m), rest)
      BY <2>8 DEF ExistsBijection
    <3> QED
      BY <2>2, <3>1, FS_Bijection
  <2> HIDE DEF rest
  <2> QED
    BY <2>1, <2>2, <2>3, <2>4, <2>5, <2>9 DEF Owned
<1> QED
  BY <1>1, <1>3, <1>6, <1>7, <1>8 DEF RecordOK, new

-------------------------------------------------------------------------------
(* egress_flush on a record.                                                   *)

(* What assigning packet ids writes. *)
LEMMA AssignFields ==
  ASSUME NEW cl, NEW bare, ClientOK(cl)
  PROVE  LET new == Assign(cl, bare)
         IN  /\ DOMAIN new.egress = 1 .. Len(cl.egress)
             /\ DOMAIN cl.egress = 1 .. Len(cl.egress)
             /\ \A i \in 1 .. Len(cl.egress) :
                  new.egress[i] = IF i \in Fresh(cl, bare)
                                  THEN [cl.egress[i] EXCEPT !.packet_id = IdOf(cl, bare, SlotOf(cl, i))]
                                  ELSE cl.egress[i]
             /\ \A s \in InflightIdx :
                  new.inflight[s] = IF s \in Taken(cl, bare) THEN NewEntry(SegOf(cl, bare, s), IdOf(cl, bare, s))
                                                       ELSE cl.inflight[s]
             /\ new.egress_inflight = cl.egress_inflight
             /\ new.egress_batch_count = cl.egress_batch_count
<1>1. DOMAIN cl.egress = 1 .. Len(cl.egress)
  BY LenProperties DEF ClientOK, Client
<1> DEFINE queue == [i \in DOMAIN cl.egress |->
                       IF i \in Fresh(cl, bare)
                       THEN [cl.egress[i] EXCEPT !.packet_id = IdOf(cl, bare, SlotOf(cl, i))]
                       ELSE cl.egress[i]]
           table == [s \in InflightIdx |->
                       IF s \in Taken(cl, bare) THEN NewEntry(SegOf(cl, bare, s), IdOf(cl, bare, s))
                                          ELSE cl.inflight[s]]
<1>2. /\ Assign(cl, bare).egress = queue /\ Assign(cl, bare).inflight = table
      /\ Assign(cl, bare).egress_inflight = cl.egress_inflight
      /\ Assign(cl, bare).egress_batch_count = cl.egress_batch_count
  BY DEF Assign, ClientOK, Client
<1> QED
  BY <1>1, <1>2

(* The packet id given to a slot is not 0 and leads back to it.                *)
LEMMA IdOfLemma ==
  ASSUME NEW cl, NEW bare, ClientOK(cl), NEW s \in InflightIdx
  PROVE  /\ IdOf(cl, bare, s) \in PacketIds
         /\ IdOf(cl, bare, s) # 0
         /\ (IdOf(cl, bare, s) - 1) % MaxInflight = s
<1> DEFINE wrapped == 0 \in Taken(cl, bare) /\ SearchPos(cl, 0) < SearchPos(cl, s)
           gen == cl.inflight_generation + (IF wrapped THEN 1 ELSE 0)
<1>1. gen \in Nat
  BY DEF ClientOK, Client
<1>2. IdOf(cl, bare, s) = PacketIdOf(gen, s)
  BY DEF IdOf
<1> HIDE DEF gen
<1> QED
  BY <1>1, <1>2, PacketIdLemma, PacketIdBack

(* egress_flush moves the references of the first transmissions in a batch from *)
(* the queue to the table, and leaves every segment of the batch with its id.   *)
LEMMA AssignRecord ==
  ASSUME NEW cl, NEW bare, RecordOK(cl), Live(cl), ~cl.egress_inflight
  PROVE  LET new == Assign(cl, bare)
         IN  /\ RecordOK(new)
             /\ new.state = cl.state /\ new.generation = cl.generation
             /\ ~new.egress_inflight
             /\ new.egress_retry_queued = cl.egress_retry_queued
             /\ Len(new.egress) = Len(cl.egress)
             /\ BatchLen(cl, bare) \in 0 .. Len(cl.egress)
             /\ \A i \in 1 .. BatchLen(cl, bare) : ~NeedsId(new.egress[i])
             /\ Tracking(new) = Tracking(cl)
             /\ \A m : Owned(new, m) = Owned(cl, m)
<1> DEFINE new == Assign(cl, bare)
           n == Len(cl.egress)
<1>1. /\ ClientOK(cl) /\ ClientOK(new)
      /\ new.state = cl.state /\ new.generation = cl.generation
      /\ Len(new.egress) = n
      /\ new.egress_retry_queued = cl.egress_retry_queued
  BY AssignOK DEF RecordOK
<1>2. /\ DOMAIN new.egress = 1 .. n /\ DOMAIN cl.egress = 1 .. n
      /\ \A i \in 1 .. n :
           new.egress[i] = IF i \in Fresh(cl, bare)
                           THEN [cl.egress[i] EXCEPT !.packet_id = IdOf(cl, bare, SlotOf(cl, i))]
                           ELSE cl.egress[i]
      /\ \A s \in InflightIdx :
           new.inflight[s] = IF s \in Taken(cl, bare) THEN NewEntry(SegOf(cl, bare, s), IdOf(cl, bare, s))
                                                ELSE cl.inflight[s]
      /\ new.egress_inflight = cl.egress_inflight
  BY <1>1, AssignFields
<1> HIDE DEF new
<1>3. /\ BatchLen(cl, bare) \in 0 .. n /\ n \in Nat
      /\ IsFiniteSet(Fresh(cl, bare)) /\ Fresh(cl, bare) \in SUBSET (1 .. n)
      /\ Taken(cl, bare) \in SUBSET Unused(cl) /\ Taken(cl, bare) \in SUBSET InflightIdx
      /\ \A i \in Fresh(cl, bare) : SlotOf(cl, i) \in Taken(cl, bare)
      /\ \A i, j \in Fresh(cl, bare) : SlotOf(cl, i) = SlotOf(cl, j) => i = j
  BY <1>1, BatchLemma, SlotOfLemma, LenProperties DEF Unused, Taken, ClientOK, Client
<1>4. ASSUME NEW i \in 1 .. n
      PROVE  /\ cl.egress[i] \in Segment
             /\ new.egress[i].kind = cl.egress[i].kind
             /\ new.egress[i].msg_idx = cl.egress[i].msg_idx
             /\ new.egress[i].qos = cl.egress[i].qos
             /\ i \notin Fresh(cl, bare) => new.egress[i] = cl.egress[i]
             /\ i \in Fresh(cl, bare) => /\ new.egress[i].packet_id = IdOf(cl, bare, SlotOf(cl, i))
                                   /\ new.egress[i].packet_id # 0
                                   /\ OwnsRef(cl.egress[i]) /\ cl.egress[i].qos > 0
  <2>1. cl.egress[i] \in Segment
    BY <1>1, ElementOfSeq DEF ClientOK, Client
  <2>2. CASE i \notin Fresh(cl, bare)
    BY <1>2, <2>1, <2>2
  <2>3. CASE i \in Fresh(cl, bare)
    <3>1. new.egress[i] = [cl.egress[i] EXCEPT !.packet_id = IdOf(cl, bare, SlotOf(cl, i))]
      BY <1>2, <2>3
    <3>2. IdOf(cl, bare, SlotOf(cl, i)) # 0
      <4>1. SlotOf(cl, i) \in InflightIdx
        BY <1>3, <2>3
      <4> QED
        BY <1>1, <4>1, IdOfLemma
    <3>3. OwnsRef(cl.egress[i]) /\ cl.egress[i].qos > 0
      BY <2>3 DEF Fresh, NeedsIdUpTo, NeedsId
    <3> QED
      BY <2>1, <2>3, <3>1, <3>2, <3>3 DEF Segment
  <2> QED
    BY <2>2, <2>3
<1>5. ASSUME NEW i \in Fresh(cl, bare)
      PROVE  SegOf(cl, bare, SlotOf(cl, i)) = cl.egress[i]
  <2>1. (CHOOSE j \in Fresh(cl, bare) : SlotOf(cl, j) = SlotOf(cl, i)) = i
    BY <1>3
  <2> QED
    BY <2>1 DEF SegOf
<1>6. \A i \in 1 .. BatchLen(cl, bare) : ~NeedsId(new.egress[i])
  <2> SUFFICES ASSUME NEW i \in 1 .. BatchLen(cl, bare)
               PROVE  ~NeedsId(new.egress[i])
    OBVIOUS
  <2>1. i \in 1 .. n
    BY <1>3
  <2>2. CASE i \in Fresh(cl, bare)
    BY <1>4, <2>1, <2>2 DEF NeedsId, OwnsRef
  <2>3. CASE i \notin Fresh(cl, bare)
    <3>1. ~NeedsId(cl.egress[i])
      BY <1>2, <2>1, <2>3 DEF Fresh, NeedsIdUpTo
    <3> QED
      BY <1>4, <2>1, <2>3, <3>1
  <2> QED
    BY <2>2, <2>3
<1>7. QueueOK(new)
  <2> SUFFICES ASSUME NEW i \in 1 .. n, new.egress[i].kind = "PUBLISH"
               PROVE  /\ new.egress[i].msg_idx \in Msgs
                      /\ new.egress[i].qos = 0 => new.egress[i].packet_id = 0
    BY <1>2 DEF QueueOK
  <2>1. /\ cl.egress[i].msg_idx \in Msgs
        /\ cl.egress[i].qos = 0 => cl.egress[i].packet_id = 0
    BY <1>2, <1>4 DEF RecordOK, QueueOK
  <2> QED
    BY <1>4, <2>1
<1>8. ASSUME NEW s \in Taken(cl, bare)
      PROVE  /\ \E i \in Fresh(cl, bare) : SlotOf(cl, i) = s /\ new.inflight[s].msg_idx = cl.egress[i].msg_idx
             /\ new.inflight[s].direction = "out"
             /\ new.inflight[s].state \in {"WAIT_PUBACK", "WAIT_PUBREC"}
             /\ new.inflight[s].msg_idx \in Msgs /\ new.inflight[s].qos > 0
             /\ new.inflight[s].packet_id # 0
             /\ (new.inflight[s].packet_id - 1) % MaxInflight = s
  <2>1. PICK i \in Fresh(cl, bare) : SlotOf(cl, i) = s
    BY DEF Taken
  <2>2. new.inflight[s] = NewEntry(cl.egress[i], IdOf(cl, bare, s))
    BY <1>2, <1>3, <1>5, <2>1
  <2>3. /\ cl.egress[i].kind = "PUBLISH" /\ cl.egress[i].qos > 0 /\ i \in 1 .. n
        /\ cl.egress[i].msg_idx \in Msgs
    BY <1>2, <1>3, <1>4 DEF OwnsRef, RecordOK, QueueOK
  <2>4. IdOf(cl, bare, s) # 0 /\ (IdOf(cl, bare, s) - 1) % MaxInflight = s
    BY <1>1, <1>3, IdOfLemma
  <2> QED
    BY <2>1, <2>2, <2>3, <2>4 DEF NewEntry
<1>9. Used(new) = Used(cl) \cup Taken(cl, bare) /\ Used(cl) \cap Taken(cl, bare) = {}
      /\ \A s \in Used(cl) : new.inflight[s] = cl.inflight[s]
  <2>1. \A s \in Taken(cl, bare) : new.inflight[s].state # "FREE"
    BY <1>8
  <2> QED
    BY <1>2, <1>3, <2>1 DEF Used, Unused
<1>10. TableOK(new)
  BY <1>8, <1>9 DEF RecordOK, TableOK
<1>11. BatchOK(new) /\ Tracking(new) = Tracking(cl)
  <2>1. Tracking(new) = Tracking(cl)
    BY <1>8, <1>9 DEF Tracking, Outgoing
  <2> QED
    BY <1>2, <2>1 DEF BatchOK
<1>12. ASSUME NEW m
       PROVE  Owned(new, m) = Owned(cl, m)
  <2> DEFINE moved == {i \in Fresh(cl, bare) : cl.egress[i].msg_idx = m}
             taken == {s \in Taken(cl, bare) : new.inflight[s].msg_idx = m}
             f == [i \in moved |-> SlotOf(cl, i)]
  <2>1. /\ IsFiniteSet(Queued(cl, m)) /\ Cardinality(Queued(cl, m)) \in Nat
        /\ IsFiniteSet(Held(cl, m)) /\ Cardinality(Held(cl, m)) \in Nat
    BY OwnedNat DEF RecordOK
  <2>2. moved \in SUBSET Queued(cl, m)
    <3>1. \A i \in Fresh(cl, bare) : i \in 1 .. n
      BY <1>3
    <3> QED
      BY <1>2, <1>4, <3>1 DEF Queued
  <2>3. Queued(new, m) = Queued(cl, m) \ moved
    BY <1>2, <1>4 DEF Queued, OwnsRef
  <2>4. IsFiniteSet(moved) /\ Cardinality(moved) \in Nat
        /\ Cardinality(Queued(new, m)) = Cardinality(Queued(cl, m)) - Cardinality(moved)
    <3>1. IsFiniteSet(moved) /\ Cardinality(moved) \in Nat
      BY <2>1, <2>2, FS_Subset, FS_CardinalityType
    <3>2. Queued(cl, m) \cap moved = moved
      BY <2>2
    <3> QED
      BY <2>1, <2>3, <3>1, <3>2, FS_Difference
  <2>5. Held(new, m) = Held(cl, m) \cup taken /\ Held(cl, m) \cap taken = {}
    <3>1. Live(new) /\ Live(cl)
      BY <1>1 DEF Live
    <3> QED
      BY <1>8, <1>9, <3>1 DEF Held, Outgoing
  <2>6. f \in Bijection(moved, taken)
    <3>1. ASSUME NEW i \in moved
          PROVE  SlotOf(cl, i) \in taken
      <4>1. SlotOf(cl, i) \in Taken(cl, bare)
        BY <1>3
      <4>2. PICK j \in Fresh(cl, bare) : /\ SlotOf(cl, j) = SlotOf(cl, i)
                                   /\ new.inflight[SlotOf(cl, i)].msg_idx = cl.egress[j].msg_idx
        BY <1>8, <4>1
      <4> QED
        BY <1>3, <4>1, <4>2
    <3>2. f \in [moved -> taken]
      BY <3>1
    <3>3. \A i, j \in moved : f[i] = f[j] => i = j
      BY <1>3
    <3>4. \A s \in taken : \E i \in moved : f[i] = s
      BY <1>8
    <3> QED
      BY <3>2, <3>3, <3>4 DEF Bijection, Injection, Surjection, IsInjective
  <2>7. IsFiniteSet(taken) /\ Cardinality(taken) = Cardinality(moved)
    <3>1. ExistsBijection(moved, taken)
      BY <2>6 DEF ExistsBijection
    <3> QED
      BY <2>4, <3>1, FS_Bijection
  <2>8. Cardinality(Held(new, m)) = Cardinality(Held(cl, m)) + Cardinality(moved)
    <3>1. Cardinality(Held(cl, m) \cup taken)
            = Cardinality(Held(cl, m)) + Cardinality(taken) - Cardinality(Held(cl, m) \cap taken)
      BY <2>1, <2>7, FS_Union
    <3>2. Cardinality(Held(cl, m) \cap taken) = 0
      BY <2>5, FS_EmptySet
    <3> QED
      BY <2>1, <2>4, <2>5, <2>7, <3>1, <3>2
  <2> HIDE DEF moved
  <2> QED
    BY <2>1, <2>4, <2>8 DEF Owned
<1> QED
  BY <1>1, <1>2, <1>3, <1>6, <1>7, <1>10, <1>11, <1>12 DEF RecordOK, new

(* EGRESS_FLUSH_SUBMITTED *)
LEMMA SubmitRecord ==
  ASSUME NEW cl, NEW bare, RecordOK(cl), ~FlushNoop(cl, bare)
  PROVE  LET new == Submit(cl, bare)
         IN  /\ RecordOK(new)
             /\ new.state = cl.state /\ new.generation = cl.generation
             /\ new.egress_inflight
             /\ new.egress_batch_count = BatchLen(cl, bare)
             /\ new.egress = Assign(cl, bare).egress
             /\ new.egress_retry_queued = cl.egress_retry_queued
             /\ Tracking(new) = Tracking(cl)
             /\ \A m : Owned(new, m) = Owned(cl, m)
<1> DEFINE a == Assign(cl, bare)
           new == Submit(cl, bare)
<1>1. Live(cl) /\ ~cl.egress_inflight /\ BatchLen(cl, bare) # 0
  BY DEF FlushNoop, Live
<1>2. /\ RecordOK(a) /\ a.state = cl.state /\ a.generation = cl.generation
      /\ a.egress_retry_queued = cl.egress_retry_queued
      /\ Len(a.egress) = Len(cl.egress)
      /\ BatchLen(cl, bare) \in 0 .. Len(cl.egress)
      /\ \A i \in 1 .. BatchLen(cl, bare) : ~NeedsId(a.egress[i])
      /\ Tracking(a) = Tracking(cl)
      /\ \A m : Owned(a, m) = Owned(cl, m)
  BY <1>1, AssignRecord
<1>3. a \in Client /\ Len(cl.egress) \in Nat
  BY <1>2, LenProperties DEF RecordOK, ClientOK, Client
<1>4. new = [a EXCEPT !.egress_inflight = TRUE, !.egress_batch_count = BatchLen(cl, bare)]
  BY DEF Submit
<1> HIDE DEF a, new
<1>5. /\ new \in Client /\ new.egress = a.egress /\ new.inflight = a.inflight
      /\ new.inflight_count = a.inflight_count
      /\ new.state = a.state /\ new.generation = a.generation
      /\ new.egress_inflight /\ new.egress_batch_count = BatchLen(cl, bare)
      /\ new.egress_retry_queued = a.egress_retry_queued
  <2>1. BatchLen(cl, bare) \in Nat
    BY <1>2, <1>3
  <2>2. new.egress_inflight = TRUE
    BY <1>3, <1>4 DEF Client
  <2> QED
    BY <1>3, <1>4, <2>1, <2>2 DEF Client
<1>6. Live(new) = Live(a) /\ Live(a) /\ Used(new) = Used(a) /\ Outgoing(new) = Outgoing(a)
  BY <1>1, <1>2, <1>5 DEF Live, Used, Outgoing
<1>7. ClientOK(new)
  BY <1>2, <1>5, SameQueueAndTable DEF RecordOK
<1>8. TableOK(new) /\ QueueOK(new)
  BY <1>2, <1>5, <1>6 DEF RecordOK, TableOK, QueueOK
<1>9. BatchOK(new)
  BY <1>1, <1>2, <1>3, <1>5, <1>6 DEF BatchOK
<1>10. ASSUME NEW m PROVE Owned(new, m) = Owned(a, m)
  <2>1. Queued(new, m) = Queued(a, m) /\ Held(new, m) = Held(a, m)
    BY <1>5, <1>6 DEF Queued, Held
  <2> QED
    BY <2>1 DEF Owned
<1>11. Tracking(new) = Tracking(a)
  BY <1>6 DEF Tracking
<1> QED
  BY <1>2, <1>5, <1>7, <1>8, <1>9, <1>10, <1>11 DEF RecordOK, new, a
===============================================================================
