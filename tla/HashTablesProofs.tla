---------------------------- MODULE HashTablesProofs ----------------------------
(***************************************************************************)
(* The two open-addressing tables answer exactly, for every size of the    *)
(* tables, every set of packet ids and client hashes, and any sequence of  *)
(* insertions and removals.                                                *)
(*                                                                         *)
(* Both proofs rest on one idea: an entry is reachable when no empty       *)
(* position lies between the natural position of its key and its own,      *)
(* going round the table.  Between says so without remainders, and the     *)
(* first lemmas tie it to the steps that the code takes.                   *)
(***************************************************************************)
EXTENDS HashTables, FiniteSetTheorems, TLAPS

-------------------------------------------------------------------------------
(* Probing.                                                                    *)

(* A set of natural numbers that is not empty has a first element.             *)
LEMMA FirstLemma ==
  ASSUME NEW S, S \subseteq Nat, S # {}
  PROVE  First(S) \in S /\ \A j \in S : First(S) <= j
<1> DEFINE R == OpToRel(<, Nat)
<1>1. IsWellFoundedOn(R, Nat)
  BY NatLessThanWellFounded
<1>2. \A x, y \in Nat : x < y => <<x, y>> \in R
  BY DEF OpToRel
<1> HIDE DEF R
<1>3. PICK m \in S : \A y \in S : ~ (<<y, m>> \in R)
  BY <1>1, WFMin
<1>4. \A x \in S : ~ (x < m)
  BY <1>2, <1>3
<1>5. \E k \in S : \A j \in S : k <= j
  BY <1>4
<1> QED
  BY <1>5 DEF First

(* Going on from position a, one meets e before, or when, one meets q.         *)
Between(a, e, q) == IF a <= q THEN a <= e /\ e <= q ELSE a <= e \/ e <= q

(* The steps from the natural position of a key to position q.                 *)
Dist(p, q, n) == IF (p % n) <= q THEN q - (p % n) ELSE q - (p % n) + n

(* The remainder is unique. *)
LEMMA RemainderLemma ==
  ASSUME NEW n \in Nat \ {0}, NEW d \in Int, NEW x \in 0 .. n - 1
  PROVE  ((n * d) + x) % n = x
<1> DEFINE y == (n * d) + x
           r == y % n
           e == y \div n
<1>1. y \in Int /\ r \in 0 .. n - 1 /\ e \in Int /\ y = (n * e) + r /\ y = (n * d) + x
  OBVIOUS
<1> HIDE DEF y, r, e
<1>2. PICK c \in Int : x - r = n * c
  <2>1. x - r = n * (e - d)
    BY <1>1
  <2> QED
    BY <1>1, <2>1
<1>3. x - r < n /\ x - r > -n
  BY <1>1
<1>4. c = 0
  BY <1>2, <1>3
<1> QED
  BY <1>1, <1>2, <1>4 DEF r, y

(* A step without the remainder. *)
LEMMA StepLemma ==
  ASSUME NEW n \in Nat \ {0}, NEW p \in Nat, NEW k \in 0 .. n - 1
  PROVE  /\ p % n \in 0 .. n - 1
         /\ Step(p, k, n) = IF (p % n) + k < n THEN (p % n) + k ELSE (p % n) + k - n
         /\ Step(p, k, n) \in 0 .. n - 1
<1> DEFINE r == p % n
           d == p \div n
<1>1. r \in 0 .. n - 1 /\ d \in Int /\ p = (n * d) + r
  OBVIOUS
<1> HIDE DEF r, d
<1>2. CASE r + k < n
  <2>1. p + k = (n * d) + (r + k) /\ r + k \in 0 .. n - 1
    BY <1>1, <1>2
  <2>2. (p + k) % n = r + k
    BY <1>1, <2>1, RemainderLemma
  <2> QED
    BY <1>1, <1>2, <2>1, <2>2 DEF Step, r
<1>3. CASE ~(r + k < n)
  <2>1. r + k - n \in 0 .. n - 1 /\ d + 1 \in Int
    BY <1>1, <1>3
  <2>2. p + k = (n * (d + 1)) + (r + k - n)
    BY <1>1
  <2>3. (p + k) % n = r + k - n
    BY <2>1, <2>2, RemainderLemma
  <2> QED
    BY <1>1, <1>3, <2>1, <2>3 DEF Step, r
<1> QED
  BY <1>2, <1>3

(* The steps are counted by Dist, and lead past what is between. *)
LEMMA DistLemma ==
  ASSUME NEW n \in Nat \ {0}, NEW p \in Nat, NEW q \in 0 .. n - 1
  PROVE  /\ Dist(p, q, n) \in 0 .. n - 1
         /\ Step(p, Dist(p, q, n), n) = q
         /\ \A k \in 0 .. n - 1 : Step(p, k, n) = q => k = Dist(p, q, n)
         /\ \A j \in 0 .. Dist(p, q, n) : j \in 0 .. n - 1 /\ Between(p % n, Step(p, j, n), q)
         /\ \A e \in 0 .. n - 1 : Between(p % n, e, q) => Dist(p, e, n) <= Dist(p, q, n)
<1> DEFINE r == p % n
<1>1. r \in 0 .. n - 1
  OBVIOUS
<1>2. \A k \in 0 .. n - 1 : Step(p, k, n) = IF r + k < n THEN r + k ELSE r + k - n
  BY StepLemma
<1>3. \A e \in 0 .. n - 1 : Dist(p, e, n) = IF r <= e THEN e - r ELSE e - r + n
  BY DEF Dist
<1> HIDE DEF r
<1>4. Dist(p, q, n) \in 0 .. n - 1 /\ Step(p, Dist(p, q, n), n) = q
  BY <1>1, <1>2, <1>3
<1>5. \A k \in 0 .. n - 1 : Step(p, k, n) = q => k = Dist(p, q, n)
  BY <1>1, <1>2, <1>3
<1>6. \A j \in 0 .. Dist(p, q, n) : j \in 0 .. n - 1 /\ Between(r, Step(p, j, n), q)
  BY <1>1, <1>2, <1>3, <1>4 DEF Between
<1>7. \A e \in 0 .. n - 1 : Between(r, e, q) => Dist(p, e, n) <= Dist(p, q, n)
  BY <1>1, <1>3 DEF Between
<1> QED
  BY <1>4, <1>5, <1>6, <1>7 DEF r

(* Where a search ends that stops at the first position of a set: at its only   *)
(* element between the natural position and there.                             *)
StopsAt(p, n, G, q) ==
  /\ q \in G
  /\ \A e \in G : Between(p % n, q, e) /\ (Between(p % n, e, q) => e = q)

LEMMA FirstStop ==
  ASSUME NEW n \in Nat \ {0}, NEW p \in Nat, NEW G, G \subseteq 0 .. n - 1, G # {},
         NEW steps, steps = {k \in 0 .. n - 1 : Step(p, k, n) \in G}
  PROVE  steps # {} /\ StopsAt(p, n, G, Step(p, First(steps), n))
<1> DEFINE q == Step(p, First(steps), n)
<1>1. \A e \in G : Dist(p, e, n) \in steps /\ e \in 0 .. n - 1
  BY DistLemma
<1>2. steps \subseteq Nat /\ steps # {}
  <2>1. PICK e \in G : TRUE
    OBVIOUS
  <2>2. Dist(p, e, n) \in steps
    BY <1>1, <2>1
  <2> QED
    BY <2>2
<1>3. First(steps) \in steps /\ \A j \in steps : First(steps) <= j
  BY <1>2, FirstLemma
<1>4. q \in G /\ First(steps) \in 0 .. n - 1 /\ q \in 0 .. n - 1
  BY <1>3
<1>5. Dist(p, q, n) = First(steps)
  BY <1>4, DistLemma
<1> HIDE DEF q
<1>6. ASSUME NEW e \in G
      PROVE  Between(p % n, q, e) /\ (Between(p % n, e, q) => e = q)
  <2> DEFINE d == Dist(p, e, n)
  <2>1. d \in 0 .. n - 1 /\ First(steps) <= d /\ Step(p, d, n) = e
    BY <1>1, <1>3, <1>6, DistLemma
  <2>2. \A j \in 0 .. d : Between(p % n, Step(p, j, n), e)
    BY <1>1, <1>6, DistLemma
  <2>3. First(steps) \in 0 .. d
    BY <1>4, <2>1
  <2>4. Between(p % n, e, q) => d <= Dist(p, q, n)
    BY <1>1, <1>4, <1>6, DistLemma
  <2> HIDE DEF d
  <2>5. Between(p % n, e, q) => d = First(steps)
    BY <1>4, <1>5, <2>1, <2>4
  <2> QED
    BY <2>1, <2>2, <2>3, <2>5 DEF q
<1> QED
  BY <1>2, <1>4, <1>6 DEF q, StopsAt

-------------------------------------------------------------------------------
(* The client map.                                                             *)

ClientTypes == [Slots -> [state : {"FREE", "ACTIVE", "DORMANT"},
                          hash : ClientHashes \cup {Empty, EmptyIdHash}]]
EntryTypes  == [MapIdx -> [hash : Nat, value : Slots \cup {Empty, Deleted}]]

Entry(hash, c) == [hash |-> hash, value |-> c]

(* No empty position lies between the natural position of an entry and it. *)
MapReached ==
  \A p \in Live, e \in MapIdx :
    entries[e].value = Empty => ~Between(entries[p].hash % MapCapacity, e, p)

(* The inductive invariant of the client map. *)
MapInv ==
  /\ clients \in ClientTypes
  /\ entries \in EntryTypes
  /\ \A p \in Live : entries[p].hash \in ClientHashes \cup {EmptyIdHash}
  /\ MapReached
  /\ MapExact

LEMMA MapSizes ==
  /\ MapCapacity \in Nat \ {0} /\ MapIdx = 0 .. MapCapacity - 1
  /\ IsFiniteSet(MapIdx) /\ Cardinality(MapIdx) = MapCapacity
  /\ IsFiniteSet(Slots) /\ Cardinality(Slots) \in Nat
  /\ \A c \in Slots : c \in Nat /\ c # Empty /\ c # Deleted
  /\ \A hash \in ClientHashes \cup {EmptyIdHash} : hash \in Nat /\ hash # Empty
  /\ (MapCapacity * 3) \div 4 \in Nat /\ (MapCapacity * 3) \div 4 < MapCapacity
<1>1. MapCapacity \in Nat \ {0} /\ MapIdx = 0 .. MapCapacity - 1
  BY MapAssumption DEF MapIdx
<1>2. IsFiniteSet(0 .. MapCapacity - 1)
      /\ Cardinality(0 .. MapCapacity - 1) = IF 0 > MapCapacity - 1 THEN 0
                                             ELSE MapCapacity - 1 - 0 + 1
  BY <1>1, FS_Interval
<1>3. IsFiniteSet(MapIdx) /\ Cardinality(MapIdx) = MapCapacity
  BY <1>1, <1>2
<1>4. IsFiniteSet(Slots) /\ Cardinality(Slots) \in Nat
  BY MapAssumption, FS_CardinalityType
<1>5. \A c \in Slots : c \in Nat /\ c # Empty /\ c # Deleted
  BY MapAssumption DEF Empty, Deleted
<1>6. \A hash \in ClientHashes \cup {EmptyIdHash} : hash \in Nat /\ hash # Empty
  BY MapAssumption DEF Empty
<1>7. (MapCapacity * 3) \div 4 \in Nat /\ (MapCapacity * 3) \div 4 < MapCapacity
  BY <1>1
<1> QED
  BY <1>1, <1>3, <1>4, <1>5, <1>6, <1>7

(* What is live is not empty and not a tombstone. *)
LEMMA LiveLemma ==
  ASSUME entries \in EntryTypes
  PROVE  /\ \A p \in MapIdx : p \in Live <=> entries[p].value \in Slots
         /\ \A p \in MapIdx : p \in Live <=> entries[p].value \notin {Empty, Deleted}
         /\ \A p \in MapIdx : entries[p].value < 0 <=> p \notin Live
         /\ Live \subseteq MapIdx /\ Leaked \subseteq Live
         /\ IsFiniteSet(Live) /\ IsFiniteSet(Leaked) /\ IsFiniteSet(Live \ Leaked)
         /\ Cardinality(Live) \in Nat /\ Cardinality(Leaked) \in Nat
         /\ Cardinality(Live \ Leaked) = Cardinality(Live) - Cardinality(Leaked)
<1>1. \A p \in MapIdx : entries[p].value \in Slots \cup {Empty, Deleted}
  BY DEF EntryTypes
<1>2. \A v \in Slots \cup {Empty, Deleted} : /\ v >= 0 <=> v \in Slots
                                             /\ v >= 0 <=> v \notin {Empty, Deleted}
                                             /\ v < 0 <=> ~(v >= 0)
  BY MapSizes DEF Empty, Deleted
<1>3. Live \subseteq MapIdx /\ Leaked \subseteq Live
  BY DEF Live, Leaked
<1>4. IsFiniteSet(Live) /\ IsFiniteSet(Leaked) /\ IsFiniteSet(Live \ Leaked)
  <2>1. IsFiniteSet(Live)
    BY <1>3, MapSizes, FS_Subset
  <2> QED
    BY <1>3, <2>1, FS_Subset, FS_Difference
<1>5. Cardinality(Live) \in Nat /\ Cardinality(Leaked) \in Nat
  BY <1>4, FS_CardinalityType
<1>6. Cardinality(Live \ Leaked) = Cardinality(Live) - Cardinality(Leaked)
  <2>1. Live \cap Leaked = Leaked
    BY <1>3
  <2> QED
    BY <1>4, <2>1, FS_Difference
<1>7. \A p \in MapIdx : p \in Live <=> entries[p].value >= 0
  BY DEF Live
<1>8. \A p \in MapIdx : /\ p \in Live <=> entries[p].value \in Slots
                        /\ p \in Live <=> entries[p].value \notin {Empty, Deleted}
                        /\ entries[p].value < 0 <=> p \notin Live
  BY <1>1, <1>2, <1>7
<1> QED
  BY <1>3, <1>4, <1>5, <1>6, <1>8

(* A search for its hash gets to an entry that is reachable. *)
LEMMA ReachedLemma ==
  ASSUME MapInv, NEW p \in Live
  PROVE  /\ Dist(entries[p].hash, p, MapCapacity) \in Reached(entries[p].hash)
         /\ Step(entries[p].hash, Dist(entries[p].hash, p, MapCapacity), MapCapacity) = p
<1> DEFINE n == MapCapacity
           hash == entries[p].hash
           d == Dist(hash, p, n)
<1>1. n \in Nat \ {0} /\ MapIdx = 0 .. n - 1 /\ hash \in Nat /\ p \in MapIdx
  BY MapSizes, LiveLemma DEF MapInv, EntryTypes
<1>2. \A e \in MapIdx : entries[e].value = Empty => ~Between(hash % n, e, p)
  BY DEF MapInv, MapReached
<1> HIDE DEF n, hash
<1>3. d \in 0 .. n - 1 /\ Step(hash, d, n) = p
  BY <1>1, DistLemma
<1>4. \A j \in 0 .. d : j \in 0 .. n - 1 /\ Between(hash % n, Step(hash, j, n), p)
  BY <1>1, DistLemma
<1>5. \A j \in 0 .. d : Step(hash, j, n) \in MapIdx
  BY <1>1, <1>4, StepLemma
<1>6. \A j \in 0 .. d : entries[Step(hash, j, n)].value # Empty
  BY <1>2, <1>4, <1>5
<1> QED
  BY <1>1, <1>3, <1>6 DEF Reached, n, hash

(* An entry that does not leak belongs to the slot that has its hash, and no   *)
(* two are of one slot: there are as many as slots with an id at most.          *)
LEMMA FewEntries ==
  ASSUME MapInv
  PROVE  /\ \A p \in Live \ Leaked : /\ entries[p].value \in Slots
                                     /\ entries[p].hash \in ClientHashes
                                     /\ HasId(entries[p].value)
         /\ \A p, q \in Live \ Leaked : entries[p].value = entries[q].value => p = q
         /\ IsFiniteSet({c \in Slots : HasId(c)})
         /\ Cardinality({c \in Slots : HasId(c)}) \in Nat
         /\ Cardinality(Live \ Leaked) <= Cardinality({c \in Slots : HasId(c)})
<1> DEFINE S == Live \ Leaked
           T == {c \in Slots : HasId(c)}
<1>1. \A p \in S : p \in MapIdx /\ entries[p].value \in Slots
                   /\ entries[p].hash \in ClientHashes \cup {EmptyIdHash}
  BY LiveLemma DEF MapInv
<1>2. \A p \in S : entries[p].hash # EmptyIdHash /\ entries[p].hash \in ClientHashes
  BY <1>1 DEF Leaked
<1>3. \A p \in S : clients[entries[p].value].hash = entries[p].hash
  BY DEF MapInv, MapExact
<1>4. \A p \in S : HasId(entries[p].value)
  BY <1>1, <1>2, <1>3, MapSizes DEF HasId
<1>5. ASSUME NEW p \in S, NEW q \in S, entries[p].value = entries[q].value
      PROVE  p = q
  <2>1. entries[p].hash = entries[q].hash
    BY <1>3, <1>5
  <2>2. entries[p] = entries[q]
    <3>1. entries[p] \in [hash : Nat, value : Slots \cup {Empty, Deleted}]
          /\ entries[q] \in [hash : Nat, value : Slots \cup {Empty, Deleted}]
      BY <1>1 DEF MapInv, EntryTypes
    <3> QED
      BY <1>5, <2>1, <3>1
  <2> QED
    BY <2>2 DEF MapInv, MapExact
<1>6. IsFiniteSet(T) /\ Cardinality(T) \in Nat
  <2>1. T \in SUBSET Slots
    OBVIOUS
  <2> QED
    BY <2>1, MapSizes, FS_Subset, FS_CardinalityType
<1>7. Cardinality(S) <= Cardinality(T)
  <2> DEFINE f == [p \in S |-> entries[p].value]
  <2>1. f \in [S -> T]
    BY <1>1, <1>4
  <2>2. \A p, q \in S : f[p] = f[q] => p = q
    BY <1>5
  <2>3. f \in Injection(S, T)
    BY <2>1, <2>2 DEF Injection, IsInjective
  <2> QED
    BY <1>6, <2>3, FS_Injection
<1> QED
  BY <1>1, <1>2, <1>4, <1>5, <1>6, <1>7

(* An insertion into a map that is not full takes a free position and no empty *)
(* one is passed on the way to it. *)
Inserted(hash, c, q) ==
  /\ q \in MapIdx \ Live
  /\ entries' = [entries EXCEPT ![q] = Entry(hash, c)]
  /\ count' = count + 1
  /\ \A e \in MapIdx : Between(hash % MapCapacity, e, q) => e = q \/ entries[e].value # Empty

LEMMA InsertLemma ==
  ASSUME MapInv, ~MapFull, NEW hash \in Nat, NEW c \in Slots, MapInsert(hash, c)
  PROVE  \E q \in MapIdx : Inserted(hash, c, q)
<1> DEFINE n == MapCapacity
           G == MapIdx \ Live
           gaps == {k \in MapIdx : entries[Step(hash, k, n)].value < 0}
           q == Step(hash, First(gaps), n)
<1>1. n \in Nat \ {0} /\ MapIdx = 0 .. n - 1 /\ entries \in EntryTypes
  BY MapSizes DEF MapInv
<1>2. G # {}
  <2>1. Cardinality(Live) < Cardinality(MapIdx)
    BY MapSizes, LiveLemma DEF MapInv, MapExact, MapFull
  <2>2. Live # MapIdx
    BY <2>1, LiveLemma, MapSizes
  <2> QED
    BY <2>2, <1>1, LiveLemma
<1>3. gaps = {k \in 0 .. n - 1 : Step(hash, k, n) \in G}
  <2>1. \A k \in 0 .. n - 1 : Step(hash, k, n) \in MapIdx
    BY <1>1, StepLemma
  <2> QED
    BY <1>1, <2>1, LiveLemma
<1>4. G \subseteq 0 .. n - 1
  BY <1>1
<1>5. StopsAt(hash, n, G, q)
  <2> HIDE DEF gaps, G, n
  <2> QED
    BY <1>1, <1>2, <1>3, <1>4, FirstStop
<1>6. entries' = [entries EXCEPT ![q] = Entry(hash, c)] /\ count' = count + 1
  BY DEF MapInsert, Entry
<1> HIDE DEF q, gaps
<1>7. \A e \in MapIdx : Between(hash % n, e, q) => e = q \/ entries[e].value # Empty
  BY <1>1, <1>5, LiveLemma DEF StopsAt
<1> QED
  BY <1>5, <1>6, <1>7 DEF Inserted, StopsAt

(* A removal takes away the entry of the hash and the slot if there is one.    *)
Removed(hash, c, q) ==
  /\ q \in Live
  /\ entries[q] = Entry(hash, c)
  /\ entries' = [entries EXCEPT ![q].value = Deleted]
  /\ count' = count - 1

LEMMA RemoveLemma ==
  ASSUME MapInv, NEW hash \in ClientHashes, NEW c \in Slots, MapRemove(hash, c)
  PROVE  \/ /\ \A p \in Live : entries[p] # Entry(hash, c)
            /\ UNCHANGED <<entries, count>>
         \/ \E q \in MapIdx : Removed(hash, c, q)
<1> DEFINE n == MapCapacity
           hits == {k \in Reached(hash) : entries[Step(hash, k, n)] = Entry(hash, c)}
           q == Step(hash, First(hits), n)
<1>1. /\ n \in Nat \ {0} /\ MapIdx = 0 .. n - 1 /\ hash \in Nat
      /\ Reached(hash) \subseteq MapIdx /\ Entry(hash, c).value = c /\ Entry(hash, c).hash = hash
  BY MapSizes DEF Reached, Entry
<1>2. /\ hits = {} => UNCHANGED <<entries, count>>
      /\ hits # {} => /\ entries' = [entries EXCEPT ![q].value = Deleted]
                      /\ count' = count - 1
  BY DEF MapRemove, Entry
<1>3. ASSUME NEW p \in Live, entries[p] = Entry(hash, c)
      PROVE  hits # {}
  <2>1. Dist(hash, p, n) \in Reached(hash) /\ Step(hash, Dist(hash, p, n), n) = p
    BY <1>1, <1>3, ReachedLemma
  <2> QED
    BY <1>3, <2>1
<1>4. CASE hits # {}
  <2>1. First(hits) \in hits
    <3>1. hits \subseteq Nat
      BY <1>1
    <3> QED
      BY <1>4, <3>1, FirstLemma
  <2>2. First(hits) \in 0 .. n - 1 /\ entries[q] = Entry(hash, c)
    BY <1>1, <2>1
  <2>3. q \in MapIdx
    BY <1>1, <2>2, StepLemma
  <2>4. q \in Live
    BY <1>1, <2>2, <2>3, LiveLemma DEF MapInv
  <2> HIDE DEF q, hits
  <2> QED
    BY <1>2, <1>4, <2>2, <2>3, <2>4 DEF Removed
<1>5. CASE hits = {}
  BY <1>2, <1>3, <1>5
<1> QED
  BY <1>4, <1>5

(* As long as there is room, a slot that gets its id finds the map not full.   *)
LEMMA RoomEnough ==
  ASSUME MapInv, RoomLeft, NEW c \in Slots, ~HasId(c)
  PROVE  ~MapFull
<1> DEFINE T == {d \in Slots : HasId(d)}
<1>1. T \in SUBSET Slots /\ T # Slots
  OBVIOUS
<1>2. Cardinality(T) < Cardinality(Slots)
  <2>1. Cardinality(T) <= Cardinality(Slots) /\ Cardinality(T) # Cardinality(Slots)
    BY <1>1, MapSizes, FS_Subset
  <2>2. Cardinality(T) \in Nat
    BY FewEntries
  <2> QED
    BY <2>1, <2>2, MapSizes
<1>3. /\ Cardinality(Live \ Leaked) <= Cardinality(T) /\ Cardinality(T) \in Nat
      /\ Cardinality(Live \ Leaked) = Cardinality(Live) - Cardinality(Leaked)
      /\ Cardinality(Live) \in Nat /\ Cardinality(Leaked) \in Nat
  BY FewEntries, LiveLemma DEF MapInv
<1>4. Cardinality(Live) < (MapCapacity * 3) \div 4
  BY <1>2, <1>3, MapSizes DEF RoomLeft
<1> QED
  BY <1>3, <1>4, MapSizes DEF MapFull, MapInv, MapExact

(* The invariant from its parts, after an entry was added, removed or kept.    *)
LEMMA InitMap == Init => MapInv
<1> SUFFICES ASSUME Init PROVE MapInv
  OBVIOUS
<1>1. clients \in ClientTypes /\ entries \in EntryTypes
  BY DEF Init, ClientTypes, EntryTypes, NoClient, NoEntry
<1>2. Live = {} /\ Leaked = {}
  BY DEF Init, Live, Leaked, NoEntry, Empty
<1>3. count = Cardinality(Live)
  BY <1>2, FS_EmptySet DEF Init
<1>4. \A c \in Slots : ~HasId(c)
  BY DEF Init, HasId, NoClient
<1> QED
  BY <1>1, <1>2, <1>3, <1>4 DEF MapInv, MapReached, MapExact

(* A slot gets its id. *)
LEMMA SetIdentityInserts ==
  ASSUME MapInv, NEW c \in Slots, NEW hash \in ClientHashes \cup {EmptyIdHash},
         clients[c].hash = Empty, clients' = [clients EXCEPT ![c].hash = hash],
         NEW q \in MapIdx, Inserted(hash, c, q)
  PROVE  MapInv'
<1>1. hash \in Nat /\ hash # Empty /\ c \in Nat /\ q \notin Live
  BY MapSizes DEF Inserted
<1>2. clients' \in ClientTypes
  BY DEF MapInv, ClientTypes
<1>3. /\ entries' \in EntryTypes
      /\ entries'[q] = Entry(hash, c) /\ entries'[q].value = c /\ entries'[q].hash = hash
      /\ \A p \in MapIdx \ {q} : entries'[p] = entries[p]
  BY <1>1 DEF MapInv, EntryTypes, Inserted, Entry
<1>4. Live' = Live \cup {q}
  BY <1>1, <1>3 DEF Live
<1>5. Leaked' = IF hash = EmptyIdHash THEN Leaked \cup {q} ELSE Leaked
  BY <1>1, <1>3, <1>4, LiveLemma DEF Leaked, MapInv
<1>6. \A p \in Live' : entries'[p].hash \in ClientHashes \cup {EmptyIdHash}
  BY <1>3, <1>4, LiveLemma DEF MapInv
<1>7. MapReached'
  <2>1. ASSUME NEW p \in Live', NEW e \in MapIdx, entries'[e].value = Empty,
               Between(entries'[p].hash % MapCapacity, e, p)
        PROVE  FALSE
    <3>1. e # q /\ entries[e].value = Empty
      BY <1>1, <1>3, <2>1, MapSizes
    <3>2. CASE p = q
      BY <1>3, <2>1, <3>1, <3>2 DEF Inserted
    <3>3. CASE p # q
      <4>1. p \in Live /\ entries'[p] = entries[p]
        BY <1>3, <1>4, <3>3, LiveLemma DEF MapInv
      <4> QED
        BY <2>1, <3>1, <4>1 DEF MapInv, MapReached
    <3> QED
      BY <3>2, <3>3
  <2> QED
    BY <2>1 DEF MapReached
<1>8. count' = Cardinality(Live)'
  <2>1. Cardinality(Live \cup {q}) = Cardinality(Live) + 1
    BY <1>1, LiveLemma, FS_AddElement DEF MapInv
  <2> QED
    BY <1>4, <2>1 DEF MapInv, MapExact, Inserted
<1>9. \A p \in Live \ Leaked : entries[p].value # c
  BY FewEntries DEF HasId
<1>10. \A p \in Live' \ Leaked' : \/ p = q
                                  \/ p \in Live \ Leaked /\ p # q /\ entries'[p] = entries[p]
  BY <1>1, <1>3, <1>4, <1>5, LiveLemma DEF MapInv
<1>11. \A p \in Live' \ Leaked' : clients'[entries'[p].value].hash = entries'[p].hash
  <2> SUFFICES ASSUME NEW p \in Live' \ Leaked'
               PROVE  clients'[entries'[p].value].hash = entries'[p].hash
    OBVIOUS
  <2>1. CASE p = q
    BY <1>3, <2>1 DEF MapInv, ClientTypes
  <2>2. CASE p \in Live \ Leaked /\ p # q /\ entries'[p] = entries[p]
    <3>1. entries[p].value \in Slots /\ entries[p].value # c
      BY <1>9, <2>2, FewEntries
    <3>2. clients[entries[p].value].hash = entries[p].hash
      BY <2>2 DEF MapInv, MapExact
    <3> QED
      BY <2>2, <3>1, <3>2 DEF MapInv, ClientTypes
  <2> QED
    BY <1>10, <2>1, <2>2
<1>12. \A p, r \in Live' \ Leaked' : entries'[p] = entries'[r] => p = r
  BY <1>3, <1>9, <1>10 DEF MapInv, MapExact
<1>13. RoomLeft' => RoomLeft
  <2>1. Cardinality(Leaked) <= Cardinality(Leaked') /\ Cardinality(Leaked') \in Nat
    <3>1. IsFiniteSet(Leaked \cup {q})
          /\ Cardinality(Leaked \cup {q}) = IF q \in Leaked THEN Cardinality(Leaked)
                                            ELSE Cardinality(Leaked) + 1
      BY LiveLemma, FS_AddElement DEF MapInv
    <3> QED
      BY <1>5, <3>1, LiveLemma DEF MapInv
  <2> QED
    BY <2>1, MapSizes, LiveLemma DEF RoomLeft, MapInv
<1>14. RoomLeft' => \A d \in Slots :
         HasId(d)' => \E p \in Live' : entries'[p] = Entry(clients'[d].hash, d)
  <2> SUFFICES ASSUME RoomLeft', NEW d \in Slots, HasId(d)'
               PROVE  \E p \in Live' : entries'[p] = Entry(clients'[d].hash, d)
    OBVIOUS
  <2>1. CASE d = c
    <3>1. clients'[c].hash = hash
      BY DEF MapInv, ClientTypes
    <3> QED
      BY <1>3, <1>4, <2>1, <3>1
  <2>2. CASE d # c
    <3>1. clients'[d] = clients[d]
      BY <2>2 DEF MapInv, ClientTypes
    <3>2. HasId(d)
      BY <3>1 DEF HasId
    <3>3. PICK p \in Live : entries[p] = Entry(clients[d].hash, d)
      BY <1>13, <3>2 DEF MapInv, MapExact, Entry
    <3>4. p \in Live' /\ entries'[p] = entries[p]
      BY <1>1, <1>3, <1>4, LiveLemma DEF MapInv
    <3> QED
      BY <3>1, <3>3, <3>4
  <2> QED
    BY <2>1, <2>2
<1>15. MapExact'
  BY <1>8, <1>11, <1>12, <1>14 DEF MapExact, Entry
<1> QED
  BY <1>2, <1>3, <1>6, <1>7, <1>15 DEF MapInv

(* A slot gets its id and there is no room for it.                             *)
LEMMA SetIdentityFails ==
  ASSUME MapInv, NEW c \in Slots, NEW hash \in ClientHashes \cup {EmptyIdHash},
         clients[c].hash = Empty, clients' = [clients EXCEPT ![c].hash = hash],
         MapFull, UNCHANGED <<entries, count>>
  PROVE  MapInv'
<1>1. clients' \in ClientTypes
  BY DEF MapInv, ClientTypes
<1>2. Live' = Live /\ Leaked' = Leaked /\ (RoomLeft' <=> RoomLeft) /\ entries' = entries
  BY DEF Live, Leaked, RoomLeft
<1>3. ~RoomLeft
  BY RoomEnough DEF HasId
<1>4. \A p \in Live \ Leaked : entries[p].value \in Slots /\ entries[p].value # c
  BY FewEntries DEF HasId
<1>5. \A p \in Live \ Leaked : clients'[entries[p].value].hash = entries[p].hash
  <2>1. \A d \in Slots \ {c} : clients'[d] = clients[d]
    BY DEF MapInv, ClientTypes
  <2> QED
    BY <1>4, <2>1 DEF MapInv, MapExact
<1>6. MapExact'
  BY <1>2, <1>3, <1>5 DEF MapInv, MapExact
<1>7. MapReached'
  BY <1>2 DEF MapInv, MapReached
<1> QED
  BY <1>1, <1>2, <1>6, <1>7 DEF MapInv

(* A step that leaves the map alone, and every identity that is in it.         *)
LEMMA IdentitiesKept ==
  ASSUME MapInv, UNCHANGED <<entries, count>>, clients' \in ClientTypes,
         \A d \in Slots : HasId(d) \/ HasId(d)' => clients'[d].hash = clients[d].hash
  PROVE  MapInv'
<1>1. Live' = Live /\ Leaked' = Leaked /\ (RoomLeft' <=> RoomLeft) /\ entries' = entries
  BY DEF Live, Leaked, RoomLeft
<1>2. \A p \in Live \ Leaked : clients'[entries[p].value].hash = entries[p].hash
  BY FewEntries DEF MapInv, MapExact
<1>3. \A d \in Slots : HasId(d)' => HasId(d) /\ clients'[d].hash = clients[d].hash
  BY DEF HasId
<1>4. MapExact'
  BY <1>1, <1>2, <1>3 DEF MapInv, MapExact
<1>5. MapReached'
  BY <1>1 DEF MapInv, MapReached
<1> QED
  BY <1>1, <1>4, <1>5 DEF MapInv

LEMMA AllocSlotStep ==
  ASSUME MapInv, NEW c \in Slots, AllocSlot(c), clients[c].hash = Empty
  PROVE  MapInv'
<1>1. clients' \in ClientTypes /\ \A d \in Slots : clients'[d].hash = clients[d].hash
  BY DEF AllocSlot, MapInv, ClientTypes
<1> QED
  BY <1>1, IdentitiesKept DEF AllocSlot

LEMMA GoDormantStep ==
  ASSUME MapInv, NEW c \in Slots, GoDormant(c)
  PROVE  MapInv'
<1>1. clients' \in ClientTypes /\ \A d \in Slots : clients'[d].hash = clients[d].hash
  BY DEF GoDormant, MapInv, ClientTypes
<1> QED
  BY <1>1, IdentitiesKept DEF GoDormant

LEMMA SetIdentityStep ==
  ASSUME MapInv, NEW c \in Slots, NEW hash \in ClientHashes \cup {EmptyIdHash},
         SetIdentity(c, hash)
  PROVE  MapInv'
<1>1. clients[c].hash = Empty /\ clients' = [clients EXCEPT ![c].hash = hash] /\ hash \in Nat
  BY MapSizes DEF SetIdentity
<1>2. MapInsert(hash, c)
  BY DEF SetIdentity
<1>3. CASE MapFull
  BY <1>1, <1>2, <1>3, SetIdentityFails DEF MapInsert
<1>4. CASE ~MapFull
  BY <1>1, <1>2, <1>4, InsertLemma, SetIdentityInserts
<1> QED
  BY <1>3, <1>4

(* A slot is freed and its entry becomes a tombstone. *)
LEMMA FreeRemoves ==
  ASSUME MapInv, NEW c \in Slots, HasId(c), clients' = [clients EXCEPT ![c] = NoClient],
         NEW q \in MapIdx, Removed(clients[c].hash, c, q)
  PROVE  MapInv'
<1>1. clients' \in ClientTypes /\ clients'[c] = NoClient
      /\ (\A d \in Slots \ {c} : clients'[d] = clients[d])
      /\ clients[c].hash \in ClientHashes
  BY DEF MapInv, ClientTypes, HasId, NoClient
<1>2. /\ q \in Live /\ entries[q].hash = clients[c].hash /\ entries[q].value = c
      /\ entries' \in EntryTypes /\ entries'[q].value = Deleted
      /\ \A p \in MapIdx \ {q} : entries'[p] = entries[p]
  BY DEF MapInv, EntryTypes, Removed, Entry
<1>3. q \in Live \ Leaked
  BY <1>1, <1>2, MapAssumption DEF Leaked
<1>4. Live' = Live \ {q}
  BY <1>2 DEF Live, Deleted
<1>5. Leaked' = Leaked
  BY <1>2, <1>3, <1>4 DEF Leaked, Live
<1>6. \A p \in Live' : p \in Live /\ p \in MapIdx /\ p # q /\ entries'[p] = entries[p]
  BY <1>2, <1>4, LiveLemma DEF MapInv
<1>7. MapReached'
  <2>1. \A e \in MapIdx : entries'[e].value = Empty => entries[e].value = Empty
    BY <1>2 DEF Empty, Deleted
  <2> QED
    BY <1>6, <2>1 DEF MapReached, MapInv
<1>8. count' = Cardinality(Live)'
  <2>1. Cardinality(Live \ {q}) = Cardinality(Live) - 1
    BY <1>2, LiveLemma, FS_RemoveElement DEF MapInv
  <2> QED
    BY <1>4, <2>1 DEF MapInv, MapExact, Removed
<1>9. \A p \in Live' \ Leaked' : p \in Live \ Leaked /\ entries[p].value \in Slots \ {c}
  BY <1>2, <1>3, <1>5, <1>6, FewEntries
<1>10. \A p \in Live' \ Leaked' : clients'[entries'[p].value].hash = entries'[p].hash
  BY <1>1, <1>6, <1>9 DEF MapInv, MapExact
<1>11. \A p, r \in Live' \ Leaked' : entries'[p] = entries'[r] => p = r
  BY <1>6, <1>9 DEF MapInv, MapExact
<1>12. RoomLeft' <=> RoomLeft
  BY <1>5 DEF RoomLeft
<1>13. RoomLeft' => \A d \in Slots :
         HasId(d)' => \E p \in Live' : entries'[p] = Entry(clients'[d].hash, d)
  <2> SUFFICES ASSUME RoomLeft', NEW d \in Slots, HasId(d)'
               PROVE  \E p \in Live' : entries'[p] = Entry(clients'[d].hash, d)
    OBVIOUS
  <2>1. d # c
    BY <1>1 DEF HasId, NoClient
  <2>2. clients'[d] = clients[d] /\ HasId(d)
    BY <1>1, <2>1 DEF HasId
  <2>3. PICK p \in Live : entries[p] = Entry(clients[d].hash, d)
    BY <1>12, <2>2 DEF MapInv, MapExact, Entry
  <2>4. p # q
    BY <1>2, <2>1, <2>3 DEF Entry
  <2> QED
    BY <1>4, <1>6, <2>2, <2>3, <2>4
<1>14. MapExact'
  BY <1>8, <1>10, <1>11, <1>13 DEF MapExact, Entry
<1> QED
  BY <1>1, <1>2, <1>6, <1>7, <1>14 DEF MapInv

LEMMA FreeClientSlotStep ==
  ASSUME MapInv, NEW c \in Slots, FreeClientSlot(c)
  PROVE  MapInv'
<1>1. /\ clients' = [clients EXCEPT ![c] = NoClient]
      /\ IF HasId(c) THEN MapRemove(clients[c].hash, c) ELSE UNCHANGED <<entries, count>>
  BY DEF FreeClientSlot
<1>2. clients' \in ClientTypes /\ clients'[c] = NoClient
      /\ (\A d \in Slots \ {c} : clients'[d] = clients[d])
      /\ (HasId(c) => clients[c].hash \in ClientHashes)
  BY <1>1 DEF MapInv, ClientTypes, HasId, NoClient
<1>3. CASE ~HasId(c)
  <2>1. \A d \in Slots : HasId(d) \/ HasId(d)' => clients'[d].hash = clients[d].hash
    BY <1>2, <1>3 DEF HasId, NoClient
  <2> QED
    BY <1>1, <1>2, <1>3, <2>1, IdentitiesKept
<1>4. CASE HasId(c)
  <2>1. CASE \E q \in MapIdx : Removed(clients[c].hash, c, q)
    BY <1>1, <1>4, <2>1, FreeRemoves
  <2>2. CASE /\ \A p \in Live : entries[p] # Entry(clients[c].hash, c)
             /\ UNCHANGED <<entries, count>>
    <3>1. Live' = Live /\ Leaked' = Leaked /\ (RoomLeft' <=> RoomLeft) /\ entries' = entries
      BY <2>2 DEF Live, Leaked, RoomLeft
    <3>2. \A p \in Live \ Leaked : entries[p].value \in Slots \ {c}
      <4> SUFFICES ASSUME NEW p \in Live \ Leaked, entries[p].value = c
                   PROVE  FALSE
        BY FewEntries
      <4>1. entries[p].hash = clients[c].hash
        BY DEF MapInv, MapExact
      <4>2. entries[p] \in [hash : Nat, value : Slots \cup {Empty, Deleted}]
        BY LiveLemma DEF MapInv, EntryTypes
      <4>3. entries[p] = Entry(clients[c].hash, c)
        BY <4>1, <4>2 DEF Entry
      <4> QED
        BY <2>2, <4>3
    <3>3. \A p \in Live \ Leaked : clients'[entries[p].value].hash = entries[p].hash
      BY <1>2, <3>2 DEF MapInv, MapExact
    <3>4. \A d \in Slots : HasId(d)' => HasId(d) /\ clients'[d] = clients[d]
      BY <1>2 DEF HasId, NoClient
    <3>5. MapExact'
      BY <2>2, <3>1, <3>3, <3>4 DEF MapInv, MapExact
    <3>6. MapReached'
      BY <3>1 DEF MapInv, MapReached
    <3> QED
      BY <1>2, <3>1, <3>5, <3>6 DEF MapInv
  <2> QED
    BY <1>1, <1>2, <1>4, <2>1, <2>2, RemoveLemma
<1> QED
  BY <1>3, <1>4

(* What a search for a hash returns. *)
LEMMA MapInvFinds == MapInv => MapFinds
<1> SUFFICES ASSUME MapInv, NEW hash \in ClientHashes
             PROVE  LET owners == {c \in Slots : clients[c].hash = hash}
                    IN  IF owners = {} THEN MapFind(hash) = Empty
                        ELSE MapFind(hash) \in owners \/ (~RoomLeft /\ MapFind(hash) = Empty)
  BY DEF MapFinds
<1> DEFINE owners == {c \in Slots : clients[c].hash = hash}
           At(k) == entries[Step(hash, k, MapCapacity)]
           hits == {k \in Reached(hash) : At(k).value # Deleted /\ At(k).hash = hash}
<1>1. /\ MapCapacity \in Nat \ {0} /\ MapIdx = 0 .. MapCapacity - 1 /\ hash \in Nat
      /\ hash # Empty /\ hash # EmptyIdHash
  BY MapSizes, MapAssumption
<1>2. MapFind(hash) = IF hits = {} THEN Empty ELSE At(First(hits)).value
  BY DEF MapFind
<1>3. hits \subseteq Nat
  BY <1>1 DEF Reached
<1>4. ASSUME NEW k \in hits
      PROVE  At(k).value \in owners
  <2> DEFINE p == Step(hash, k, MapCapacity)
  <2>1. k \in 0 .. MapCapacity - 1 /\ entries[p].value # Empty /\ entries[p].value # Deleted
        /\ entries[p].hash = hash
    BY <1>1, <1>4 DEF Reached
  <2>2. p \in MapIdx
    BY <1>1, <2>1, StepLemma
  <2> HIDE DEF p
  <2>3. p \in Live /\ entries[p].value \in Slots
    BY <2>1, <2>2, LiveLemma DEF MapInv
  <2>4. p \in Live \ Leaked
    BY <1>1, <2>1, <2>3 DEF Leaked
  <2> QED
    BY <2>1, <2>3, <2>4 DEF MapInv, MapExact, p
<1>5. hits # {} => MapFind(hash) \in owners
  <2> SUFFICES ASSUME hits # {} PROVE MapFind(hash) \in owners
    OBVIOUS
  <2>1. First(hits) \in hits
    BY <1>3, FirstLemma
  <2> QED
    BY <1>2, <1>4, <2>1
<1>6. ASSUME hits = {}, owners # {} PROVE ~RoomLeft
  <2> SUFFICES ASSUME RoomLeft PROVE FALSE
    OBVIOUS
  <2>1. PICK c \in Slots : clients[c].hash = hash
    BY <1>6
  <2>2. PICK p \in Live : entries[p] = Entry(hash, c)
    BY <1>1, <2>1 DEF MapInv, MapExact, HasId, Entry
  <2>3. entries[p].hash = hash /\ entries[p].value = c
    BY <2>2 DEF Entry
  <2>4. Dist(hash, p, MapCapacity) \in Reached(hash)
        /\ Step(hash, Dist(hash, p, MapCapacity), MapCapacity) = p
    BY <2>3, ReachedLemma
  <2>5. Dist(hash, p, MapCapacity) \in hits
    BY <2>3, <2>4, MapSizes
  <2> QED
    BY <1>6, <2>5
<1>7. owners = {} => hits = {}
  BY <1>4
<1> HIDE DEF hits
<1> QED
  BY <1>2, <1>5, <1>6, <1>7


-------------------------------------------------------------------------------
(* The packet-id hash.                                                         *)

Positions == 0 .. HashSize - 1
HotTypes  == [InflightIdx -> [used : BOOLEAN, incoming : BOOLEAN, packet_id : Nat]]
Hashes    == [Positions -> InflightIdx \cup {Empty}]

Incoming(s) == hot[s].used /\ hot[s].incoming
Natural(s)  == hot[s].packet_id % HashSize
EnteredIn(h, s) == \E p \in Positions : h[p] = s

EnteredOnce(h) == \A p, q \in Positions : h[p] # Empty /\ p # q => h[p] # h[q]
HashReached(h) ==
  \A p, e \in Positions : h[p] # Empty /\ h[e] = Empty => ~Between(Natural(h[p]), e, p)

(* The inductive invariant of the packet-id hash. *)
HashInv ==
  /\ hot \in HotTypes
  /\ pkt_hash \in Hashes
  /\ \A s \in InflightIdx : EnteredIn(pkt_hash, s) <=> Incoming(s)
  /\ \A s, t \in InflightIdx :
       Incoming(s) /\ Incoming(t) /\ hot[s].packet_id = hot[t].packet_id => s = t
  /\ EnteredOnce(pkt_hash)
  /\ HashReached(pkt_hash)

LEMMA HashSizes ==
  /\ HashSize \in Nat \ {0} /\ Positions = 0 .. HashSize - 1
  /\ IsFiniteSet(Positions) /\ Cardinality(Positions) = HashSize
  /\ IsFiniteSet(InflightIdx) /\ Cardinality(InflightIdx) < HashSize
  /\ Cardinality(InflightIdx) \in Nat
  /\ \A s \in InflightIdx : s # Empty
<1>1. HashSize = 2 * MaxInflight /\ MaxInflight \in Nat \ {0}
  BY InflightAssumption DEF HashSize
<1>2. IsFiniteSet(0 .. HashSize - 1)
      /\ Cardinality(0 .. HashSize - 1) = IF 0 > HashSize - 1 THEN 0 ELSE HashSize - 1 - 0 + 1
  BY <1>1, FS_Interval
<1>3. IsFiniteSet(0 .. MaxInflight - 1)
      /\ Cardinality(0 .. MaxInflight - 1) = IF 0 > MaxInflight - 1 THEN 0
                                             ELSE MaxInflight - 1 - 0 + 1
  BY <1>1, FS_Interval
<1> QED
  BY <1>1, <1>2, <1>3 DEF Positions, InflightIdx, Empty

(* The hash is larger than the table: an empty position is left.               *)
LEMMA SomeEmpty ==
  ASSUME NEW h \in Hashes, EnteredOnce(h)
  PROVE  \E p \in Positions : h[p] = Empty
<1> SUFFICES ASSUME \A p \in Positions : h[p] # Empty PROVE FALSE
  OBVIOUS
<1>1. h \in [Positions -> InflightIdx]
  BY DEF Hashes
<1>2. h \in Injection(Positions, InflightIdx)
  BY <1>1 DEF EnteredOnce, Injection, IsInjective
<1>3. Cardinality(Positions) <= Cardinality(InflightIdx)
  BY <1>2, HashSizes, FS_Injection
<1> QED
  BY <1>3, HashSizes

(* What a search for a packet id ends at.                                      *)
LEMMA SearchEnds ==
  ASSUME HashInv, NEW id \in Nat
  PROVE  /\ Ends(pkt_hash, id) # {} /\ PositionOf(pkt_hash, id) \in Positions
         /\ \A s \in InflightIdx : Incoming(s) /\ hot[s].packet_id = id
                                     => pkt_hash[PositionOf(pkt_hash, id)] = s
         /\ pkt_hash[PositionOf(pkt_hash, id)] # Empty =>
              \E s \in InflightIdx : /\ Incoming(s) /\ hot[s].packet_id = id
                                     /\ pkt_hash[PositionOf(pkt_hash, id)] = s
<1> DEFINE n == HashSize
           h == pkt_hash
           G == {p \in Positions : h[p] = Empty \/ hot[h[p]].packet_id = id}
           q == PositionOf(h, id)
<1>1. n \in Nat \ {0} /\ Positions = 0 .. n - 1 /\ h \in Hashes
  BY HashSizes DEF HashInv
<1>2. Ends(h, id) = {k \in 0 .. n - 1 : Step(id, k, n) \in G}
  <2>1. \A k \in 0 .. n - 1 : Step(id, k, n) \in Positions
    BY <1>1, StepLemma
  <2> QED
    BY <2>1 DEF Ends
<1>3. G # {} /\ G \subseteq 0 .. n - 1
  BY <1>1, SomeEmpty DEF HashInv
<1>4. Ends(h, id) # {} /\ q \in G /\ \A e \in G : Between(id % n, q, e)
  <2>1. q = Step(id, First(Ends(h, id)), n)
    BY DEF PositionOf
  <2>2. Ends(h, id) # {} /\ StopsAt(id, n, G, q)
    <3> HIDE DEF G, q, n
    <3> QED
      BY <1>1, <1>2, <1>3, <2>1, FirstStop
  <2> QED
    BY <2>2 DEF StopsAt
<1> HIDE DEF q
<1>5. ASSUME h[q] # Empty
      PROVE  \E s \in InflightIdx : Incoming(s) /\ hot[s].packet_id = id /\ h[q] = s
  <2>1. h[q] \in InflightIdx /\ q \in Positions /\ hot[h[q]].packet_id = id
    BY <1>1, <1>4, <1>5 DEF Hashes
  <2>2. Incoming(h[q])
    BY <2>1 DEF HashInv, EnteredIn
  <2> QED
    BY <2>1, <2>2
<1>6. ASSUME NEW s \in InflightIdx, Incoming(s), hot[s].packet_id = id
      PROVE  h[q] = s
  <2>1. PICK p \in Positions : h[p] = s
    BY <1>6 DEF HashInv, EnteredIn
  <2>2. p \in G /\ h[p] # Empty /\ Natural(h[p]) = id % n
    BY <1>6, <2>1, HashSizes DEF Natural
  <2>3. Between(id % n, q, p)
    BY <1>4, <2>2
  <2>4. h[q] # Empty
    BY <1>4, <2>2, <2>3 DEF HashInv, HashReached
  <2> QED
    BY <1>5, <1>6, <2>4 DEF HashInv
<1> QED
  BY <1>1, <1>3, <1>4, <1>5, <1>6 DEF q

LEMMA HashInvExact == HashInv => HashExact
<1> SUFFICES ASSUME HashInv PROVE HashExact
  OBVIOUS
<1>1. ASSUME NEW id \in Ids
      PROVE  HashFind(pkt_hash, id) =
               {s \in InflightIdx : hot[s].used /\ hot[s].incoming /\ hot[s].packet_id = id}
  <2> DEFINE q == PositionOf(pkt_hash, id)
             T == {s \in InflightIdx : Incoming(s) /\ hot[s].packet_id = id}
  <2>1. id \in Nat
    BY InflightAssumption
  <2>2. HashFind(pkt_hash, id) = IF pkt_hash[q] = Empty THEN {}
                                 ELSE {s \in {pkt_hash[q]} : hot[s].used}
    BY <2>1, SearchEnds DEF HashFind
  <2>3. CASE pkt_hash[q] = Empty
    <3>1. \A s \in InflightIdx : Incoming(s) => hot[s].packet_id # id
      BY <2>1, <2>3, SearchEnds, HashSizes
    <3> QED
      BY <2>2, <2>3, <3>1 DEF Incoming
  <2>4. CASE pkt_hash[q] # Empty
    <3>1. PICK s \in InflightIdx : Incoming(s) /\ hot[s].packet_id = id /\ pkt_hash[q] = s
      BY <2>1, <2>4, SearchEnds
    <3>2. \A t \in InflightIdx : Incoming(t) /\ hot[t].packet_id = id => t = s
      BY <3>1 DEF HashInv
    <3> QED
      BY <2>2, <2>4, <3>1, <3>2 DEF Incoming
  <2> QED
    BY <2>3, <2>4
<1>2. DOMAIN pkt_hash = Positions
  BY DEF HashInv, Hashes
<1>3. \E p \in Positions : pkt_hash[p] = Empty
  BY SomeEmpty DEF HashInv
<1> QED
  BY <1>1, <1>2, <1>3 DEF HashExact, HashInv, EnteredOnce

LEMMA InitHash == Init => HashInv
<1> SUFFICES ASSUME Init PROVE HashInv
  OBVIOUS
<1>1. hot \in HotTypes /\ \A s \in InflightIdx : ~Incoming(s)
  BY DEF Init, HotTypes, FreeHot, Incoming
<1>2. pkt_hash \in Hashes /\ \A p \in Positions : pkt_hash[p] = Empty
  BY DEF Init, Hashes, Positions
<1> QED
  BY <1>1, <1>2, HashSizes DEF HashInv, EnteredIn, EnteredOnce, HashReached

(* A step that writes only table entries that are not in the hash. *)
LEMMA AllocStep ==
  ASSUME HashInv, NEW s \in InflightIdx, Alloc(s)
  PROVE  HashInv'
<1>1. /\ hot' = [hot EXCEPT ![s] = [used |-> TRUE, incoming |-> FALSE, packet_id |-> s + 1]]
      /\ ~hot[s].used /\ pkt_hash' = pkt_hash /\ s + 1 \in Nat
  BY InflightAssumption DEF Alloc, InflightIdx
<1>2. hot' \in HotTypes /\ ~hot'[s].incoming /\ \A t \in InflightIdx \ {s} : hot'[t] = hot[t]
  BY <1>1 DEF HashInv, HotTypes
<1>3. \A t \in InflightIdx : Incoming(t)' <=> Incoming(t)
  BY <1>1, <1>2 DEF Incoming
<1>4. \A t \in InflightIdx : Incoming(t) => hot'[t] = hot[t]
  BY <1>1, <1>2 DEF Incoming
<1>5. \A p \in Positions : pkt_hash[p] # Empty =>
        pkt_hash[p] \in InflightIdx /\ Incoming(pkt_hash[p])
  BY DEF HashInv, Hashes, EnteredIn
<1>6. HashReached(pkt_hash)'
  BY <1>1, <1>4, <1>5 DEF HashInv, HashReached, Natural
<1>7. \A t \in InflightIdx : EnteredIn(pkt_hash, t)' <=> Incoming(t)'
  BY <1>1, <1>3 DEF HashInv, EnteredIn
<1> QED
  BY <1>1, <1>2, <1>3, <1>4, <1>6, <1>7 DEF HashInv, EnteredOnce

LEMMA TrackIncomingStep ==
  ASSUME HashInv, NEW s \in InflightIdx, NEW id \in Ids, TrackIncoming(id, s)
  PROVE  HashInv'
<1> DEFINE n == HashSize
           h == pkt_hash
           G == {p \in Positions : h[p] = Empty}
           gaps == {k \in 0 .. HashSize - 1 : h[Step(id, k, HashSize)] = Empty}
           q == Step(id, First(gaps), n)
<1>1. /\ hot' = [hot EXCEPT ![s] = [used |-> TRUE, incoming |-> TRUE, packet_id |-> id]]
      /\ ~hot[s].used /\ id \in Nat /\ pkt_hash' = HashInsert(h, id, s)
      /\ \A t \in InflightIdx : Incoming(t) => hot[t].packet_id # id
  BY InflightAssumption DEF TrackIncoming, Incoming
<1>2. n \in Nat \ {0} /\ Positions = 0 .. n - 1 /\ h \in Hashes /\ s # Empty
  BY HashSizes DEF HashInv
<1>3. gaps # {} /\ StopsAt(id, n, G, q)
  <2>1. gaps = {k \in 0 .. n - 1 : Step(id, k, n) \in G}
    <3>1. \A k \in 0 .. n - 1 : Step(id, k, n) \in Positions
      BY <1>1, <1>2, StepLemma
    <3> QED
      BY <3>1
  <2>2. G # {} /\ G \subseteq 0 .. n - 1
    BY <1>2, SomeEmpty DEF HashInv
  <2> HIDE DEF G, gaps, n
  <2> QED
    BY <1>1, <1>2, <2>1, <2>2, FirstStop
<1>4. pkt_hash' = [h EXCEPT ![q] = s]
  BY <1>1, <1>3 DEF HashInsert
<1> HIDE DEF q, gaps
<1>5. q \in Positions /\ h[q] = Empty
      /\ \A e \in Positions : h[e] = Empty /\ Between(id % n, e, q) => e = q
  BY <1>3 DEF StopsAt
<1>6. /\ pkt_hash' \in Hashes /\ pkt_hash'[q] = s
      /\ \A p \in Positions \ {q} : pkt_hash'[p] = h[p]
  BY <1>2, <1>4, <1>5 DEF Hashes
<1>7. hot' \in HotTypes /\ Incoming(s)' /\ hot'[s].packet_id = id
      /\ \A t \in InflightIdx \ {s} : hot'[t] = hot[t] /\ (Incoming(t)' <=> Incoming(t))
  BY <1>1 DEF HashInv, HotTypes, Incoming
<1>8. \A p \in Positions : h[p] # Empty =>
        h[p] \in InflightIdx /\ Incoming(h[p]) /\ h[p] # s
  BY <1>1, <1>2 DEF HashInv, Hashes, EnteredIn, Incoming
<1>9. \A t \in InflightIdx : EnteredIn(pkt_hash, t)' <=> Incoming(t)'
  <2> SUFFICES ASSUME NEW t \in InflightIdx
               PROVE  (\E p \in Positions : pkt_hash'[p] = t) <=> Incoming(t)'
    BY DEF EnteredIn
  <2>1. CASE t = s
    BY <1>5, <1>6, <1>7, <2>1
  <2>2. CASE t # s
    <3>1. (\E p \in Positions : h[p] = t) <=> Incoming(t)
      BY DEF HashInv, EnteredIn
    <3>2. (\E p \in Positions : pkt_hash'[p] = t) <=> (\E p \in Positions : h[p] = t)
      BY <1>5, <1>6, <2>2, HashSizes
    <3> QED
      BY <1>7, <2>2, <3>1, <3>2
  <2> QED
    BY <2>1, <2>2
<1>10. \A t, u \in InflightIdx :
         Incoming(t)' /\ Incoming(u)' /\ hot'[t].packet_id = hot'[u].packet_id => t = u
  BY <1>1, <1>7 DEF HashInv
<1>11. EnteredOnce(pkt_hash)'
  BY <1>6, <1>8 DEF HashInv, EnteredOnce
<1>12. HashReached(pkt_hash)'
  <2> SUFFICES ASSUME NEW p \in Positions, NEW e \in Positions, pkt_hash'[p] # Empty,
                      pkt_hash'[e] = Empty, Between(Natural(pkt_hash[p])', e, p)
               PROVE  FALSE
    BY DEF HashReached
  <2>1. e # q /\ h[e] = Empty
    BY <1>2, <1>6
  <2>2. CASE p = q
    BY <1>5, <1>6, <1>7, <2>1, <2>2 DEF Natural
  <2>3. CASE p # q
    <3>1. h[p] # Empty /\ pkt_hash'[p] = h[p] /\ hot'[h[p]] = hot[h[p]]
      BY <1>6, <1>7, <1>8, <2>3
    <3> QED
      BY <2>1, <3>1 DEF HashInv, HashReached, Natural
  <2> QED
    BY <2>2, <2>3
<1> QED
  BY <1>6, <1>7, <1>9, <1>10, <1>11, <1>12 DEF HashInv

LEMMA FreeAllStep ==
  ASSUME HashInv, FreeAll
  PROVE  HashInv'
<1>1. hot' \in HotTypes /\ \A s \in InflightIdx : ~Incoming(s)'
  BY DEF FreeAll, HotTypes, FreeHot, Incoming
<1>2. pkt_hash' \in Hashes /\ \A p \in Positions : pkt_hash'[p] = Empty
  BY DEF FreeAll, Hashes, HashInv
<1> QED
  BY <1>1, <1>2, HashSizes DEF HashInv, EnteredIn, EnteredOnce, HashReached

(* How far x lies ahead of p, going round the hash. *)
Ahead(p, x) == IF p <= x THEN x - p ELSE x - p + HashSize

LEMMA AheadLemma ==
  ASSUME NEW p \in Positions
  PROVE  /\ \A x \in Positions : Ahead(p, x) \in 0 .. HashSize - 1
                                 /\ Step(p, Ahead(p, x), HashSize) = x
                                 /\ (Ahead(p, x) = 0 <=> x = p)
         /\ \A x, y \in Positions : Ahead(p, x) = Ahead(p, y) => x = y
         /\ \A k \in 0 .. HashSize - 1 : Step(p, k, HashSize) \in Positions
                                         /\ Ahead(p, Step(p, k, HashSize)) = k
         /\ Step(p, HashSize, HashSize) = p
         /\ \A k \in Nat : Step(p, k, HashSize) \in Positions
<1> DEFINE n == HashSize
<1>1. n \in Nat \ {0} /\ Positions = 0 .. n - 1 /\ p \in 0 .. n - 1
  BY HashSizes
<1>2. p % n = p
  BY <1>1
<1> HIDE DEF n
<1>3. ASSUME NEW k \in 0 .. n - 1
      PROVE  Step(p, k, n) = IF p + k < n THEN p + k ELSE p + k - n
  <2>1. p \in Nat
    BY <1>1
  <2> QED
    BY <1>1, <1>2, <2>1, StepLemma
<1>4. Step(p, n, n) = p
  <2>1. p + n = (n * 1) + p
    BY <1>1
  <2>2. ((n * 1) + p) % n = p
    BY <1>1, RemainderLemma
  <2> QED
    BY <2>1, <2>2 DEF Step
<1>5. \A k \in Nat : Step(p, k, n) \in 0 .. n - 1
  BY <1>1 DEF Step
<1>6. \A x \in 0 .. n - 1 : Ahead(p, x) = IF p <= x THEN x - p ELSE x - p + n
  BY DEF Ahead, n
<1>7. ASSUME NEW x \in 0 .. n - 1
      PROVE  /\ Ahead(p, x) \in 0 .. n - 1
             /\ Step(p, Ahead(p, x), n) = x
             /\ (Ahead(p, x) = 0 <=> x = p)
  <2>1. Ahead(p, x) \in 0 .. n - 1 /\ (Ahead(p, x) = 0 <=> x = p)
    BY <1>1, <1>6
  <2>2. Step(p, Ahead(p, x), n) = IF p + Ahead(p, x) < n THEN p + Ahead(p, x)
                                  ELSE p + Ahead(p, x) - n
    BY <1>3, <2>1
  <2> QED
    BY <1>1, <1>6, <2>1, <2>2
<1>8. ASSUME NEW k \in 0 .. n - 1
      PROVE  Step(p, k, n) \in 0 .. n - 1 /\ Ahead(p, Step(p, k, n)) = k
  BY <1>1, <1>3, <1>6
<1>9. \A x, y \in 0 .. n - 1 : Ahead(p, x) = Ahead(p, y) => x = y
  BY <1>1, <1>6
<1> QED
  BY <1>1, <1>4, <1>5, <1>7, <1>8, <1>9 DEF n

(* A way that passes j and is not cut off at e cannot end behind e or before j, *)
(* counted from a p before both.                                               *)
LEMMA WayPassesEmpty ==
  ASSUME NEW p \in Positions, NEW a \in Positions, NEW j \in Positions, NEW e \in Positions,
         NEW x \in Positions, Between(a, j, x), ~Between(a, e, x),
         Ahead(p, j) < Ahead(p, e), Ahead(p, x) < Ahead(p, j) \/ Ahead(p, x) > Ahead(p, e)
  PROVE  FALSE
BY HashSizes DEF Between, Ahead

LEMMA ShouldShiftLemma ==
  ASSUME NEW a \in Positions, NEW gap \in Positions, NEW j \in Positions, gap # j
  PROVE  ShouldShift(a, gap, j) <=> Between(a, gap, j)
BY HashSizes DEF ShouldShift, Between

LEMMA WayShortened ==
  ASSUME NEW a \in Positions, NEW gap \in Positions, NEW j \in Positions, NEW e \in Positions,
         Between(a, gap, j), Between(a, e, gap)
  PROVE  Between(a, e, j)
BY HashSizes DEF Between

(* The removal of slot s0, which is at p, after the k-th position behind p was  *)
(* looked at.  The gap keeps a value that does not count any more; the other    *)
(* positions hold the other entries, each reachable also when the gap is        *)
(* emptied, if it is not between the present position and the cluster's end e.  *)
Shifting(h, s0, p, e, t, k) ==
  /\ t \in [hash : Hashes, gap : Positions]
  /\ Ahead(p, t.gap) <= k
  /\ \A x \in Positions : t.hash[x] = Empty <=> h[x] = Empty
  /\ \A x \in Positions : Ahead(p, x) > k => t.hash[x] = h[x]
  /\ \A s \in InflightIdx : (\E x \in Positions : x # t.gap /\ t.hash[x] = s)
                              <=> s # s0 /\ EnteredIn(h, s)
  /\ \A x, y \in Positions :
       x # t.gap /\ y # t.gap /\ t.hash[x] # Empty /\ x # y => t.hash[x] # t.hash[y]
  /\ \A x, y \in Positions :
       x # t.gap /\ t.hash[x] # Empty /\ h[y] = Empty => ~Between(Natural(t.hash[x]), y, x)
  /\ \A x \in Positions :
       x # t.gap /\ t.hash[x] # Empty /\ (Ahead(p, x) <= k \/ Ahead(p, x) > Ahead(p, e))
         => ~Between(Natural(t.hash[x]), t.gap, x)

(* Cluster: the positions from p up to the empty e. *)
Cluster(h, p, e) ==
  /\ h \in Hashes /\ p \in Positions /\ e \in Positions /\ h[e] = Empty
  /\ \A x \in Positions : Ahead(p, x) < Ahead(p, e) => h[x] # Empty

LEMMA ShiftStep ==
  ASSUME hot \in HotTypes, NEW h, NEW s0, NEW p, NEW e, Cluster(h, p, e),
         NEW k \in Nat, NEW t, Shifting(h, s0, p, e, t, k),
         NEW j \in Positions, Ahead(p, j) = k + 1, k + 1 < Ahead(p, e)
  PROVE  Shifting(h, s0, p, e, Shifted(t, j), k + 1)
<1> DEFINE s == t.hash[j]
           a == Natural(s)
           g == t.gap
<1>1. /\ t \in [hash : Hashes, gap : Positions] /\ t.hash \in Hashes /\ g \in Positions
      /\ Ahead(p, g) <= k /\ g # j
      /\ \A x \in Positions : t.hash[x] = Empty <=> h[x] = Empty
      /\ \A x \in Positions : Ahead(p, x) > k => t.hash[x] = h[x]
  BY DEF Shifting
<1>2. p \in Positions /\ e \in Positions /\ h[e] = Empty
      /\ \A x \in Positions : Ahead(p, x) \in Nat
  <2>1. p \in Positions /\ e \in Positions /\ h[e] = Empty
    BY DEF Cluster
  <2>2. \A x \in Positions : Ahead(p, x) \in 0 .. HashSize - 1
    BY <2>1, AheadLemma
  <2> QED
    BY <2>1, <2>2
<1>3. s # Empty /\ s \in InflightIdx /\ h[g] # Empty /\ t.hash[g] # Empty
  BY <1>1, <1>2 DEF Cluster, Hashes
<1>4. \A u \in InflightIdx : Natural(u) \in Positions
  BY HashSizes DEF Natural, HotTypes
<1>5. a \in Positions
  BY <1>3, <1>4
<1>6. \A x \in Positions : t.hash[x] # Empty => t.hash[x] \in InflightIdx
  BY <1>1 DEF Hashes
<1>7. \A x \in Positions : Ahead(p, x) <= k + 1 => x = j \/ Ahead(p, x) <= k
  BY <1>2, AheadLemma
<1>8. CASE ~Between(a, g, j)
  <2>1. Shifted(t, j) = t
    BY <1>1, <1>5, <1>8, ShouldShiftLemma DEF Shifted, Natural
  <2>2. \A x \in Positions :
          x # g /\ t.hash[x] # Empty /\ (Ahead(p, x) <= k + 1 \/ Ahead(p, x) > Ahead(p, e))
            => ~Between(Natural(t.hash[x]), g, x)
    BY <1>7, <1>8 DEF Shifting
  <2>3. Ahead(p, g) <= k + 1 /\ \A x \in Positions : Ahead(p, x) > k + 1 => t.hash[x] = h[x]
    BY <1>1, <1>2
  <2> QED
    BY <2>1, <2>2, <2>3 DEF Shifting
<1>9. CASE Between(a, g, j)
  <2> DEFINE h2 == [t.hash EXCEPT ![g] = s]
             t2 == [hash |-> h2, gap |-> j]
  <2>1. Shifted(t, j) = t2
    BY <1>1, <1>5, <1>9, ShouldShiftLemma DEF Shifted, Natural
  <2>2. /\ h2 \in Hashes /\ h2[g] = s /\ h2[j] = s
        /\ \A x \in Positions : x # g => h2[x] = t.hash[x]
    BY <1>1, <1>3 DEF Hashes
  <2> HIDE DEF h2
  <2>3. t2 \in [hash : Hashes, gap : Positions] /\ t2.hash = h2 /\ t2.gap = j
    BY <2>2
  <2>4. \A x \in Positions : h2[x] = Empty <=> h[x] = Empty
    BY <1>1, <1>3, <2>2
  <2>5. \A x \in Positions : Ahead(p, x) > k + 1 => h2[x] = h[x]
    BY <1>1, <1>2, <2>2
  <2>6. \A u \in InflightIdx : (\E x \in Positions : x # j /\ h2[x] = u)
                                 <=> (\E x \in Positions : x # g /\ t.hash[x] = u)
    <3> SUFFICES ASSUME NEW u \in InflightIdx
                 PROVE  (\E x \in Positions : x # j /\ h2[x] = u)
                          <=> (\E x \in Positions : x # g /\ t.hash[x] = u)
      OBVIOUS
    <3>1. ASSUME NEW x \in Positions, x # j, h2[x] = u
          PROVE  \E y \in Positions : y # g /\ t.hash[y] = u
      <4>1. CASE x = g
        BY <1>1, <2>2, <3>1, <4>1
      <4>2. CASE x # g
        BY <2>2, <3>1, <4>2
      <4> QED
        BY <4>1, <4>2
    <3>2. ASSUME NEW x \in Positions, x # g, t.hash[x] = u
          PROVE  \E y \in Positions : y # j /\ h2[y] = u
      <4>1. CASE x = j
        BY <1>1, <2>2, <3>2, <4>1
      <4>2. CASE x # j
        BY <2>2, <3>2, <4>2
      <4> QED
        BY <4>1, <4>2
    <3> QED
      BY <3>1, <3>2
  <2>7. \A u \in InflightIdx : (\E x \in Positions : x # j /\ h2[x] = u)
                                 <=> u # s0 /\ EnteredIn(h, u)
    BY <2>6 DEF Shifting
  <2>8. \A x, y \in Positions :
          x # j /\ y # j /\ h2[x] # Empty /\ x # y => h2[x] # h2[y]
    <3> SUFFICES ASSUME NEW x \in Positions, NEW y \in Positions,
                        x # j, y # j, h2[x] # Empty, x # y, h2[x] = h2[y]
                 PROVE  FALSE
      OBVIOUS
    <3>1. \A v, w \in Positions :
            v # g /\ w # g /\ t.hash[v] # Empty /\ v # w => t.hash[v] # t.hash[w]
      BY DEF Shifting
    <3>2. CASE x = g
      BY <1>1, <1>3, <2>2, <3>1, <3>2
    <3>3. CASE y = g
      BY <1>1, <1>3, <2>2, <3>1, <3>3
    <3>4. CASE x # g /\ y # g
      BY <2>2, <3>1, <3>4
    <3> QED
      BY <3>2, <3>3, <3>4
  <2>9. \A v, w \in Positions :
          v # g /\ t.hash[v] # Empty /\ h[w] = Empty => ~Between(Natural(t.hash[v]), w, v)
    BY DEF Shifting
  <2>10. ASSUME NEW x \in Positions, NEW y \in Positions, x # j, h2[x] # Empty, h[y] = Empty
         PROVE  ~Between(Natural(h2[x]), y, x)
    <3>1. CASE x = g
      <4>1. ~Between(a, y, j)
        BY <1>1, <1>3, <2>9, <2>10
      <4> QED
        BY <1>1, <1>5, <1>9, <2>2, <3>1, <4>1, WayShortened
    <3>2. CASE x # g
      BY <2>2, <2>9, <2>10, <3>2
    <3> QED
      BY <3>1, <3>2
  <2>11. ASSUME NEW x \in Positions, x # j, h2[x] # Empty,
                Ahead(p, x) <= k + 1 \/ Ahead(p, x) > Ahead(p, e)
         PROVE  ~Between(Natural(h2[x]), j, x)
    <3>1. ~Between(Natural(h2[x]), e, x)
      BY <1>2, <2>10, <2>11
    <3>2. Natural(h2[x]) \in Positions
      BY <1>4, <2>2, <2>11 DEF Hashes
    <3>3. Ahead(p, x) < Ahead(p, j) \/ Ahead(p, x) > Ahead(p, e)
      BY <1>2, <1>7, <2>11
    <3> QED
      BY <1>2, <3>1, <3>2, <3>3, WayPassesEmpty
  <2>12. Ahead(p, j) <= k + 1
    BY <1>2
  <2> HIDE DEF t2
  <2> QED
    BY <2>1, <2>3, <2>4, <2>5, <2>7, <2>8, <2>10, <2>11, <2>12 DEF Shifting
<1> QED
  BY <1>8, <1>9

ShiftTypes == [hash : Hashes, gap : Positions]

LEMMA ShiftedTyped ==
  ASSUME NEW t \in ShiftTypes, NEW j \in Positions
  PROVE  Shifted(t, j) \in ShiftTypes
BY DEF Shifted, ShiftTypes, Hashes

(* The shift, position by position, is well defined. *)
Shifts(t, t0, p, length) ==
  t = [k \in 0 .. length |-> IF k = 0 THEN t0 ELSE Shifted(t[k - 1], Step(p, k, HashSize))]

LEMMA ShiftsExist ==
  ASSUME NEW p \in Positions, NEW t0 \in ShiftTypes, NEW length \in Nat
  PROVE  \E t : Shifts(t, t0, p, length)
<1> DEFINE Prefix(g, m) ==
             /\ g \in [0 .. m -> ShiftTypes]
             /\ g[0] = t0
             /\ \A k \in 1 .. m : g[k] = Shifted(g[k - 1], Step(p, k, HashSize))
           S == {m \in Nat : ~\E g : Prefix(g, m)}
<1>1. S = {}
  <2> SUFFICES ASSUME S # {} PROVE FALSE
    OBVIOUS
  <2>1. PICK m \in S : \A j \in S : m <= j
    <3>1. S \subseteq Nat
      OBVIOUS
    <3> HIDE DEF S
    <3> QED
      BY <3>1, FirstLemma
  <2>2. m # 0
    <3>1. Prefix([k \in 0 .. 0 |-> t0], 0)
      OBVIOUS
    <3> HIDE DEF Prefix
    <3> QED
      BY <3>1
  <2>3. m \in Nat /\ m - 1 \in Nat /\ m - 1 \notin S
    <3>1. m \in Nat /\ m - 1 \in Nat
      BY <2>1, <2>2
    <3> HIDE DEF S
    <3> QED
      BY <2>1, <3>1
  <2>4. PICK g : Prefix(g, m - 1)
    BY <2>3
  <2> DEFINE next == Shifted(g[m - 1], Step(p, m, HashSize))
             g2 == [k \in 0 .. m |-> IF k = m THEN next ELSE g[k]]
  <2>5. next \in ShiftTypes
    <3>1. Step(p, m, HashSize) \in Positions
      BY <2>3, AheadLemma
    <3>2. g[m - 1] \in ShiftTypes
      BY <2>3, <2>4
    <3> QED
      BY <3>1, <3>2, ShiftedTyped
  <2>6. /\ g2 \in [0 .. m -> ShiftTypes] /\ g2[m] = next
        /\ \A k \in 0 .. m - 1 : g2[k] = g[k]
    BY <2>3, <2>4, <2>5
  <2>7. Prefix(g2, m)
    <3>1. g2[0] = t0
      BY <2>3, <2>4, <2>6
    <3>2. ASSUME NEW k \in 1 .. m
          PROVE  g2[k] = Shifted(g2[k - 1], Step(p, k, HashSize))
      <4>1. k - 1 \in 0 .. m - 1 /\ g2[k - 1] = g[k - 1]
        BY <2>3, <2>6
      <4>2. CASE k = m
        BY <2>6, <4>1, <4>2
      <4>3. CASE k # m
        <5>1. k \in 1 .. m - 1 /\ k \in 0 .. m - 1
          BY <2>3, <4>3
        <5> QED
          BY <2>4, <2>6, <4>1, <5>1
      <4> QED
        BY <4>2, <4>3
    <3> HIDE DEF g2
    <3> QED
      BY <2>6, <3>1, <3>2
  <2> HIDE DEF Prefix, g2
  <2> QED
    BY <2>1, <2>7
<1>2. PICK g : Prefix(g, length)
  BY <1>1
<1>3. g = [k \in 0 .. length |-> g[k]]
  BY <1>2
<1>4. \A k \in 0 .. length :
        g[k] = IF k = 0 THEN t0 ELSE Shifted(g[k - 1], Step(p, k, HashSize))
  <2> SUFFICES ASSUME NEW k \in 0 .. length, k # 0
               PROVE  g[k] = Shifted(g[k - 1], Step(p, k, HashSize))
    BY <1>2
  <2>1. k \in 1 .. length
    OBVIOUS
  <2> QED
    BY <1>2, <2>1
<1> HIDE DEF Prefix
<1>5. g = [k \in 0 .. length |-> IF k = 0 THEN t0
                                ELSE Shifted(g[k - 1], Step(p, k, HashSize))]
  BY <1>3, <1>4
<1> QED
  BY <1>5 DEF Shifts

(* inflight_hash_remove of an id that a slot has: what its loop ends with.     *)
ShiftedOut(h2, s0) ==
  \E p, e \in Positions, t \in ShiftTypes :
    /\ Cluster(pkt_hash, p, e)
    /\ Shifting(pkt_hash, s0, p, e, t, Ahead(p, e) - 1)
    /\ h2 = [t.hash EXCEPT ![t.gap] = Empty]

LEMMA RemoveShifts ==
  ASSUME HashInv, NEW s0 \in InflightIdx, Incoming(s0), NEW id, id = hot[s0].packet_id
  PROVE  ShiftedOut(HashRemove(pkt_hash, id), s0)
<1> DEFINE h == pkt_hash
           p == PositionOf(h, id)
           D == {k \in 1 .. HashSize : h[Step(p, k, HashSize)] = Empty}
           m == First(D)
           e == Step(p, m, HashSize)
           length == m - 1
           t0 == [hash |-> h, gap |-> p]
<1>1. /\ HashSize \in Nat \ {0} /\ h \in Hashes /\ s0 # Empty /\ id \in Nat
      /\ hot \in HotTypes
  BY HashSizes DEF HashInv, HotTypes
<1>2. Ends(h, id) # {} /\ p \in Positions /\ h[p] = s0
  BY <1>1, SearchEnds
<1> HIDE DEF p
<1>3. PICK e0 \in Positions : h[e0] = Empty
  BY <1>1, SomeEmpty DEF HashInv
<1>4. Ahead(p, e0) \in D /\ Ahead(p, e0) \in 1 .. HashSize - 1
  <2>1. Ahead(p, e0) \in 0 .. HashSize - 1 /\ Ahead(p, e0) # 0
        /\ Step(p, Ahead(p, e0), HashSize) = e0
    BY <1>1, <1>2, <1>3, AheadLemma
  <2>2. Ahead(p, e0) \in 1 .. HashSize /\ Ahead(p, e0) \in 1 .. HashSize - 1
    BY <1>1, <2>1
  <2> QED
    BY <1>3, <2>1, <2>2
<1>5. m \in D /\ \A j \in D : m <= j
  <2>1. D \subseteq Nat
    BY <1>1
  <2> QED
    BY <1>4, <2>1, FirstLemma
<1>6. m \in 1 .. HashSize - 1 /\ h[e] = Empty
  BY <1>1, <1>4, <1>5
<1> HIDE DEF m
<1>7. e \in Positions /\ Ahead(p, e) = m
  <2>1. m \in 0 .. HashSize - 1
    BY <1>1, <1>6
  <2> QED
    BY <1>2, <2>1, AheadLemma
<1>8. ASSUME NEW x \in Positions, Ahead(p, x) < m
      PROVE  h[x] # Empty
  <2>1. Ahead(p, x) \in 0 .. HashSize - 1 /\ Step(p, Ahead(p, x), HashSize) = x
        /\ (Ahead(p, x) = 0 <=> x = p)
    BY <1>2, AheadLemma
  <2>2. CASE Ahead(p, x) = 0
    BY <1>1, <1>2, <2>1, <2>2
  <2>3. CASE Ahead(p, x) # 0
    <3>1. Ahead(p, x) \in 1 .. HashSize /\ m \in Int
      BY <1>1, <1>6, <2>1, <2>3
    <3>2. Ahead(p, x) \notin D
      BY <1>5, <1>8, <3>1
    <3> QED
      BY <2>1, <3>1, <3>2
  <2> QED
    BY <2>2, <2>3
<1>9. Cluster(h, p, e)
  BY <1>1, <1>2, <1>6, <1>7, <1>8 DEF Cluster
<1>10. length \in Nat /\ t0 \in ShiftTypes
  BY <1>1, <1>2, <1>6 DEF ShiftTypes
<1>11. PICK t : /\ Shifts(t, t0, p, length)
                /\ HashRemove(h, id) = [t[length].hash EXCEPT ![t[length].gap] = Empty]
  <2> DEFINE u == CHOOSE g : Shifts(g, t0, p, length)
  <2>1. Shifts(u, t0, p, length)
    BY <1>2, <1>10, ShiftsExist
  <2>2. HashRemove(h, id) = [u[length].hash EXCEPT ![u[length].gap] = Empty]
    BY <1>1, <1>2 DEF HashRemove, Shifts, p, m
  <2> HIDE DEF u
  <2> QED
    BY <2>1, <2>2
<1>12. /\ t[0] = t0
       /\ \A k \in 1 .. length : t[k] = Shifted(t[k - 1], Step(p, k, HashSize))
  <2>1. \A k \in 0 .. length : t[k] = IF k = 0 THEN t0
                                      ELSE Shifted(t[k - 1], Step(p, k, HashSize))
    BY <1>11 DEF Shifts
  <2> QED
    BY <1>10, <2>1
<1> HIDE DEF e, D
<1>13. Shifting(h, s0, p, e, t0, 0)
  <2>1. t0.hash = h /\ t0.gap = p
    OBVIOUS
  <2> HIDE DEF t0
  <2>2. \A x \in Positions : Ahead(p, x) \in 0 .. HashSize - 1 /\ (Ahead(p, x) = 0 <=> x = p)
    BY <1>2, AheadLemma
  <2>3. Ahead(p, p) = 0
    BY <1>2, <2>2
  <2>4. \A x, y \in Positions : h[x] # Empty /\ x # y => h[x] # h[y]
    BY DEF HashInv, EnteredOnce
  <2>5. \A s \in InflightIdx : (\E x \in Positions : x # p /\ h[x] = s)
                                 <=> s # s0 /\ EnteredIn(h, s)
    BY <1>1, <1>2, <2>4, HashSizes DEF EnteredIn
  <2>6. \A x, y \in Positions : h[x] # Empty /\ h[y] = Empty => ~Between(Natural(h[x]), y, x)
    BY DEF HashInv, HashReached
  <2>7. ASSUME NEW x \in Positions, x # p, h[x] # Empty,
               Ahead(p, x) <= 0 \/ Ahead(p, x) > Ahead(p, e)
        PROVE  ~Between(Natural(h[x]), p, x)
    <3>1. Ahead(p, x) > Ahead(p, e)
      BY <1>1, <2>2, <2>7
    <3>2. Natural(h[x]) \in Positions
      BY <1>1, <2>7, HashSizes DEF Hashes, Natural, HotTypes
    <3>3. ~Between(Natural(h[x]), e, x)
      BY <1>6, <1>7, <2>6, <2>7 DEF e
    <3>4. Ahead(p, p) < Ahead(p, e)
      BY <1>6, <1>7, <2>3
    <3> QED
      BY <1>2, <1>7, <3>1, <3>2, <3>3, <3>4, WayPassesEmpty
  <2>8. t0 \in [hash : Hashes, gap : Positions] /\ Ahead(p, p) <= 0
    BY <1>10, <2>3 DEF ShiftTypes
  <2> QED
    BY <2>1, <2>4, <2>5, <2>6, <2>7, <2>8 DEF Shifting
<1> DEFINE Bad == {k \in 0 .. length : ~Shifting(h, s0, p, e, t[k], k)}
<1>14. Bad = {}
  <2> SUFFICES ASSUME Bad # {} PROVE FALSE
    OBVIOUS
  <2>1. PICK k \in Bad : \A j \in Bad : k <= j
    <3>1. Bad \subseteq Nat
      OBVIOUS
    <3> HIDE DEF Bad
    <3> QED
      BY <3>1, FirstLemma
  <2>2. k \in 0 .. length /\ k # 0
    BY <1>12, <1>13, <2>1
  <2>3. k - 1 \in 0 .. length /\ k - 1 \in Nat /\ k \in 1 .. length /\ k \in 0 .. HashSize - 1
    BY <1>1, <1>6, <1>10, <2>2
  <2>4. k - 1 \notin Bad
    BY <2>1, <2>2
  <2>5. Shifting(h, s0, p, e, t[k - 1], k - 1)
    BY <2>3, <2>4
  <2> DEFINE j == Step(p, k, HashSize)
  <2>6. j \in Positions /\ Ahead(p, j) = (k - 1) + 1 /\ (k - 1) + 1 < Ahead(p, e)
    BY <1>2, <1>6, <1>7, <2>3, AheadLemma
  <2> HIDE DEF j
  <2>7. Shifting(h, s0, p, e, Shifted(t[k - 1], j), (k - 1) + 1)
    BY <1>1, <1>9, <2>3, <2>5, <2>6, ShiftStep
  <2>8. t[k] = Shifted(t[k - 1], j) /\ (k - 1) + 1 = k
    BY <1>12, <2>3 DEF j
  <2> QED
    BY <2>1, <2>7, <2>8
<1>15. Shifting(h, s0, p, e, t[length], length)
  BY <1>10, <1>14
<1>16. length = Ahead(p, e) - 1 /\ t[length] \in ShiftTypes
  BY <1>7, <1>15 DEF Shifting, ShiftTypes
<1> HIDE DEF length
<1> QED
  BY <1>2, <1>7, <1>9, <1>11, <1>15, <1>16 DEF ShiftedOut

(* What inflight_hash_remove leaves. *)
LEMMA HashRemoveKeeps ==
  ASSUME HashInv, NEW s0 \in InflightIdx, Incoming(s0),
         NEW h2, h2 = HashRemove(pkt_hash, hot[s0].packet_id)
  PROVE  /\ h2 \in Hashes /\ EnteredOnce(h2) /\ HashReached(h2)
         /\ \A s \in InflightIdx : EnteredIn(h2, s) <=> s # s0 /\ EnteredIn(pkt_hash, s)
<1>1. PICK p, e \in Positions, t \in ShiftTypes :
        /\ Cluster(pkt_hash, p, e)
        /\ Shifting(pkt_hash, s0, p, e, t, Ahead(p, e) - 1)
        /\ h2 = [t.hash EXCEPT ![t.gap] = Empty]
  <2>1. PICK id : id = hot[s0].packet_id
    OBVIOUS
  <2>2. ShiftedOut(HashRemove(pkt_hash, id), s0)
    BY <2>1, RemoveShifts
  <2>3. HashRemove(pkt_hash, id) = h2
    BY <2>1
  <2> QED
    BY <2>2, <2>3 DEF ShiftedOut
<1> DEFINE g == t.gap
<1>2. /\ g \in Positions /\ t.hash \in Hashes /\ h2 \in Hashes /\ h2[g] = Empty
      /\ \A x \in Positions : x # g => h2[x] = t.hash[x]
  BY <1>1 DEF ShiftTypes, Hashes
<1>3. EnteredOnce(h2)
  BY <1>1, <1>2 DEF EnteredOnce, Shifting
<1>4. ASSUME NEW s \in InflightIdx
      PROVE  EnteredIn(h2, s) <=> s # s0 /\ EnteredIn(pkt_hash, s)
  <2>1. EnteredIn(h2, s) <=> \E x \in Positions : x # g /\ t.hash[x] = s
    BY <1>2, HashSizes DEF EnteredIn
  <2> QED
    BY <1>1, <2>1 DEF Shifting
<1>5. HashReached(h2)
  <2> SUFFICES ASSUME NEW x \in Positions, NEW y \in Positions, h2[x] # Empty, h2[y] = Empty
               PROVE  ~Between(Natural(h2[x]), y, x)
    BY DEF HashReached
  <2>1. x # g /\ h2[x] = t.hash[x] /\ t.hash[x] # Empty
    BY <1>2
  <2>2. CASE y = g
    <3>1. x # e
      BY <1>1, <2>1 DEF Shifting, Cluster
    <3>2. Ahead(p, x) # Ahead(p, e) /\ Ahead(p, x) \in Int /\ Ahead(p, e) \in Int
      BY <3>1, AheadLemma
    <3>3. Ahead(p, x) <= Ahead(p, e) - 1 \/ Ahead(p, x) > Ahead(p, e)
      BY <3>2
    <3> QED
      BY <1>1, <2>1, <2>2, <3>3 DEF Shifting
  <2>3. CASE y # g
    <3>1. pkt_hash[y] = Empty
      BY <1>1, <1>2, <2>3 DEF Shifting
    <3> QED
      BY <1>1, <2>1, <3>1 DEF Shifting
  <2> QED
    BY <2>2, <2>3
<1> QED
  BY <1>2, <1>3, <1>4, <1>5

LEMMA FreeSlotStep ==
  ASSUME HashInv, NEW s \in InflightIdx, FreeSlot(s)
  PROVE  HashInv'
<1>1. /\ hot[s].used /\ hot' = [hot EXCEPT ![s].used = FALSE]
      /\ pkt_hash' = IF hot[s].incoming THEN HashRemove(pkt_hash, hot[s].packet_id)
                     ELSE pkt_hash
  BY DEF FreeSlot
<1>2. /\ hot' \in HotTypes /\ ~Incoming(s)'
      /\ \A t \in InflightIdx : hot'[t].packet_id = hot[t].packet_id
      /\ \A t \in InflightIdx \ {s} : Incoming(t)' <=> Incoming(t)
  BY <1>1 DEF HashInv, HotTypes, Incoming
<1>3. /\ pkt_hash' \in Hashes /\ EnteredOnce(pkt_hash') /\ HashReached(pkt_hash')
      /\ \A t \in InflightIdx : EnteredIn(pkt_hash', t) <=> t # s /\ EnteredIn(pkt_hash, t)
  <2>1. CASE hot[s].incoming
    <3>1. Incoming(s)
      BY <1>1, <2>1 DEF Incoming
    <3> QED
      BY <1>1, <2>1, <3>1, HashRemoveKeeps
  <2>2. CASE ~hot[s].incoming
    <3>1. ~Incoming(s)
      BY <2>2 DEF Incoming
    <3>2. ~EnteredIn(pkt_hash, s) /\ pkt_hash' = pkt_hash
      BY <1>1, <2>2, <3>1 DEF HashInv
    <3> QED
      BY <3>2 DEF HashInv
  <2> QED
    BY <2>1, <2>2
<1>4. \A t \in InflightIdx : Natural(t)' = Natural(t)
  BY <1>2 DEF Natural
<1>5. HashReached(pkt_hash)'
  <2> SUFFICES ASSUME NEW x \in Positions, NEW y \in Positions,
                      pkt_hash'[x] # Empty, pkt_hash'[y] = Empty
               PROVE  ~Between(Natural(pkt_hash[x])', y, x)
    BY DEF HashReached
  <2>1. pkt_hash'[x] \in InflightIdx
    BY <1>3 DEF Hashes
  <2>2. Natural(pkt_hash[x])' = Natural(pkt_hash'[x])
    BY <1>2, <2>1 DEF Natural
  <2>3. ~Between(Natural(pkt_hash'[x]), y, x)
    BY <1>3 DEF HashReached
  <2> QED
    BY <2>2, <2>3
<1>6. \A t \in InflightIdx : EnteredIn(pkt_hash, t)' <=> Incoming(t)'
  <2>1. \A t \in InflightIdx : EnteredIn(pkt_hash, t)' <=> EnteredIn(pkt_hash', t)
    BY DEF EnteredIn
  <2>2. \A t \in InflightIdx : EnteredIn(pkt_hash, t) <=> Incoming(t)
    BY DEF HashInv
  <2> QED
    BY <1>2, <1>3, <2>1, <2>2
<1>7. \A t, u \in InflightIdx :
        Incoming(t)' /\ Incoming(u)' /\ hot'[t].packet_id = hot'[u].packet_id => t = u
  BY <1>2 DEF HashInv
<1>8. EnteredOnce(pkt_hash)'
  BY <1>3 DEF EnteredOnce
<1> QED
  BY <1>2, <1>3, <1>5, <1>6, <1>7, <1>8 DEF HashInv

-------------------------------------------------------------------------------
(* The invariant of both tables, and the theorems.                             *)

(* A slot is free without the identity of its last connection. *)
FreeUnnamed == \A c \in Slots : clients[c].state = "FREE" => clients[c].hash = Empty

IInv == HashInv /\ MapInv /\ FreeUnnamed

LEMMA InitIInv == Init => IInv
<1>1. Init => FreeUnnamed
  BY DEF Init, FreeUnnamed, NoClient
<1> QED
  BY <1>1, InitHash, InitMap DEF IInv

(* A step of one table leaves what is said of the other. *)
LEMMA HashUnchanged == HashInv /\ UNCHANGED <<hot, pkt_hash>> => HashInv'
BY DEF HashInv, HotTypes, Hashes, EnteredIn, Incoming, EnteredOnce, HashReached, Natural

LEMMA MapUnchanged ==
  MapInv /\ FreeUnnamed /\ UNCHANGED <<clients, entries, count>> => MapInv' /\ FreeUnnamed'
BY DEF MapInv, FreeUnnamed, ClientTypes, EntryTypes, MapReached, MapExact, Live, Leaked,
       RoomLeft, HasId

LEMMA HashStep ==
  ASSUME HashInv, \/ \E s \in InflightIdx : \/ Alloc(s) \/ FreeSlot(s)
                                            \/ \E id \in Ids : TrackIncoming(id, s)
                  \/ FreeAll
  PROVE  HashInv' /\ UNCHANGED <<clients, entries, count>>
<1>1. ASSUME NEW s \in InflightIdx, Alloc(s)
      PROVE  HashInv' /\ UNCHANGED <<clients, entries, count>>
  BY <1>1, AllocStep DEF Alloc, InflightOnly
<1>2. ASSUME NEW s \in InflightIdx, FreeSlot(s)
      PROVE  HashInv' /\ UNCHANGED <<clients, entries, count>>
  BY <1>2, FreeSlotStep DEF FreeSlot, InflightOnly
<1>3. ASSUME NEW s \in InflightIdx, NEW id \in Ids, TrackIncoming(id, s)
      PROVE  HashInv' /\ UNCHANGED <<clients, entries, count>>
  BY <1>3, TrackIncomingStep DEF TrackIncoming, InflightOnly
<1>4. CASE FreeAll
  BY <1>4, FreeAllStep DEF FreeAll, InflightOnly
<1> QED
  BY <1>1, <1>2, <1>3, <1>4

LEMMA MapStep ==
  ASSUME MapInv, FreeUnnamed, NEW c \in Slots,
         \/ AllocSlot(c) \/ FreeClientSlot(c) \/ GoDormant(c)
         \/ \E hash \in ClientHashes \cup {EmptyIdHash} : SetIdentity(c, hash)
  PROVE  MapInv' /\ FreeUnnamed' /\ UNCHANGED <<hot, pkt_hash>>
<1>0. clients \in ClientTypes
  BY DEF MapInv
<1>1. CASE AllocSlot(c)
  <2>1. clients[c].hash = Empty
    BY <1>1 DEF AllocSlot, FreeUnnamed
  <2>2. FreeUnnamed'
    BY <1>0, <1>1 DEF AllocSlot, FreeUnnamed, ClientTypes
  <2> QED
    BY <1>1, <2>1, <2>2, AllocSlotStep DEF AllocSlot, ClientsOnly
<1>2. CASE FreeClientSlot(c)
  <2>1. FreeUnnamed'
    BY <1>0, <1>2 DEF FreeClientSlot, FreeUnnamed, ClientTypes, NoClient
  <2> QED
    BY <1>2, <2>1, FreeClientSlotStep DEF FreeClientSlot, ClientsOnly
<1>3. CASE GoDormant(c)
  <2>1. FreeUnnamed'
    BY <1>0, <1>3 DEF GoDormant, FreeUnnamed, ClientTypes
  <2> QED
    BY <1>3, <2>1, GoDormantStep DEF GoDormant, ClientsOnly
<1>4. ASSUME NEW hash \in ClientHashes \cup {EmptyIdHash}, SetIdentity(c, hash)
      PROVE  MapInv' /\ FreeUnnamed' /\ UNCHANGED <<hot, pkt_hash>>
  <2>1. FreeUnnamed'
    BY <1>0, <1>4 DEF SetIdentity, FreeUnnamed, ClientTypes
  <2> QED
    BY <1>4, <2>1, SetIdentityStep DEF SetIdentity, ClientsOnly
<1> QED
  BY <1>1, <1>2, <1>3, <1>4

LEMMA NextIInv == IInv /\ [Next]_vars => IInv'
<1> SUFFICES ASSUME IInv, [Next]_vars PROVE IInv'
  OBVIOUS
<1>1. CASE UNCHANGED vars
  BY <1>1, HashUnchanged, MapUnchanged DEF vars, IInv
<1>2. CASE \/ \E s \in InflightIdx : \/ Alloc(s) \/ FreeSlot(s)
                                     \/ \E id \in Ids : TrackIncoming(id, s)
           \/ FreeAll
  BY <1>2, HashStep, MapUnchanged DEF IInv
<1>3. ASSUME NEW c \in Slots,
             \/ AllocSlot(c) \/ FreeClientSlot(c) \/ GoDormant(c)
             \/ \E hash \in ClientHashes \cup {EmptyIdHash} : SetIdentity(c, hash)
      PROVE  IInv'
  BY <1>3, MapStep, HashUnchanged DEF IInv
<1> QED
  BY <1>1, <1>2, <1>3 DEF Next

LEMMA IInvHolds == Spec => []IInv
<1> QED
  BY InitIInv, NextIInv, PTL DEF Spec

(* The packet-id hash of client.h answers as the table itself would, after any  *)
(* sequence of inflight_hash_insert and inflight_hash_remove, and keeps a gap   *)
(* that ends every search.                                                      *)
THEOREM HashCorrect == Spec => []HashExact
<1>1. IInv => HashExact
  BY HashInvExact DEF IInv
<1> QED
  BY <1>1, IInvHolds, PTL

(* The client map of hashmap.h has each identity that is not empty at most once *)
(* and under its own slot, drops none while there is room, and counts right.    *)
THEOREM MapCorrect == Spec => []MapExact
<1>1. IInv => MapExact
  BY DEF IInv, MapInv
<1> QED
  BY <1>1, IInvHolds, PTL

(* hashmap_find passes the tombstones: it finds a slot that has the hash, and   *)
(* none when no slot has it.                                                    *)
THEOREM FindCorrect == Spec => []MapFinds
<1>1. IInv => MapFinds
  BY MapInvFinds DEF IInv
<1> QED
  BY <1>1, IInvHolds, PTL
===============================================================================
