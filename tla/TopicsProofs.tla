------------------------------ MODULE TopicsProofs ------------------------------
(***************************************************************************)
(* The trie keeps its types, its subscriber counts and every child within  *)
(* reach of its parent; it holds for each session the filters its client   *)
(* was told of, implementing Subscriptions; and a PUBLISH reaches the      *)
(* sessions with a matching filter.  All for any number of nodes, slots,   *)
(* filters and levels, and whatever the levels' hashes are.                *)
(***************************************************************************)
EXTENDS Topics, FiniteSetTheorems, SequenceTheorems, TLAPS

Session == [state : {"FREE", "ACTIVE", "DORMANT", "CLOSING"}, generation : Generations]
Codes   == 0..2 \cup {NotHeld}

Walks == [kind : {"none", "subscribe", "unsubscribe"}, slot : Slots \cup {NoSlot},
          asked : Seq(Asked), i : Nat \ {0}, path : Seq(Levels), node : NodeIdx,
          codes : Seq(Codes)]

(* The inductive invariant: a walk stands on an allocated node and has answered *)
(* the filters before the present one, and no table leads to a free node.       *)
WalkOK ==
  /\ walk \in Walks
  /\ walk.kind # "none" => walk.slot \in Slots
  /\ walk.node \notin free
  /\ walk.i <= Considered(walk.asked) + 1
  /\ walk.kind = "subscribe" => Len(walk.codes) = walk.i - 1

NoFreeChild ==
  \A n \in NodeIdx, k \in 0 .. HashSize - 1 : nodes[n].child_hash[k] \notin free

IInv == TypeOK /\ WalkOK /\ NoFreeChild /\ SubCountExact /\ ChildrenFindable

-------------------------------------------------------------------------------
(* Minima.                                                                     *)

(* A set of natural numbers that is not empty has a least element. *)
LEMMA LeastLemma ==
  ASSUME NEW S, S \subseteq Nat, S # {}
  PROVE  Least(S) \in S /\ \A j \in S : Least(S) <= j
<1> DEFINE R == OpToRel(<, Nat)
<1>1. IsWellFoundedOn(R, Nat)
  BY NatLessThanWellFounded
<1>2. \A x, y \in Nat : x < y => <<x, y>> \in R
  BY DEF OpToRel
<1> HIDE DEF R
<1>3. PICK m \in S : \A y \in S : ~ (<<y, m>> \in R)
  BY <1>1, WFMin
<1>4. \A x \in S : ~ (x < m)
  BY <1>2, <1>3
<1>5. \E k \in S : \A j \in S : k <= j
  BY <1>4
<1> QED
  BY <1>5 DEF Least

(* So has a set of integers that is bounded from above a largest.              *)
LEMMA LargestBelow ==
  ASSUME NEW N \in Nat, NEW S, S \subseteq 1 .. N, S # {}
  PROVE  \E m \in S : \A j \in S : j <= m
<1> DEFINE T == {N - j : j \in S}
<1>1. T \subseteq Nat /\ T # {}
  OBVIOUS
<1>2. Least(T) \in T /\ \A t \in T : Least(T) <= t
  BY <1>1, LeastLemma
<1>3. PICK m \in S : Least(T) = N - m
  BY <1>2
<1>4. \A j \in S : N - m <= N - j
  BY <1>2, <1>3
<1> QED
  BY <1>4

-------------------------------------------------------------------------------
(* The child hash table.                                                       *)

(* Where a lookup for level in node n stops, and what it returns, as functions  *)
(* of the pool so that pools before and after a step can be compared.          *)
At(pool, n, level, k) == pool[n].child_hash[ProbePos(level, k)]
Stops(pool, n, level) ==
  {k \in 0 .. HashSize - 1 : \/ At(pool, n, level, k) = NoNode
                             \/ pool[At(pool, n, level, k)].name = level}
Find(pool, n, level) ==
  IF Stops(pool, n, level) = {} THEN NoNode
  ELSE At(pool, n, level, Least(Stops(pool, n, level)))

(* Probing stays within the table.                                             *)
LEMMA ProbeInTable ==
  ASSUME NEW level \in Levels, NEW k \in 0 .. HashSize - 1
  PROVE  ProbePos(level, k) \in 0 .. HashSize - 1
<1>1. Hash[level] \in Nat /\ HashSize \in Nat /\ HashSize > 0
  BY LevelsAssumption, SizeAssumption
<1>2. Hash[level] + k \in Nat
  BY <1>1
<1> QED
  BY <1>1, <1>2 DEF ProbePos

(* and distinct probes look at distinct places. *)
LEMMA ProbeInjective ==
  ASSUME NEW level \in Levels, NEW j \in 0 .. HashSize - 1, NEW k \in 0 .. HashSize - 1,
         ProbePos(level, j) = ProbePos(level, k)
  PROVE  j = k
<1> DEFINE h == Hash[level]
<1>1. h \in Nat /\ HashSize \in Nat /\ HashSize > 0
  BY LevelsAssumption, SizeAssumption
<1>2. (h + j) % HashSize = (h + k) % HashSize
  BY DEF ProbePos
<1> HIDE DEF h
<1>3. /\ h + j = (HashSize * ((h + j) \div HashSize)) + ((h + j) % HashSize)
      /\ h + k = (HashSize * ((h + k) \div HashSize)) + ((h + k) % HashSize)
      /\ (h + j) \div HashSize \in Int /\ (h + k) \div HashSize \in Int
  BY <1>1
<1>4. PICK d \in Int : j - k = HashSize * d
  <2>1. j - k = HashSize * ((h + j) \div HashSize - (h + k) \div HashSize)
    BY <1>1, <1>2, <1>3
  <2> QED
    BY <1>3, <2>1
<1>5. j - k < HashSize /\ j - k > -HashSize
  BY <1>1
<1>6. d = 0
  BY <1>1, <1>4, <1>5
<1>7. j - k = 0
  BY <1>1, <1>4, <1>6
<1> QED
  BY <1>7

(* Find is FindChild in the present pool.                                      *)
LEMMA FindIsFindChild ==
  ASSUME NEW n, NEW level
  PROVE  FindChild(n, level) = Find(nodes, n, level)
BY DEF FindChild, Find, Stops, At

(* It returns what is at its first stop.                                       *)
LEMMA FirstStop ==
  ASSUME NEW pool, NEW n, NEW level
  PROVE  /\ Stops(pool, n, level) = {} => Find(pool, n, level) = NoNode
         /\ Stops(pool, n, level) # {} =>
              /\ Find(pool, n, level) = At(pool, n, level, Least(Stops(pool, n, level)))
              /\ Least(Stops(pool, n, level)) \in Stops(pool, n, level)
              /\ \A j \in Stops(pool, n, level) : Least(Stops(pool, n, level)) <= j
<1>1. Stops(pool, n, level) \subseteq Nat
  BY SizeAssumption DEF Stops
<1> QED
  BY <1>1, LeastLemma DEF Find

-------------------------------------------------------------------------------
(* Walks.                                                                      *)

(* The number of filters that are looked at is at most the number there are.   *)
LEMMA ConsideredLemma ==
  ASSUME NEW asked \in Seq(Asked)
  PROVE  Considered(asked) \in Nat /\ Considered(asked) <= Len(asked)
BY SizeAssumption, LenProperties DEF Considered

(* A key is a sequence of levels.                                              *)
LEMMA KeyTyped ==
  ASSUME NEW filter \in Filters
  PROVE  Key(filter) \in Seq(Levels)
<1>1. filter \in Seq(Levels) /\ filter # << >>
  BY PacketAssumption
<1>2. Segments(filter) \in Seq(Levels)
  <2>1. Len(filter) \in Nat /\ Len(filter) > 0
    BY <1>1, EmptySeq, LenProperties
  <2>2. SubSeq(filter, 1, Len(filter) - 1) \in Seq(Levels)
    BY <1>1, <2>1
  <2> QED
    BY <1>1, <2>2 DEF Segments
<1> DEFINE segs == Segments(filter)
<1>3. Len(segs) \in Nat /\ \A i \in 1 .. Len(segs) : segs[i] \in Levels
  BY <1>2, LenProperties, ElementOfSeq
<1> HIDE DEF segs
<1>4. \A i \in 1 .. Len(segs) : Cut[segs[i]] \in Levels
  BY <1>3, LevelsAssumption
<1>5. [i \in 1 .. Len(segs) |-> Cut[segs[i]]] \in Seq(Levels)
  BY <1>3, <1>4, IsASeq
<1> QED
  BY <1>5 DEF Key, segs

(* So is what is left of it at the start of a walk.                             *)
LEMMA PathTyped ==
  ASSUME NEW asked \in Seq(Asked), NEW i \in Nat \ {0}
  PROVE  PathOf(asked, i) \in Seq(Levels)
<1>1. ASSUME i <= Considered(asked)
      PROVE  Key(asked[i].filter) \in Seq(Levels)
  <2>1. i \in 1 .. Len(asked)
    BY <1>1, ConsideredLemma, LenProperties
  <2>2. asked[i] \in Asked
    BY <2>1, ElementOfSeq
  <2> QED
    BY <2>2, KeyTyped DEF Asked
<1>2. << >> \in Seq(Levels)
  BY EmptySeq
<1> QED
  BY <1>1, <1>2 DEF PathOf

(* Going on to the next filter of the packet keeps the walk in order. *)
LEMMA NextFilterOK ==
  ASSUME TypeOK, WalkOK, walk.kind # "none", walk.i <= Considered(walk.asked),
         NEW codes \in Seq(Codes),
         walk.kind = "subscribe" => Len(codes) = walk.i,
         walk' = StartAt([walk EXCEPT !.codes = codes], walk.i + 1),
         free' = free
  PROVE  WalkOK'
<1>1. walk \in Walks /\ walk.slot \in Slots
  BY DEF WalkOK
<1> DEFINE path == PathOf(walk.asked, walk.i + 1)
<1>2. path \in Seq(Levels)
  <2>1. walk.asked \in Seq(Asked) /\ walk.i + 1 \in Nat \ {0}
    BY <1>1 DEF Walks
  <2> QED
    BY <2>1, PathTyped
<1> HIDE DEF path
<1>3. walk' = [walk EXCEPT !.codes = codes, !.i = walk.i + 1, !.node = Root, !.path = path]
  BY <1>1 DEF StartAt, Walks, path
<1>4. walk' \in Walks
  <2> DEFINE i == walk.i + 1
  <2>1. i \in Nat \ {0} /\ Root \in NodeIdx
    BY <1>1 DEF Walks, NodeIdx
  <2>2. walk' = [walk EXCEPT !.codes = codes, !.i = i, !.node = Root, !.path = path]
    BY <1>3
  <2> HIDE DEF i
  <2> QED
    BY <1>1, <1>2, <2>1, <2>2 DEF Walks
<1>5. /\ walk'.kind = walk.kind /\ walk'.slot = walk.slot /\ walk'.asked = walk.asked
      /\ walk'.i = walk.i + 1 /\ walk'.node = Root /\ walk'.codes = codes
  BY <1>1, <1>3 DEF Walks
<1>6. Root \notin free'
  BY NodesAssumption DEF TypeOK
<1>7. walk.i \in Nat /\ Considered(walk.asked) \in Nat
  BY <1>1, ConsideredLemma DEF Walks
<1>8. walk'.i <= Considered(walk'.asked) + 1
  BY <1>5, <1>7
<1> QED
  BY <1>1, <1>4, <1>5, <1>6, <1>7, <1>8 DEF WalkOK

(* What is left of the type invariant when the walk is in order.               *)
LEMMA TypeNow ==
  ASSUME clients \in [Slots -> Session], nodes \in [NodeIdx -> Node], free \subseteq Nodes,
         WalkOK, granted \in [Slots -> [Keys -> Codes]]
  PROVE  TypeOK
BY DEF TypeOK, WalkOK, Walks, Session, Codes

(* The same after a step.                                                      *)
LEMMA TypeNext ==
  ASSUME clients' \in [Slots -> Session], nodes' \in [NodeIdx -> Node], free' \subseteq Nodes,
         WalkOK', granted' \in [Slots -> [Keys -> Codes]]
  PROVE  TypeOK'
BY DEF TypeOK, WalkOK, Walks, Session, Codes

(* The types of what steps leave alone.                                        *)
LEMMA Types ==
  ASSUME TypeOK
  PROVE  /\ clients \in [Slots -> Session] /\ nodes \in [NodeIdx -> Node]
         /\ free \subseteq Nodes /\ granted \in [Slots -> [Keys -> Codes]]
BY DEF TypeOK, Session, Codes

(* The empty walk is in order, before and after a step. *)
LEMMA NoWalkOK ==
  ASSUME NEW unused, unused \subseteq Nodes
  PROVE  /\ NoWalk \in Walks
         /\ NoWalk.kind = "none"
         /\ NoWalk.node \notin unused
         /\ NoWalk.i <= Considered(NoWalk.asked) + 1
<1>1. << >> \in Seq(Asked) /\ << >> \in Seq(Levels) /\ << >> \in Seq(Codes)
  BY EmptySeq
<1>2. NoWalk \in Walks
  BY <1>1 DEF NoWalk, Walks, NodeIdx
<1>3. Considered(<< >>) \in Nat
  BY <1>1, ConsideredLemma
<1>4. Root \notin unused
  BY NodesAssumption
<1> QED
  BY <1>2, <1>3, <1>4 DEF NoWalk

(* Between packets the walk is in order,                                        *)
LEMMA NoWalkNow ==
  ASSUME free \subseteq Nodes, walk = NoWalk
  PROVE  WalkOK
BY NoWalkOK DEF WalkOK

(* and so it is when a packet has been answered.                               *)
LEMMA NoWalkNext ==
  ASSUME free' \subseteq Nodes, walk' = NoWalk
  PROVE  WalkOK'
BY NoWalkOK DEF WalkOK

-------------------------------------------------------------------------------
(* The trie.                                                                   *)

(* One slot more, or one less, in a bitmap.                                    *)
LEMMA CountLemma ==
  ASSUME NEW S \in SUBSET Slots, NEW c \in Slots
  PROVE  /\ Cardinality(S) \in Nat
         /\ Cardinality(S \cup {c}) = IF c \in S THEN Cardinality(S) ELSE Cardinality(S) + 1
         /\ Cardinality(S \ {c}) = IF c \in S THEN Cardinality(S) - 1 ELSE Cardinality(S)
         /\ c \in S => Cardinality(S) > 0
<1>1. IsFiniteSet(S)
  BY SlotsAssumption, FS_Subset
<1>2. Cardinality(S) \in Nat
  BY <1>1, FS_CardinalityType
<1>3. Cardinality(S \cup {c}) = IF c \in S THEN Cardinality(S) ELSE Cardinality(S) + 1
  BY <1>1, FS_AddElement
<1>4. Cardinality(S \ {c}) = IF c \in S THEN Cardinality(S) - 1 ELSE Cardinality(S)
  BY <1>1, FS_RemoveElement
<1>5. c \in S => Cardinality(S) # 0
  BY <1>1, FS_EmptySet
<1> QED
  BY <1>2, <1>3, <1>4, <1>5

(* Nothing of the trie changes.                                                *)
LEMMA SameTrie ==
  ASSUME NoFreeChild, SubCountExact, ChildrenFindable, nodes' = nodes, free' = free
  PROVE  NoFreeChild' /\ SubCountExact' /\ ChildrenFindable'
<1>1. NoFreeChild' /\ SubCountExact'
  BY DEF NoFreeChild, SubCountExact
<1>2. \A n, level : FindChild(n, level)' = FindChild(n, level)
  BY DEF FindChild, ProbePos
<1> QED
  BY <1>1, <1>2 DEF ChildrenFindable, Allocated

(* Only bitmaps, generations and counts change: every child stays where it is. *)
LEMMA SameLinks ==
  ASSUME NoFreeChild, ChildrenFindable, nodes \in [NodeIdx -> Node], free' = free,
         free \subseteq Nodes,
         \A n \in NodeIdx : /\ nodes'[n].name = nodes[n].name
                            /\ nodes'[n].parent = nodes[n].parent
                            /\ nodes'[n].plus_child = nodes[n].plus_child
                            /\ nodes'[n].hash_child = nodes[n].hash_child
                            /\ nodes'[n].child_hash = nodes[n].child_hash
  PROVE  NoFreeChild' /\ ChildrenFindable'
<1>1. NoFreeChild'
  BY DEF NoFreeChild
<1>2. ASSUME NEW n \in NodeIdx, NEW level \in Levels
      PROVE  FindChild(n, level)' = FindChild(n, level)
  <2>1. ASSUME NEW k \in 0 .. HashSize - 1
        PROVE  /\ nodes'[n].child_hash[ProbePos(level, k)] = nodes[n].child_hash[ProbePos(level, k)]
               /\ nodes[n].child_hash[ProbePos(level, k)] \in NodeIdx
    BY ProbeInTable DEF Node
  <2>2. {k \in 0 .. HashSize - 1 :
            \/ nodes'[n].child_hash[ProbePos(level, k)] = NoNode
            \/ nodes'[nodes'[n].child_hash[ProbePos(level, k)]].name = level}
        = {k \in 0 .. HashSize - 1 :
             \/ nodes[n].child_hash[ProbePos(level, k)] = NoNode
             \/ nodes[nodes[n].child_hash[ProbePos(level, k)]].name = level}
    BY <2>1
  <2> QED
    BY <2>2 DEF FindChild
<1>3. ASSUME NEW n \in Allocated
      PROVE  /\ n \in NodeIdx /\ nodes[n].name \in Levels
             /\ nodes[n].parent \in NodeIdx
  BY DEF Allocated, NodeIdx, Node
<1>4. Allocated' = Allocated
  BY DEF Allocated
<1> QED
  BY <1>1, <1>2, <1>3, <1>4 DEF ChildrenFindable

(* A slot leaves a bitmap, and is counted out if it was in it. *)
LEMMA UnmarkedOK ==
  ASSUME NEW node \in Node, NEW c \in Slots, node.sub_count = Cardinality(node.fd_bitmap)
  PROVE  /\ Unmarked(node, c) \in Node
         /\ Unmarked(node, c).sub_count = Cardinality(Unmarked(node, c).fd_bitmap)
         /\ Unmarked(node, c).fd_bitmap \subseteq node.fd_bitmap
         /\ Unmarked(node, c).name = node.name
         /\ Unmarked(node, c).parent = node.parent
         /\ Unmarked(node, c).plus_child = node.plus_child
         /\ Unmarked(node, c).hash_child = node.hash_child
         /\ Unmarked(node, c).child_hash = node.child_hash
<1> DEFINE map == node.fd_bitmap \ {c}
           count == IF c \in node.fd_bitmap THEN node.sub_count - 1 ELSE node.sub_count
<1>1. Unmarked(node, c) = [node EXCEPT !.fd_bitmap = map, !.sub_count = count]
  BY DEF Unmarked, Node
<1>2. map \in SUBSET Slots /\ count \in Nat /\ count = Cardinality(map)
  <2>1. node.fd_bitmap \in SUBSET Slots /\ node.sub_count \in Nat
    BY DEF Node
  <2>2. /\ Cardinality(map) = IF c \in node.fd_bitmap THEN Cardinality(node.fd_bitmap) - 1
                              ELSE Cardinality(node.fd_bitmap)
        /\ c \in node.fd_bitmap => Cardinality(node.fd_bitmap) > 0
    BY <2>1, CountLemma
  <2> QED
    BY <2>1, <2>2
<1>3. map \subseteq node.fd_bitmap
  OBVIOUS
<1> HIDE DEF map, count
<1> QED
  BY <1>1, <1>2, <1>3 DEF Node

(* A slot enters a bitmap, and is counted if it was not in it. *)
LEMMA MarkedOK ==
  ASSUME NEW node \in Node, NEW c \in Slots, NEW gen \in Generations,
         node.sub_count = Cardinality(node.fd_bitmap)
  PROVE  /\ Marked(node, c, gen) \in Node
         /\ Marked(node, c, gen).sub_count = Cardinality(Marked(node, c, gen).fd_bitmap)
         /\ Marked(node, c, gen).name = node.name
         /\ Marked(node, c, gen).parent = node.parent
         /\ Marked(node, c, gen).plus_child = node.plus_child
         /\ Marked(node, c, gen).hash_child = node.hash_child
         /\ Marked(node, c, gen).child_hash = node.child_hash
<1> DEFINE map == node.fd_bitmap \cup {c}
           gens == [node.fd_gen EXCEPT ![c] = gen]
           count == IF c \in node.fd_bitmap THEN node.sub_count ELSE node.sub_count + 1
<1>1. Marked(node, c, gen) = [node EXCEPT !.fd_bitmap = map, !.fd_gen = gens, !.sub_count = count]
  BY DEF Marked, Node
<1>2. map \in SUBSET Slots /\ count \in Nat /\ count = Cardinality(map)
  <2>1. node.fd_bitmap \in SUBSET Slots /\ node.sub_count \in Nat
    BY DEF Node
  <2>2. Cardinality(map) = IF c \in node.fd_bitmap THEN Cardinality(node.fd_bitmap)
                           ELSE Cardinality(node.fd_bitmap) + 1
    BY <2>1, CountLemma
  <2> QED
    BY <2>1, <2>2
<1>3. gens \in [Slots -> Generations]
  BY DEF Node
<1> HIDE DEF map, count, gens
<1> QED
  BY <1>1, <1>2, <1>3 DEF Node

-------------------------------------------------------------------------------
(* The steps, one lemma per action.                                            *)

(* No client holds anything in the beginning of its connection. *)
LEMMA NothingHeldTyped == NothingHeld \in [Keys -> Codes]
BY DEF NothingHeld, Codes

(* The empty node is a node.                                                   *)
LEMMA EmptyNodeTyped == EmptyNode \in Node
<1> DEFINE table == [k \in 0 .. HashSize - 1 |-> NoNode]
           gens == [c \in Slots |-> 0]
<1>1. /\ table \in [0 .. HashSize - 1 -> NodeIdx] /\ gens \in [Slots -> Generations]
      /\ EmptyLevel \in Levels /\ Root \in NodeIdx /\ NoNode \in NodeIdx
  BY LevelsAssumption, SizeAssumption DEF NoNode, NodeIdx, Generations
<1>2. EmptyNode = [name |-> EmptyLevel, parent |-> Root, plus_child |-> NoNode,
                   hash_child |-> NoNode, child_hash |-> table, child_count |-> 0,
                   fd_bitmap |-> {}, fd_gen |-> gens, sub_count |-> 0]
  BY DEF EmptyNode
<1> HIDE DEF table, gens
<1> QED
  BY <1>1, <1>2 DEF Node

(* The trie starts with an empty root and every other node free.               *)
LEMMA InitIInv == Init => IInv
<1> SUFFICES ASSUME Init PROVE IInv
  OBVIOUS
<1>1. free = Nodes /\ walk = NoWalk
  BY DEF Init
<1>2. WalkOK
  BY <1>1, NoWalkNow
<1>3. \A n \in NodeIdx : nodes[n] = EmptyNode
  BY DEF Init
<1>4. nodes \in [NodeIdx -> Node]
  BY EmptyNodeTyped DEF Init
<1>5. /\ clients \in [Slots -> Session]
      /\ granted \in [Slots -> [Keys -> Codes]]
  BY NothingHeldTyped, SizeAssumption DEF Init, Generations, Session
<1>6. TypeOK
  BY <1>1, <1>2, <1>4, <1>5, TypeNow
<1>7. NoFreeChild
  <2>1. \A k \in 0 .. HashSize - 1 : EmptyNode.child_hash[k] = Root
    BY DEF EmptyNode, NoNode
  <2> QED
    BY <1>1, <1>3, <2>1, NodesAssumption DEF NoFreeChild
<1>8. SubCountExact
  <2>1. Cardinality({}) = 0
    BY FS_EmptySet
  <2> QED
    BY <1>3, <2>1 DEF SubCountExact, EmptyNode
<1>9. ChildrenFindable
  BY <1>1 DEF ChildrenFindable, Allocated
<1> QED
  BY <1>2, <1>6, <1>7, <1>8, <1>9 DEF IInv

(* A new connection touches no node.                                            *)
LEMMA AcceptStep ==
  ASSUME IInv, NEW c \in Slots, Accept(c)
  PROVE  IInv'
<1>1. NoFreeChild' /\ SubCountExact' /\ ChildrenFindable'
  BY SameTrie DEF IInv, Accept
<1>2. WalkOK'
  BY DEF IInv, WalkOK, Accept
<1>3. clients[c].generation + 1 \in Generations
  BY SizeAssumption DEF IInv, TypeOK, Accept, Generations
<1>4. clients' \in [Slots -> Session]
  BY <1>3, Types DEF IInv, Accept, Session
<1>5. granted' \in [Slots -> [Keys -> Codes]]
  BY NothingHeldTyped, Types DEF IInv, Accept
<1> QED
  BY <1>1, <1>2, <1>4, <1>5, Types, TypeNext DEF IInv, Accept

(* Nor does a close that was only submitted.                                   *)
LEMMA SubmitCloseStep ==
  ASSUME IInv, NEW c \in Slots, SubmitClose(c)
  PROVE  IInv'
<1>1. NoFreeChild' /\ SubCountExact' /\ ChildrenFindable'
  BY SameTrie DEF IInv, SubmitClose
<1>2. WalkOK'
  BY DEF IInv, WalkOK, SubmitClose
<1>3. clients' \in [Slots -> Session]
  BY Types DEF IInv, SubmitClose, Session
<1> QED
  BY <1>1, <1>2, <1>3, Types, TypeNext DEF IInv, SubmitClose

(* trie_remove_fd is one unsubscription in every node. *)
LEMMA RemovedIsUnmarked ==
  ASSUME NEW c, nodes \in [NodeIdx -> Node]
  PROVE  \A n \in NodeIdx : Removed(c)[n] = Unmarked(nodes[n], c)
<1> SUFFICES ASSUME NEW n \in NodeIdx
             PROVE  Removed(c)[n] = Unmarked(nodes[n], c)
  OBVIOUS
<1>1. CASE c \in nodes[n].fd_bitmap
  BY <1>1 DEF Removed, Unmarked, Node
<1>2. CASE c \notin nodes[n].fd_bitmap
  <2> DEFINE node == nodes[n]
  <2>1. node \in Node /\ node.fd_bitmap \ {c} = node.fd_bitmap
    BY <1>2
  <2>2. Removed(c)[n] = node
    BY <1>2 DEF Removed
  <2>3. Unmarked(node, c) = [node EXCEPT !.fd_bitmap = node.fd_bitmap, !.sub_count = node.sub_count]
    BY <1>2, <2>1 DEF Unmarked, Node
  <2> HIDE DEF node
  <2>4. [node EXCEPT !.fd_bitmap = node.fd_bitmap, !.sub_count = node.sub_count] = node
    BY <2>1 DEF Node
  <2> QED
    BY <2>2, <2>3, <2>4 DEF node
<1> QED
  BY <1>1, <1>2

(* The trie after unsubscriptions of one slot, in the nodes of a set.          *)
LEMMA UnmarkStep ==
  ASSUME IInv, NEW c \in Slots, NEW S \in SUBSET NodeIdx, free' = free,
         nodes' \in [NodeIdx -> Node],
         \A n \in S : nodes'[n] = Unmarked(nodes[n], c),
         \A n \in NodeIdx \ S : nodes'[n] = nodes[n]
  PROVE  NoFreeChild' /\ SubCountExact' /\ ChildrenFindable'
<1>1. ASSUME NEW n \in NodeIdx
      PROVE  /\ nodes[n] \in Node
             /\ nodes[n].sub_count = Cardinality(nodes[n].fd_bitmap)
             /\ n \in free => nodes[n].fd_bitmap = {}
  BY DEF IInv, TypeOK, SubCountExact
<1>2. ASSUME NEW n \in NodeIdx
      PROVE  /\ nodes'[n].name = nodes[n].name
             /\ nodes'[n].parent = nodes[n].parent
             /\ nodes'[n].plus_child = nodes[n].plus_child
             /\ nodes'[n].hash_child = nodes[n].hash_child
             /\ nodes'[n].child_hash = nodes[n].child_hash
  <2>1. CASE n \in S
    <3>1. nodes'[n] = Unmarked(nodes[n], c)
      BY <2>1
    <3> QED
      BY <1>1, <3>1, UnmarkedOK
  <2>2. CASE n \notin S
    BY <2>2
  <2> QED
    BY <2>1, <2>2
<1>3. NoFreeChild' /\ ChildrenFindable'
  BY <1>2, SameLinks DEF IInv, TypeOK
<1>4. ASSUME NEW n \in NodeIdx
      PROVE  /\ nodes'[n].sub_count = Cardinality(nodes'[n].fd_bitmap)
             /\ n \in free' => nodes'[n].fd_bitmap = {}
  <2>1. CASE n \in S
    <3>1. nodes'[n] = Unmarked(nodes[n], c)
      BY <2>1
    <3>2. /\ Unmarked(nodes[n], c).sub_count = Cardinality(Unmarked(nodes[n], c).fd_bitmap)
          /\ Unmarked(nodes[n], c).fd_bitmap \subseteq nodes[n].fd_bitmap
      BY <1>1, UnmarkedOK
    <3> QED
      BY <1>1, <3>1, <3>2
  <2>2. CASE n \notin S
    BY <1>1, <2>2
  <2> QED
    BY <2>1, <2>2
<1>5. SubCountExact'
  BY <1>4 DEF SubCountExact
<1> QED
  BY <1>3, <1>5

(* The end of a session that is not kept unmarks its slot in every node.       *)
LEMMA HandleCloseStep ==
  ASSUME IInv, NEW c \in Slots, NEW clean \in BOOLEAN, HandleClose(c, clean)
  PROVE  IInv'
<1>1. WalkOK'
  BY DEF IInv, WalkOK, HandleClose
<1>2. clients' \in [Slots -> Session]
  BY Types DEF IInv, HandleClose, Session
<1>3. granted' \in [Slots -> [Keys -> Codes]]
  BY NothingHeldTyped, Types DEF IInv, HandleClose
<1>4. nodes \in [NodeIdx -> Node]
  BY DEF IInv, TypeOK
<1>5. CASE clean
  <2>1. nodes' = Removed(c) /\ free' = free
    BY <1>5 DEF HandleClose
  <2>2. \A n \in NodeIdx : nodes'[n] = Unmarked(nodes[n], c)
    BY <1>4, <2>1, RemovedIsUnmarked
  <2>3. \A n \in NodeIdx : Unmarked(nodes[n], c) \in Node
    BY <1>4, UnmarkedOK DEF IInv, SubCountExact
  <2>4. nodes' = [n \in NodeIdx |-> nodes'[n]]
    BY <2>1 DEF Removed
  <2>5. nodes' \in [NodeIdx -> Node]
    BY <2>2, <2>3, <2>4
  <2>6. NoFreeChild' /\ SubCountExact' /\ ChildrenFindable'
    BY <2>1, <2>2, <2>5, UnmarkStep
  <2> QED
    BY <1>1, <1>2, <1>3, <2>1, <2>5, <2>6, Types, TypeNext DEF IInv, HandleClose
<1>6. CASE ~clean
  <2>1. NoFreeChild' /\ SubCountExact' /\ ChildrenFindable'
    BY <1>6, SameTrie DEF IInv, HandleClose
  <2> QED
    BY <1>1, <1>2, <1>3, <1>4, <1>6, <2>1, Types, TypeNext DEF IInv, HandleClose
<1> QED
  BY <1>5, <1>6

(* A packet puts the walk at the root, with no filter answered.                *)
LEMMA ReceiveStep ==
  ASSUME IInv, NEW c \in Slots, NEW kind \in {"subscribe", "unsubscribe"},
         NEW len \in Packets, NEW asked \in [1 .. len -> Asked], Receive(c, kind, asked)
  PROVE  IInv'
<1>1. asked \in Seq(Asked)
  BY PacketAssumption
<1> DEFINE path == PathOf(asked, 1)
<1>2. path \in Seq(Levels)
  BY <1>1, PathTyped
<1>3. walk' = [kind |-> kind, slot |-> c, asked |-> asked, i |-> 1,
               path |-> path, node |-> Root, codes |-> << >>]
  BY DEF Receive, StartAt, NoWalk
<1> HIDE DEF path
<1>4. walk' \in Walks
  <2>1. << >> \in Seq(Codes) /\ Root \in NodeIdx
    BY EmptySeq DEF NodeIdx
  <2> QED
    BY <1>1, <1>2, <1>3, <2>1 DEF Walks
<1>5. Considered(asked) \in Nat
  BY <1>1, ConsideredLemma
<1>6. Root \notin free'
  BY NodesAssumption DEF IInv, TypeOK, Receive
<1>7. Len(<< >>) = 0
  BY EmptySeq
<1>8. WalkOK'
  BY <1>3, <1>4, <1>5, <1>6, <1>7 DEF WalkOK
<1>9. NoFreeChild' /\ SubCountExact' /\ ChildrenFindable'
  BY SameTrie DEF IInv, Receive
<1> QED
  BY <1>8, <1>9, Types, TypeNext DEF IInv, Receive

(* A child that FindChild finds is a node in use.                              *)
LEMMA FoundChild ==
  ASSUME IInv, NEW n \in NodeIdx, NEW level \in Levels
  PROVE  /\ FindChild(n, level) \in NodeIdx
         /\ FindChild(n, level) \notin free
<1>1. nodes[n] \in Node
  BY DEF IInv, TypeOK
<1>2. ASSUME NEW k \in 0 .. HashSize - 1
      PROVE  At(nodes, n, level, k) \in NodeIdx /\ At(nodes, n, level, k) \notin free
  <2>1. ProbePos(level, k) \in 0 .. HashSize - 1
    BY ProbeInTable
  <2> QED
    BY <1>1, <2>1 DEF At, Node, IInv, NoFreeChild
<1>3. NoNode \in NodeIdx /\ NoNode \notin free
  BY NodesAssumption DEF NoNode, NodeIdx, IInv, TypeOK
<1>4. \A k \in Stops(nodes, n, level) : k \in 0 .. HashSize - 1
  BY DEF Stops
<1> QED
  BY <1>2, <1>3, <1>4, FirstStop, FindIsFindChild

(* Going down one level keeps the walk in order. *)
LEMMA DownOK ==
  ASSUME WalkOK, walk.path # << >>, NEW m \in NodeIdx, m \notin free',
         walk' = [walk EXCEPT !.node = m, !.path = Tail(@)]
  PROVE  WalkOK'
<1> DEFINE path == Tail(walk.path)
<1>1. path \in Seq(Levels)
  <2>1. walk.path \in Seq(Levels)
    BY DEF WalkOK, Walks
  <2> QED
    BY <2>1, HeadTailProperties
<1>2. walk' = [walk EXCEPT !.node = m, !.path = path]
  OBVIOUS
<1> HIDE DEF path
<1>3. walk' \in Walks
  BY <1>1, <1>2 DEF WalkOK, Walks
<1>4. /\ walk'.kind = walk.kind /\ walk'.slot = walk.slot /\ walk'.asked = walk.asked
      /\ walk'.i = walk.i /\ walk'.node = m /\ walk'.codes = walk.codes
  BY <1>2 DEF WalkOK, Walks
<1> QED
  BY <1>3, <1>4 DEF WalkOK

(* The next level of a filter is a level.                                      *)
LEMMA NextLevel ==
  ASSUME WalkOK, walk.path # << >>
  PROVE  Head(walk.path) \in Levels /\ walk.node \in NodeIdx
<1>1. walk.path \in Seq(Levels) /\ walk.node \in NodeIdx
  BY DEF WalkOK, Walks
<1> QED
  BY <1>1, HeadTailProperties

(* Going down to a child that is there.                                        *)
LEMMA DescendStep ==
  ASSUME IInv, Descend
  PROVE  IInv'
<1>1. walk.path # << >> /\ walk' = [walk EXCEPT !.node = NextChild, !.path = Tail(@)]
      /\ free' = free
  BY DEF Descend
<1>2. NextChild \in NodeIdx /\ NextChild \notin free
  <2>1. Head(walk.path) \in Levels /\ walk.node \in NodeIdx
    BY <1>1, NextLevel DEF IInv
  <2> QED
    BY <2>1, FoundChild DEF NextChild
<1>3. WalkOK'
  BY <1>1, <1>2, DownOK DEF IInv
<1>4. NoFreeChild' /\ SubCountExact' /\ ChildrenFindable'
  BY SameTrie DEF IInv, Descend
<1> QED
  BY <1>3, <1>4, Types, TypeNext DEF IInv, Descend

(* A return code after those of the earlier filters of the packet.             *)
LEMMA CodesOK ==
  ASSUME WalkOK, walk.kind = "subscribe", NEW code \in Codes
  PROVE  /\ Append(walk.codes, code) \in Seq(Codes)
         /\ Len(Append(walk.codes, code)) = walk.i
<1>1. /\ walk.codes \in Seq(Codes)
      /\ Len(walk.codes) = walk.i - 1 /\ walk.i \in Nat
  BY DEF WalkOK, Walks
<1> QED
  BY <1>1, AppendProperties

(* The filter that a walk is at.                                               *)
LEMMA PresentFilter ==
  ASSUME WalkOK, walk.i <= Considered(walk.asked)
  PROVE  walk.asked[walk.i] \in Asked
<1>1. walk.asked \in Seq(Asked) /\ walk.i \in Nat \ {0}
  BY DEF WalkOK, Walks
<1>2. walk.i \in 1 .. Len(walk.asked)
  BY <1>1, ConsideredLemma, LenProperties
<1> QED
  BY <1>1, <1>2, ElementOfSeq

(* A failure is answered, and leaves the nodes that were made.                 *)
LEMMA FailStep ==
  ASSUME IInv, Fail
  PROVE  IInv'
<1>1. walk.kind = "subscribe" /\ walk.i <= Considered(walk.asked) /\ free' = free
  BY DEF Fail, Walking
<1> DEFINE codes == Append(walk.codes, ReturnCode(FALSE))
<1>2. codes \in Seq(Codes) /\ Len(codes) = walk.i
  <2>1. ReturnCode(FALSE) \in Codes
    BY DEF ReturnCode, Codes
  <2> QED
    BY <1>1, <2>1, CodesOK DEF IInv
<1>3. walk' = StartAt([walk EXCEPT !.codes = codes], walk.i + 1)
  BY DEF Fail
<1> HIDE DEF codes
<1>4. WalkOK'
  BY <1>1, <1>2, <1>3, NextFilterOK DEF IInv
<1>5. NoFreeChild' /\ SubCountExact' /\ ChildrenFindable'
  BY SameTrie DEF IInv, Fail
<1> QED
  BY <1>4, <1>5, Types, TypeNext DEF IInv, Fail

(* The end of a subscription marks its slot in one node.                       *)
LEMMA MarkStep ==
  ASSUME IInv, Mark
  PROVE  IInv'
<1> DEFINE c == walk.slot
           codes == Append(walk.codes, ReturnCode(TRUE))
           gen == clients[c].generation
           new == Marked(nodes[walk.node], c, gen)
<1>1. /\ walk.kind = "subscribe" /\ walk.i <= Considered(walk.asked) /\ free' = free
      /\ c \in Slots /\ walk.node \in NodeIdx /\ walk.node \notin free
      /\ clients' = clients /\ granted' = granted
  BY DEF Mark, Walking, IInv, WalkOK, Walks
<1>2. codes \in Seq(Codes) /\ Len(codes) = walk.i
  <2>1. walk.asked[walk.i] \in Asked
    BY <1>1, PresentFilter DEF IInv
  <2>2. ReturnCode(TRUE) \in Codes
    BY <2>1, PacketAssumption DEF ReturnCode, Asked, Codes
  <2> QED
    BY <1>1, <2>2, CodesOK DEF IInv
<1>3. walk' = StartAt([walk EXCEPT !.codes = codes], walk.i + 1)
  BY DEF Mark
<1>4. nodes' = [nodes EXCEPT ![walk.node] = new]
  BY DEF Mark
<1>5. gen \in Generations
  BY <1>1 DEF IInv, TypeOK
<1>6. /\ nodes[walk.node] \in Node
      /\ nodes[walk.node].sub_count = Cardinality(nodes[walk.node].fd_bitmap)
  BY <1>1 DEF IInv, TypeOK, SubCountExact
<1>7. /\ new \in Node
      /\ new.sub_count = Cardinality(new.fd_bitmap)
      /\ new.name = nodes[walk.node].name
      /\ new.parent = nodes[walk.node].parent
      /\ new.plus_child = nodes[walk.node].plus_child
      /\ new.hash_child = nodes[walk.node].hash_child
      /\ new.child_hash = nodes[walk.node].child_hash
  BY <1>1, <1>5, <1>6, MarkedOK
<1> HIDE DEF codes, gen, new
<1>8. WalkOK'
  BY <1>1, <1>2, <1>3, NextFilterOK DEF IInv
<1>9. nodes' \in [NodeIdx -> Node]
  BY <1>4, <1>7 DEF IInv, TypeOK
<1>10. NoFreeChild' /\ ChildrenFindable'
  <2>1. \A n \in NodeIdx : /\ nodes'[n].name = nodes[n].name
                           /\ nodes'[n].parent = nodes[n].parent
                           /\ nodes'[n].plus_child = nodes[n].plus_child
                           /\ nodes'[n].hash_child = nodes[n].hash_child
                           /\ nodes'[n].child_hash = nodes[n].child_hash
    BY <1>4, <1>7 DEF IInv, TypeOK
  <2> QED
    BY <1>1, <2>1, SameLinks DEF IInv, TypeOK
<1>11. SubCountExact'
  BY <1>1, <1>4, <1>7 DEF IInv, TypeOK, SubCountExact
<1> QED
  BY <1>1, <1>8, <1>9, <1>10, <1>11, Types, TypeNext DEF IInv

(* An UNSUBSCRIBE goes on to its next filter.                                  *)
LEMMA NextUnsubscribeOK ==
  ASSUME IInv, Walking("unsubscribe"), walk' = StartAt(walk, walk.i + 1), free' = free
  PROVE  WalkOK'
<1>1. walk.kind = "unsubscribe" /\ walk.i <= Considered(walk.asked)
      /\ walk.codes \in Seq(Codes)
  BY DEF Walking, IInv, WalkOK, Walks
<1>2. [walk EXCEPT !.codes = walk.codes] = walk
  BY DEF IInv, WalkOK, Walks
<1> QED
  BY <1>1, <1>2, NextFilterOK DEF IInv

(* The end of an unsubscription unmarks it.                                    *)
LEMMA UnmarkActionStep ==
  ASSUME IInv, Unmark
  PROVE  IInv'
<1>1. /\ walk.slot \in Slots /\ walk.node \in NodeIdx /\ free' = free
      /\ clients' = clients /\ granted' = granted
  BY DEF Unmark, Walking, IInv, WalkOK, Walks
<1>2. WalkOK'
  BY NextUnsubscribeOK DEF Unmark
<1>3. nodes' = [nodes EXCEPT ![walk.node] = Unmarked(nodes[walk.node], walk.slot)]
  BY DEF Unmark
<1>4. Unmarked(nodes[walk.node], walk.slot) \in Node
  <2>1. /\ nodes[walk.node] \in Node
        /\ nodes[walk.node].sub_count = Cardinality(nodes[walk.node].fd_bitmap)
    BY <1>1 DEF IInv, TypeOK, SubCountExact
  <2> QED
    BY <1>1, <2>1, UnmarkedOK
<1>5. nodes' \in [NodeIdx -> Node]
  BY <1>3, <1>4 DEF IInv, TypeOK
<1>6. NoFreeChild' /\ SubCountExact' /\ ChildrenFindable'
  <2>1. /\ {walk.node} \in SUBSET NodeIdx
        /\ \A n \in {walk.node} : nodes'[n] = Unmarked(nodes[n], walk.slot)
        /\ \A n \in NodeIdx \ {walk.node} : nodes'[n] = nodes[n]
    BY <1>1, <1>3 DEF IInv, TypeOK
  <2> QED
    BY <1>1, <1>5, <2>1, UnmarkStep
<1> QED
  BY <1>1, <1>2, <1>5, <1>6, Types, TypeNext DEF IInv

(* A filter that is not there changes nothing.                                 *)
LEMMA MissStep ==
  ASSUME IInv, Miss
  PROVE  IInv'
<1>1. WalkOK'
  BY NextUnsubscribeOK DEF Miss
<1>2. NoFreeChild' /\ SubCountExact' /\ ChildrenFindable'
  BY SameTrie DEF IInv, Miss
<1> QED
  BY <1>1, <1>2, Types, TypeNext DEF IInv, Miss

(* SUBACK has one code for each filter that was looked at, so what the client  *)
(* is told is a QoS or a failure.                                              *)
LEMMA AnswerStep ==
  ASSUME IInv, Answer
  PROVE  IInv'
<1>1. walk' = NoWalk /\ free' = free /\ clients' = clients /\ nodes' = nodes
  BY DEF Answer
<1>2. WalkOK'
  BY <1>1, NoWalkNext DEF IInv, TypeOK
<1>3. NoFreeChild' /\ SubCountExact' /\ ChildrenFindable'
  BY <1>1, SameTrie DEF IInv
<1>4. ASSUME NEW k \in Keys, walk.slot \in Slots
      PROVE  Told(walk.slot, k) \in Codes
  <2> DEFINE N == Considered(walk.asked)
             about == {i \in 1 .. N : Key(walk.asked[i].filter) = k}
             good == {i \in about : walk.kind = "subscribe" /\ walk.codes[i] # NotHeld}
  <2>1. granted[walk.slot][k] \in Codes
    BY <1>4, Types DEF IInv
  <2>2. ASSUME good # {}
        PROVE  walk.codes[CHOOSE i \in good : \A j \in good : j <= i] \in Codes
    <3>1. N \in Nat
      BY ConsideredLemma DEF IInv, WalkOK, Walks
    <3>2. good \subseteq 1 .. N
      OBVIOUS
    <3>3. walk.kind = "subscribe"
      BY <2>2
    <3> HIDE DEF N, good
    <3>4. \E i \in good : \A j \in good : j <= i
      BY <2>2, <3>1, <3>2, LargestBelow
    <3>5. (CHOOSE i \in good : \A j \in good : j <= i) \in good
      BY <3>4
    <3>6. walk.codes \in Seq(Codes) /\ Len(walk.codes) = walk.i - 1
          /\ walk.i > N /\ walk.i \in Nat
      BY <3>1, <3>3 DEF IInv, WalkOK, Walks, Answer, N
    <3>7. N <= Len(walk.codes)
      BY <3>1, <3>6
    <3> DEFINE last == CHOOSE i \in good : \A j \in good : j <= i
    <3>8. last \in 1 .. Len(walk.codes)
      <4>1. last \in 1 .. N
        BY <3>2, <3>5
      <4>2. Len(walk.codes) \in Nat
        BY <3>6
      <4> HIDE DEF last
      <4> QED
        BY <3>1, <3>7, <4>1, <4>2
    <3> HIDE DEF last
    <3>9. walk.codes[last] \in Codes
      BY <3>6, <3>8, ElementOfSeq
    <3> QED
      BY <3>9 DEF last
  <2>3. NotHeld \in Codes
    BY DEF Codes
  <2> HIDE DEF good
  <2> QED
    BY <2>1, <2>2, <2>3 DEF Told, good
<1>5. granted' \in [Slots -> [Keys -> Codes]]
  <2>1. walk.slot \in Slots => [k \in Keys |-> Told(walk.slot, k)] \in [Keys -> Codes]
    BY <1>4
  <2>2. granted' = [granted EXCEPT ![walk.slot] = [k \in Keys |-> Told(walk.slot, k)]]
    BY DEF Answer
  <2>3. granted \in [Slots -> [Keys -> Codes]]
    BY Types DEF IInv
  <2> QED
    BY <2>1, <2>2, <2>3
<1> QED
  BY <1>1, <1>2, <1>3, <1>5, Types, TypeNext DEF IInv

-------------------------------------------------------------------------------
(* A node is added: nothing gets out of reach.                                 *)

(* A position that stops the lookup, with none before it, is the first stop.   *)
LEMMA FirstStopIs ==
  ASSUME NEW pool, NEW n, NEW level, NEW j \in 0 .. HashSize - 1,
         j \in Stops(pool, n, level), \A i \in 0 .. j - 1 : i \notin Stops(pool, n, level)
  PROVE  Find(pool, n, level) = At(pool, n, level, j)
<1> DEFINE S == Stops(pool, n, level)
<1>1. S \subseteq 0 .. HashSize - 1 /\ j \in S
  BY DEF Stops
<1>2. Least(S) = j
  <2>1. S \subseteq Nat /\ S # {}
    BY <1>1, SizeAssumption
  <2>2. Least(S) \in S /\ Least(S) <= j
    BY <1>1, <2>1, LeastLemma
  <2>3. ~ (Least(S) \in 0 .. j - 1)
    BY <2>2
  <2>4. Least(S) \in Nat /\ j \in Nat
    BY <2>1, <2>2, SizeAssumption
  <2> HIDE DEF S
  <2> QED
    BY <2>2, <2>3, <2>4
<1> QED
  BY <1>1, <1>2 DEF Find

(* Where a new child goes was empty, and the parent's record changes there only. *)
LEMMA WithChildOK ==
  ASSUME NEW node \in Node, NEW idx \in Nodes, NEW level \in Levels,
         EmptyProbes(node, level) # {}
  PROVE  /\ WithChild(node, idx, level) \in Node
         /\ Least(EmptyProbes(node, level)) \in 0 .. HashSize - 1
         /\ \A j \in 0 .. Least(EmptyProbes(node, level)) - 1 :
              node.child_hash[ProbePos(level, j)] # NoNode
         /\ node.child_hash[ProbePos(level, Least(EmptyProbes(node, level)))] = NoNode
         /\ WithChild(node, idx, level).child_hash =
              [node.child_hash EXCEPT ![ProbePos(level, Least(EmptyProbes(node, level)))] = idx]
         /\ WithChild(node, idx, level).name = node.name
         /\ WithChild(node, idx, level).parent = node.parent
         /\ WithChild(node, idx, level).fd_bitmap = node.fd_bitmap
         /\ WithChild(node, idx, level).sub_count = node.sub_count
         /\ WithChild(node, idx, level).plus_child = IF level = "+" THEN idx ELSE node.plus_child
         /\ WithChild(node, idx, level).hash_child = IF level = "#" THEN idx ELSE node.hash_child
<1> DEFINE E == EmptyProbes(node, level)
           w == Least(E)
           q == ProbePos(level, w)
           table == [node.child_hash EXCEPT ![q] = idx]
           plus == IF level = "+" THEN idx ELSE node.plus_child
           multi == IF level = "#" THEN idx ELSE node.hash_child
           count == node.child_count + 1
<1>1. E \subseteq 0 .. HashSize - 1 /\ E \subseteq Nat
  BY SizeAssumption DEF EmptyProbes
<1>2. w \in E /\ \A j \in E : w <= j
  BY <1>1, LeastLemma
<1>3. w \in 0 .. HashSize - 1 /\ node.child_hash[q] = NoNode
  BY <1>1, <1>2 DEF EmptyProbes
<1>4. ASSUME NEW j \in 0 .. w - 1
      PROVE  node.child_hash[ProbePos(level, j)] # NoNode
  <2>1. j \notin E
    BY <1>1, <1>2, <1>3
  <2>2. j \in 0 .. HashSize - 1
    BY <1>3, SizeAssumption
  <2> QED
    BY <2>1, <2>2 DEF EmptyProbes
<1>5. WithChild(node, idx, level) =
        [node EXCEPT !.child_count = count, !.child_hash = table, !.plus_child = plus,
                     !.hash_child = multi]
  BY DEF WithChild, Node
<1>6. /\ table \in [0 .. HashSize - 1 -> NodeIdx] /\ plus \in NodeIdx /\ multi \in NodeIdx
      /\ count \in Nat
  <2>1. /\ node.child_hash \in [0 .. HashSize - 1 -> NodeIdx]
        /\ node.plus_child \in NodeIdx /\ node.hash_child \in NodeIdx
        /\ node.child_count \in Nat /\ idx \in NodeIdx
    BY DEF Node, NodeIdx
  <2>2. table \in [0 .. HashSize - 1 -> NodeIdx]
    BY <2>1
  <2> QED
    BY <2>1, <2>2
<1>7. WithChild(node, idx, level) \in Node
  <2> HIDE DEF table, plus, multi, count
  <2> QED
    BY <1>5, <1>6 DEF Node
<1>8. /\ WithChild(node, idx, level).child_hash = table
      /\ WithChild(node, idx, level).plus_child = plus
      /\ WithChild(node, idx, level).hash_child = multi
      /\ WithChild(node, idx, level).name = node.name
      /\ WithChild(node, idx, level).parent = node.parent
      /\ WithChild(node, idx, level).fd_bitmap = node.fd_bitmap
      /\ WithChild(node, idx, level).sub_count = node.sub_count
  <2> HIDE DEF table, plus, multi, count
  <2> QED
    BY <1>5, <1>6 DEF Node
<1> QED
  BY <1>3, <1>4, <1>7, <1>8

(* What a step that adds a node does to the others, which is all that the       *)
(* lookups depend on.                                                          *)
NodeAdded(p, idx, level) ==
  LET w == Least(EmptyProbes(nodes[p], level))
  IN  /\ free' = free \ {idx}
      /\ \A n \in NodeIdx \ {p, idx} : nodes'[n] = nodes[n]
      /\ nodes'[p].name = nodes[p].name
      /\ w \in 0 .. HashSize - 1
      /\ nodes[p].child_hash[ProbePos(level, w)] = NoNode
      /\ \A j \in 0 .. w - 1 : nodes[p].child_hash[ProbePos(level, j)] # NoNode
      /\ nodes'[p].child_hash = [nodes[p].child_hash EXCEPT ![ProbePos(level, w)] = idx]
      /\ nodes'[idx].name = level

(* A child that was found is still found.                                      *)
LEMMA OldChildFound ==
  ASSUME IInv, NEW p \in NodeIdx, NEW idx \in free, p # idx, NEW level \in Levels,
         NodeAdded(p, idx, level),
         NEW n \in NodeIdx \ {idx}, NEW l \in Levels, Find(nodes, n, l) # NoNode
  PROVE  Find(nodes', n, l) = Find(nodes, n, l)
<1> DEFINE S == Stops(nodes, n, l)
           s == Least(S)
<1>1. S # {} /\ Find(nodes, n, l) = At(nodes, n, l, s) /\ s \in S /\ \A j \in S : s <= j
  BY FirstStop
<1>2. s \in 0 .. HashSize - 1
  BY <1>1 DEF Stops
<1>3. ASSUME NEW j \in 0 .. s
      PROVE  /\ j \in 0 .. HashSize - 1
             /\ At(nodes, n, l, j) # NoNode
             /\ At(nodes', n, l, j) = At(nodes, n, l, j)
             /\ nodes'[At(nodes, n, l, j)].name = nodes[At(nodes, n, l, j)].name
  <2>1. j \in 0 .. HashSize - 1
    BY <1>2, SizeAssumption
  <2>2. At(nodes, n, l, j) # NoNode
    <3>1. CASE j = s
      BY <1>1, <3>1
    <3>2. CASE j # s
      <4>1. j \notin S
        BY <1>1, <1>2, <3>2
      <4> QED
        BY <2>1, <4>1 DEF Stops
    <3> QED
      BY <3>1, <3>2
  <2>3. ProbePos(l, j) \in 0 .. HashSize - 1
    BY <2>1, ProbeInTable
  <2>4. nodes[n] \in Node /\ nodes[p] \in Node
    BY Types DEF IInv
  <2>5. At(nodes, n, l, j) \in NodeIdx /\ At(nodes, n, l, j) # idx
    BY <2>3, <2>4 DEF At, Node, IInv, NoFreeChild
  <2>6. At(nodes', n, l, j) = At(nodes, n, l, j)
    <3>1. CASE n = p
      BY <2>2, <2>3, <2>4, <3>1 DEF At, NodeAdded, Node
    <3>2. CASE n # p
      <4>1. nodes'[n] = nodes[n]
        BY <3>2 DEF NodeAdded
      <4> QED
        BY <4>1 DEF At
    <3> QED
      BY <3>1, <3>2
  <2>7. nodes'[At(nodes, n, l, j)].name = nodes[At(nodes, n, l, j)].name
    BY <2>5 DEF NodeAdded
  <2> QED
    BY <2>1, <2>2, <2>6, <2>7
<1>4. s \in Stops(nodes', n, l)
  <2>1. s \in 0 .. s
    BY <1>2
  <2>2. nodes[At(nodes, n, l, s)].name = l
    BY <1>1, <1>3, <2>1 DEF Stops
  <2>3. nodes'[At(nodes', n, l, s)].name = l
    BY <1>3, <2>1, <2>2
  <2> QED
    BY <1>2, <2>3 DEF Stops
<1>5. ASSUME NEW i \in 0 .. s - 1
      PROVE  i \notin Stops(nodes', n, l)
  <2>1. i \in 0 .. s /\ i \notin S
    BY <1>1, <1>2
  <2>2. i \in 0 .. HashSize - 1 /\ At(nodes, n, l, i) # NoNode /\ nodes[At(nodes, n, l, i)].name # l
    BY <1>3, <2>1 DEF Stops
  <2>3. At(nodes', n, l, i) # NoNode /\ nodes'[At(nodes', n, l, i)].name # l
    BY <1>3, <2>1, <2>2
  <2> QED
    BY <2>3 DEF Stops, NoNode
<1>6. Find(nodes', n, l) = At(nodes', n, l, s)
  BY <1>2, <1>4, <1>5, FirstStopIs
<1> QED
  BY <1>1, <1>2, <1>3, <1>6

(* The new child is found.                                                     *)
LEMMA NewChildFound ==
  ASSUME IInv, NEW p \in NodeIdx, NEW idx \in free, p # idx, NEW level \in Levels,
         NodeAdded(p, idx, level), Find(nodes, p, level) = NoNode
  PROVE  Find(nodes', p, level) = idx
<1> DEFINE w == Least(EmptyProbes(nodes[p], level))
           S == Stops(nodes, p, level)
<1>1. /\ w \in 0 .. HashSize - 1
      /\ nodes[p].child_hash[ProbePos(level, w)] = NoNode
      /\ \A j \in 0 .. w - 1 : nodes[p].child_hash[ProbePos(level, j)] # NoNode
      /\ nodes'[p].child_hash = [nodes[p].child_hash EXCEPT ![ProbePos(level, w)] = idx]
      /\ nodes'[idx].name = level
  BY DEF NodeAdded
<1> HIDE DEF w
<1>2. nodes[p] \in Node /\ ProbePos(level, w) \in 0 .. HashSize - 1
  BY <1>1, ProbeInTable, Types DEF IInv
<1>3. At(nodes', p, level, w) = idx
  BY <1>1, <1>2 DEF At, Node
<1>4. w \in Stops(nodes', p, level)
  BY <1>1, <1>3 DEF Stops
<1>5. ASSUME NEW i \in 0 .. w - 1
      PROVE  i \notin Stops(nodes', p, level)
  <2>1. i \in 0 .. HashSize - 1 /\ i # w
    BY <1>1, SizeAssumption
  <2>2. ProbePos(level, i) \in 0 .. HashSize - 1 /\ ProbePos(level, i) # ProbePos(level, w)
    BY <1>1, <2>1, ProbeInTable, ProbeInjective
  <2>3. At(nodes, p, level, i) # NoNode /\ At(nodes', p, level, i) = At(nodes, p, level, i)
    BY <1>1, <1>2, <2>2 DEF At, Node
  <2>4. At(nodes, p, level, i) \in NodeIdx /\ At(nodes, p, level, i) # idx
    BY <1>2, <2>2 DEF At, Node, IInv, NoFreeChild
  <2>5. nodes[At(nodes, p, level, i)].name # level
    <3>1. SUFFICES ASSUME nodes[At(nodes, p, level, i)].name = level PROVE FALSE
      OBVIOUS
    <3>2. i \in S
      BY <2>1, <3>1 DEF Stops
    <3>3. At(nodes, p, level, Least(S)) = NoNode /\ Least(S) \in S /\ Least(S) <= i
      BY <3>2, FirstStop
    <3>4. Least(S) \in 0 .. HashSize - 1
      BY <3>3 DEF Stops
    <3>5. Least(S) \in 0 .. w - 1
      BY <1>1, <3>3, <3>4
    <3> QED
      BY <1>1, <3>3, <3>5 DEF At
  <2>6. nodes'[At(nodes, p, level, i)].name = nodes[At(nodes, p, level, i)].name
    BY <2>4 DEF NodeAdded
  <2>7. At(nodes', p, level, i) # NoNode /\ nodes'[At(nodes', p, level, i)].name # level
    BY <2>3, <2>5, <2>6
  <2> QED
    BY <2>7 DEF Stops, NoNode
<1>6. Find(nodes', p, level) = At(nodes', p, level, w)
  BY <1>1, <1>4, <1>5, FirstStopIs
<1> QED
  BY <1>3, <1>6

(* ChildrenFindable after a step, in terms of Find. *)
LEMMA FindableNext ==
  ASSUME \A n \in Allocated' :
           /\ nodes'[n].parent \in {Root} \cup Allocated'
           /\ Find(nodes', nodes'[n].parent, nodes'[n].name) = n
           /\ nodes'[n].name = "+" => nodes'[nodes'[n].parent].plus_child = n
           /\ nodes'[n].name = "#" => nodes'[nodes'[n].parent].hash_child = n
  PROVE  ChildrenFindable'
BY DEF ChildrenFindable, FindChild, Find, Stops, At

(* A new node is empty, linked once and found, and hides no other.             *)
LEMMA GrowStep ==
  ASSUME IInv, Grow
  PROVE  IInv'
<1> DEFINE p == walk.node
           level == Head(walk.path)
<1>1. /\ walk.path # << >> /\ FindChild(p, level) = NoNode
      /\ ~AddFails(nodes[p], level)
      /\ clients' = clients /\ granted' = granted
  BY DEF Grow, NextChild
<1>2. PICK idx \in free :
        /\ free' = free \ {idx}
        /\ nodes' = [nodes EXCEPT ![idx] = [EmptyNode EXCEPT !.name = level, !.parent = p],
                                  ![p] = WithChild(@, idx, level)]
        /\ walk' = [walk EXCEPT !.node = idx, !.path = Tail(@)]
  BY DEF Grow
<1>3. /\ p \in NodeIdx /\ level \in Levels /\ p \notin free /\ p # idx
      /\ idx \in Nodes /\ idx \in NodeIdx /\ idx # NoNode
  BY <1>1, <1>2, NextLevel, NodesAssumption DEF IInv, WalkOK, TypeOK, NodeIdx, NoNode
<1> DEFINE child == [EmptyNode EXCEPT !.name = level, !.parent = p]
           parent == WithChild(nodes[p], idx, level)
<1> HIDE DEF p, level
<1>4. /\ nodes \in [NodeIdx -> Node] /\ nodes[p] \in Node
      /\ EmptyProbes(nodes[p], level) # {}
  BY <1>1, <1>3, Types DEF IInv, AddFails
<1>5. /\ child \in Node /\ child.name = level /\ child.parent = p
      /\ child.fd_bitmap = {} /\ child.sub_count = 0
      /\ \A k \in 0 .. HashSize - 1 : child.child_hash[k] = NoNode
  <2>1. child \in Node /\ child.name = level /\ child.parent = p
        /\ child.fd_bitmap = EmptyNode.fd_bitmap /\ child.sub_count = EmptyNode.sub_count
        /\ child.child_hash = EmptyNode.child_hash
    BY <1>3, EmptyNodeTyped DEF Node
  <2>2. /\ EmptyNode.fd_bitmap = {} /\ EmptyNode.sub_count = 0
        /\ \A k \in 0 .. HashSize - 1 : EmptyNode.child_hash[k] = NoNode
    BY DEF EmptyNode
  <2> HIDE DEF child
  <2> QED
    BY <2>1, <2>2
<1> DEFINE w == Least(EmptyProbes(nodes[p], level))
<1>6. /\ parent \in Node
      /\ w \in 0 .. HashSize - 1
      /\ \A j \in 0 .. w - 1 : nodes[p].child_hash[ProbePos(level, j)] # NoNode
      /\ nodes[p].child_hash[ProbePos(level, w)] = NoNode
      /\ parent.child_hash = [nodes[p].child_hash EXCEPT ![ProbePos(level, w)] = idx]
      /\ parent.name = nodes[p].name
      /\ parent.parent = nodes[p].parent
      /\ parent.fd_bitmap = nodes[p].fd_bitmap
      /\ parent.sub_count = nodes[p].sub_count
      /\ parent.plus_child = IF level = "+" THEN idx ELSE nodes[p].plus_child
      /\ parent.hash_child = IF level = "#" THEN idx ELSE nodes[p].hash_child
  BY <1>3, <1>4, WithChildOK
<1>7. /\ nodes' \in [NodeIdx -> Node]
      /\ nodes'[idx] = child /\ nodes'[p] = parent
      /\ \A n \in NodeIdx \ {p, idx} : nodes'[n] = nodes[n]
  <2>1. nodes' = [nodes EXCEPT ![idx] = child, ![p] = parent]
    BY <1>2, <1>3, <1>4 DEF p, level
  <2> HIDE DEF child, parent
  <2> QED
    BY <1>3, <1>4, <1>5, <1>6, <2>1
<1> HIDE DEF child, parent
<1>8. NodeAdded(p, idx, level)
  BY <1>2, <1>5, <1>6, <1>7 DEF NodeAdded
<1> HIDE DEF w
<1>9. NoFreeChild'
  <2>1. ASSUME NEW n \in NodeIdx, NEW k \in 0 .. HashSize - 1
        PROVE  nodes'[n].child_hash[k] \notin free \ {idx}
    <3>1. nodes[n].child_hash[k] \notin free
      BY DEF IInv, NoFreeChild
    <3>2. CASE n = idx
      BY <1>5, <1>7, <3>2, NodesAssumption DEF NoNode, IInv, TypeOK
    <3>3. CASE n = p
      <4>1. nodes[p].child_hash \in [0 .. HashSize - 1 -> NodeIdx]
        BY <1>4 DEF Node
      <4>2. parent.child_hash[k] \in {idx, nodes[p].child_hash[k]}
        BY <1>6, <4>1
      <4> QED
        BY <1>7, <3>1, <3>3, <4>2
    <3>4. CASE n \notin {p, idx}
      BY <1>7, <3>1, <3>4
    <3> QED
      BY <3>2, <3>3, <3>4
  <2> QED
    BY <1>2, <2>1 DEF NoFreeChild
<1>10. SubCountExact'
  <2>1. Cardinality({}) = 0
    BY FS_EmptySet
  <2>2. ASSUME NEW n \in NodeIdx
        PROVE  /\ nodes'[n].sub_count = Cardinality(nodes'[n].fd_bitmap)
               /\ n \in free' => nodes'[n].fd_bitmap = {}
    <3>1. /\ nodes[n].sub_count = Cardinality(nodes[n].fd_bitmap)
          /\ n \in free => nodes[n].fd_bitmap = {}
      BY DEF IInv, SubCountExact
    <3>2. CASE n = idx
      BY <1>2, <1>5, <1>7, <2>1, <3>2
    <3>3. CASE n = p
      BY <1>2, <1>6, <1>7, <3>1, <3>3
    <3>4. CASE n \notin {p, idx}
      BY <1>2, <1>7, <3>1, <3>4
    <3> QED
      BY <3>2, <3>3, <3>4
  <2> QED
    BY <2>2 DEF SubCountExact
<1>11. ChildrenFindable'
  <2>1. ASSUME NEW n \in Allocated'
        PROVE  /\ nodes'[n].parent \in {Root} \cup Allocated'
               /\ Find(nodes', nodes'[n].parent, nodes'[n].name) = n
               /\ nodes'[n].name = "+" => nodes'[nodes'[n].parent].plus_child = n
               /\ nodes'[n].name = "#" => nodes'[nodes'[n].parent].hash_child = n
    <3>1. Allocated' = Allocated \cup {idx} /\ Allocated \subseteq NodeIdx
      BY <1>2, <1>3 DEF Allocated, NodeIdx
    <3>2. CASE n = idx
      <4>1. nodes'[n].parent = p /\ nodes'[n].name = level
        BY <1>5, <1>7, <3>2
      <4>2. p \in {Root} \cup Allocated
        BY <1>3 DEF Allocated, NodeIdx
      <4>3. Find(nodes', p, level) = idx
        BY <1>1, <1>2, <1>3, <1>8, NewChildFound, FindIsFindChild DEF p, level
      <4> QED
        BY <1>6, <1>7, <3>1, <3>2, <4>1, <4>2, <4>3
    <3>3. CASE n # idx
      <4> DEFINE q == nodes[n].parent
                 l == nodes[n].name
      <4>1. n \in Allocated /\ n \in NodeIdx /\ n # NoNode
        BY <3>1, <3>3, NodesAssumption DEF Allocated, NoNode
      <4>2. /\ q \in {Root} \cup Allocated
            /\ FindChild(q, l) = n
            /\ l = "+" => nodes[q].plus_child = n
            /\ l = "#" => nodes[q].hash_child = n
        BY <4>1 DEF IInv, ChildrenFindable
      <4>3. q \in NodeIdx /\ q # idx /\ l \in Levels
        BY <1>2, <1>3, <1>4, <3>1, <4>1, <4>2 DEF Allocated, Node, NodeIdx, NoNode
      <4>4. nodes'[n].parent = q /\ nodes'[n].name = l
        BY <1>6, <1>7, <3>3, <4>1
      <4> HIDE DEF q, l
      <4>5. Find(nodes', q, l) = n
        <5>1. Find(nodes, q, l) = n
          BY <4>2, FindIsFindChild
        <5> QED
          BY <1>2, <1>3, <1>8, <4>1, <4>3, <5>1, OldChildFound
      <4>6. q = p => l # level
        BY <1>1, <4>1, <4>2 DEF p, level
      <4>7. /\ l = "+" => nodes'[q].plus_child = n
            /\ l = "#" => nodes'[q].hash_child = n
        <5>1. CASE q = p
          BY <1>6, <1>7, <4>2, <4>6, <5>1
        <5>2. CASE q # p
          BY <1>7, <4>2, <4>3, <5>2
        <5> QED
          BY <5>1, <5>2
      <4> QED
        BY <3>1, <4>2, <4>4, <4>5, <4>7
    <3> QED
      BY <3>2, <3>3
  <2> QED
    BY <2>1, FindableNext
<1>12. WalkOK'
  BY <1>1, <1>2, <1>3, DownOK DEF IInv
<1>13. free' \subseteq Nodes
  BY <1>2 DEF IInv, TypeOK
<1> QED
  BY <1>1, <1>7, <1>9, <1>10, <1>11, <1>12, <1>13, Types, TypeNext DEF IInv

(* The invariant is inductive. *)
LEMMA NextIInv == IInv /\ [Next]_vars => IInv'
<1> SUFFICES ASSUME IInv, [Next]_vars PROVE IInv'
  OBVIOUS
<1>1. ASSUME NEW c \in Slots, Accept(c) PROVE IInv'
  BY <1>1, AcceptStep
<1>2. ASSUME NEW c \in Slots, SubmitClose(c) PROVE IInv'
  BY <1>2, SubmitCloseStep
<1>3. ASSUME NEW c \in Slots, NEW clean \in BOOLEAN, HandleClose(c, clean) PROVE IInv'
  BY <1>3, HandleCloseStep
<1>4. ASSUME NEW c \in Slots, NEW kind \in {"subscribe", "unsubscribe"}, NEW len \in Packets,
             NEW asked \in [1 .. len -> Asked], Receive(c, kind, asked)
      PROVE  IInv'
  BY <1>4, ReceiveStep
<1>5. ASSUME Descend \/ Grow \/ Fail \/ Mark PROVE IInv'
  BY <1>5, DescendStep, GrowStep, FailStep, MarkStep
<1>6. ASSUME Unmark \/ Miss \/ Answer PROVE IInv'
  BY <1>6, UnmarkActionStep, MissStep, AnswerStep
<1>7. CASE UNCHANGED vars
  <2>1. NoFreeChild' /\ SubCountExact' /\ ChildrenFindable'
    BY <1>7, SameTrie DEF vars, IInv
  <2>2. WalkOK'
    BY <1>7 DEF vars, IInv, WalkOK
  <2> QED
    BY <1>7, <2>1, <2>2, Types, TypeNext DEF vars, IInv
<1> QED
  BY <1>1, <1>2, <1>3, <1>4, <1>5, <1>6, <1>7 DEF Next

-------------------------------------------------------------------------------
(* The theorems.                                                               *)

(* Every variable keeps its type: a walk stays inside the pool and the packet, *)
(* and no subscriber count goes below zero.                                    *)
THEOREM TypeCorrect == Spec => []TypeOK
<1>1. IInv => TypeOK
  BY DEF IInv
<1> QED
  BY <1>1, InitIInv, NextIInv, PTL DEF Spec

(* The count that matching looks at is the size of the bitmap beside it, after *)
(* any sequence of SUBSCRIBE, UNSUBSCRIBE and disconnects.                     *)
THEOREM SubCountCorrect == Spec => []SubCountExact
<1>1. IInv => SubCountExact
  BY DEF IInv
<1> QED
  BY <1>1, InitIInv, NextIInv, PTL DEF Spec

(* A node that was added is found by the lookup of its level from its parent,  *)
(* and by the parent's wildcard pointer, for ever: whatever the hashes are and *)
(* however full the tables get.                                                *)
THEOREM ChildrenCorrect == Spec => []ChildrenFindable
<1>1. IInv => ChildrenFindable
  BY DEF IInv
<1> QED
  BY <1>1, InitIInv, NextIInv, PTL DEF Spec

-------------------------------------------------------------------------------
(* Paths.                                                                      *)

(* Path, as a function of the pool.                                            *)
PathIn(pool, n) ==
  LET P[m \in NodeIdx] == IF m = Root THEN << >>
                          ELSE Append(P[pool[m].parent], pool[m].name)
  IN  P[n]

(* Every node has a path: there is no cycle of parents.                        *)
PathsOf(pool, P) ==
  /\ P \in [NodeIdx -> Seq(Levels)]
  /\ P[Root] = << >>
  /\ \A n \in Nodes : P[n] = Append(P[pool[n].parent], pool[n].name)

(* What the pointers of the nodes lead to, and how the nodes are named.         *)
LinksOK ==
  /\ \A n \in NodeIdx, k \in 0 .. HashSize - 1 :
       nodes[n].child_hash[k] # NoNode => nodes[nodes[n].child_hash[k]].parent = n
  /\ \A n \in NodeIdx : nodes[n].plus_child # NoNode =>
       /\ nodes[n].plus_child \in Allocated /\ nodes[nodes[n].plus_child].parent = n
       /\ nodes[nodes[n].plus_child].name = "+"
  /\ \A n \in NodeIdx : nodes[n].hash_child # NoNode =>
       /\ nodes[n].hash_child \in Allocated /\ nodes[nodes[n].hash_child].parent = n
       /\ nodes[nodes[n].hash_child].name = "#"
  /\ \A n \in Allocated : Cut[nodes[n].name] = nodes[n].name
  /\ \A n \in free : nodes[n].parent = Root
Tree == LinksOK /\ \E P : PathsOf(nodes, P)

(* Two sequences are equal if their elements are.                              *)
LEMMA SeqExtensional ==
  ASSUME NEW s \in Seq(Levels), NEW t \in Seq(Levels), Len(s) = Len(t),
         \A i \in 1 .. Len(s) : s[i] = t[i]
  PROVE  s = t
BY SeqEqual

(* A sequence with one element more.                                           *)
LEMMA AppendLemma ==
  ASSUME NEW s \in Seq(Levels), NEW l \in Levels
  PROVE  /\ Append(s, l) \in Seq(Levels) /\ Len(s) \in Nat
         /\ Len(Append(s, l)) = Len(s) + 1
         /\ \A i \in 1 .. Len(s) : Append(s, l)[i] = s[i]
         /\ Append(s, l)[Len(s) + 1] = l
BY AppendProperties, LenProperties

(* There is one way only to give nodes their paths.                            *)
LEMMA PathIs ==
  ASSUME NEW pool, NEW P, PathsOf(pool, P),
         \A n \in Nodes : pool[n].parent \in NodeIdx /\ pool[n].name \in Levels
  PROVE  \A n \in NodeIdx : PathIn(pool, n) = P[n]
<1> DEFINE Rec(Q) == [m \in NodeIdx |-> IF m = Root THEN << >>
                                        ELSE Append(Q[pool[m].parent], pool[m].name)]
           Q == CHOOSE Q : Q = Rec(Q)
<1>1. /\ P \in [NodeIdx -> Seq(Levels)] /\ P[Root] = << >>
      /\ \A n \in Nodes : P[n] = Append(P[pool[n].parent], pool[n].name)
  BY DEF PathsOf
<1>2. P = Rec(P)
  <2>1. P = [m \in NodeIdx |-> P[m]]
    BY <1>1
  <2>2. \A m \in NodeIdx : P[m] = IF m = Root THEN << >>
                                  ELSE Append(P[pool[m].parent], pool[m].name)
    BY <1>1 DEF NodeIdx
  <2> QED
    BY <2>1, <2>2
<1>3. Q = Rec(Q)
  BY <1>2
<1>4. \A n \in NodeIdx : PathIn(pool, n) = Q[n]
  BY DEF PathIn
<1> HIDE DEF Q
<1>5. Q[Root] = << >> /\ \A n \in Nodes : Q[n] = Append(Q[pool[n].parent], pool[n].name)
  BY <1>3, NodesAssumption DEF NodeIdx
<1> DEFINE Bad == {Len(P[n]) : n \in {m \in NodeIdx : Q[m] # P[m]}}
<1>6. \A n \in NodeIdx : Len(P[n]) \in Nat
  BY <1>1, LenProperties
<1>7. Bad = {}
  <2> SUFFICES ASSUME Bad # {} PROVE FALSE
    OBVIOUS
  <2>1. Bad \subseteq Nat
    BY <1>6
  <2> DEFINE least == Least(Bad)
  <2>2. least \in Bad /\ \A j \in Bad : least <= j
    BY <2>1, LeastLemma
  <2> HIDE DEF least
  <2>3. PICK n \in NodeIdx : Q[n] # P[n] /\ Len(P[n]) = least
    BY <2>2
  <2>4. n \in Nodes
    BY <1>1, <1>5, <2>3 DEF NodeIdx
  <2> DEFINE p == pool[n].parent
  <2>5. p \in NodeIdx /\ pool[n].name \in Levels /\ P[n] = Append(P[p], pool[n].name)
        /\ Q[n] = Append(Q[p], pool[n].name)
    BY <1>1, <1>5, <2>4
  <2> HIDE DEF p
  <2>6. Q[p] # P[p]
    BY <2>3, <2>5
  <2>7. Len(P[p]) \in Bad
    BY <2>5, <2>6
  <2>8. Len(P[n]) = Len(P[p]) + 1 /\ Len(P[p]) \in Nat
    <3>1. P[p] \in Seq(Levels)
      BY <1>1, <2>5
    <3> QED
      BY <2>5, <3>1, AppendLemma
  <2>9. least <= Len(P[p])
    BY <2>2, <2>7
  <2> QED
    BY <2>3, <2>8, <2>9
<1>8. \A n \in NodeIdx : Q[n] = P[n]
  BY <1>7
<1> QED
  BY <1>4, <1>8

LEMMA PathNow ==
  ASSUME nodes \in [NodeIdx -> Node], NEW P, PathsOf(nodes, P)
  PROVE  \A n \in NodeIdx : Path(n) = P[n]
<1>1. \A n \in Nodes : nodes[n].parent \in NodeIdx /\ nodes[n].name \in Levels
  BY DEF Node, NodeIdx
<1>2. \A n \in NodeIdx : PathIn(nodes, n) = P[n]
  BY <1>1, PathIs
<1>3. \A n \in NodeIdx : Path(n) = PathIn(nodes, n)
  BY DEF Path, PathIn
<1> QED
  BY <1>2, <1>3

LEMMA PathNext ==
  ASSUME nodes' \in [NodeIdx -> Node], NEW CONSTANT P, PathsOf(nodes', P)
  PROVE  \A n \in NodeIdx : Path(n)' = P[n]
<1>1. \A n \in Nodes : nodes'[n].parent \in NodeIdx /\ nodes'[n].name \in Levels
  BY DEF Node, NodeIdx
<1>2. \A n \in NodeIdx : PathIn(nodes', n) = P[n]
  BY <1>1, PathIs
<1>3. \A n \in NodeIdx : Path(n)' = PathIn(nodes', n)
  BY DEF Path, PathIn
<1> QED
  BY <1>2, <1>3

Used == {Root} \cup Allocated
Extends(s, t) == Len(t) <= Len(s) /\ \A i \in 1 .. Len(t) : s[i] = t[i]

LEMMA PathFacts ==
  ASSUME IInv, NEW P, PathsOf(nodes, P), NEW n \in Used
  PROVE  n \in NodeIdx /\ P[n] \in Seq(Levels) /\ Len(P[n]) \in Nat
<1>1. n \in NodeIdx
  BY DEF Used, Allocated, NodeIdx
<1>2. P[n] \in Seq(Levels)
  BY <1>1 DEF PathsOf
<1> QED
  BY <1>1, <1>2, LenProperties

(* A node lies below its parent, which finds it under its name.                *)
LEMMA ChildFacts ==
  ASSUME IInv, NEW P, PathsOf(nodes, P), NEW n \in Allocated
  PROVE  /\ n \in Used /\ n # Root /\ nodes[n].parent \in Used /\ nodes[n].name \in Levels
         /\ P[n] = Append(P[nodes[n].parent], nodes[n].name)
         /\ Len(P[n]) = Len(P[nodes[n].parent]) + 1
         /\ Extends(P[n], P[nodes[n].parent])
         /\ P[n][Len(P[n])] = nodes[n].name
         /\ FindChild(nodes[n].parent, nodes[n].name) = n
<1> DEFINE p == nodes[n].parent
           l == nodes[n].name
<1>1. n \in Used /\ n # Root /\ n \in Nodes
  BY NodesAssumption DEF Used, Allocated
<1>2. p \in Used /\ FindChild(p, l) = n
  BY DEF IInv, ChildrenFindable, Used
<1>3. l \in Levels
  BY <1>1 DEF IInv, TypeOK, Node, NodeIdx
<1>4. P[n] = Append(P[p], l)
  BY <1>1 DEF PathsOf
<1> HIDE DEF p, l
<1>5. P[p] \in Seq(Levels) /\ Len(P[p]) \in Nat
  BY <1>2, PathFacts
<1>6. /\ Len(P[n]) = Len(P[p]) + 1 /\ \A i \in 1 .. Len(P[p]) : P[n][i] = P[p][i]
      /\ P[n][Len(P[p]) + 1] = l
  BY <1>3, <1>4, <1>5, AppendLemma
<1>7. Extends(P[n], P[p]) /\ P[n][Len(P[n])] = l
  BY <1>5, <1>6 DEF Extends
<1> QED
  BY <1>1, <1>2, <1>3, <1>4, <1>6, <1>7 DEF p, l

(* Only the root has the empty path.                                           *)
LEMMA RootPath ==
  ASSUME IInv, NEW P, PathsOf(nodes, P), NEW n \in Used
  PROVE  n = Root <=> Len(P[n]) = 0
<1>1. n = Root => Len(P[n]) = 0
  BY EmptySeq DEF PathsOf
<1>2. n # Root => Len(P[n]) # 0
  <2> SUFFICES ASSUME n # Root PROVE Len(P[n]) # 0
    OBVIOUS
  <2>1. n \in Allocated
    BY DEF Used
  <2>2. Len(P[n]) = Len(P[nodes[n].parent]) + 1 /\ nodes[n].parent \in Used
    BY <2>1, ChildFacts
  <2>3. Len(P[nodes[n].parent]) \in Nat
    BY <2>2, PathFacts
  <2> QED
    BY <2>2, <2>3
<1> QED
  BY <1>1, <1>2

(* No two nodes have the same path: a filter has one node.                     *)
LEMMA PathInjective ==
  ASSUME IInv, NEW P, PathsOf(nodes, P), NEW n \in Used, NEW m \in Used, P[n] = P[m]
  PROVE  n = m
<1> DEFINE Bad == {Len(P[x]) : x \in {y \in Used : \E z \in Used : z # y /\ P[z] = P[y]}}
<1>1. \A x \in Used : Len(P[x]) \in Nat
  BY PathFacts
<1>2. Bad = {}
  <2> SUFFICES ASSUME Bad # {} PROVE FALSE
    OBVIOUS
  <2> DEFINE least == Least(Bad)
  <2>1. Bad \subseteq Nat
    BY <1>1
  <2>2. least \in Bad /\ \A j \in Bad : least <= j
    BY <2>1, LeastLemma
  <2> HIDE DEF least
  <2>3. PICK x \in Used, y \in Used : x # y /\ P[x] = P[y] /\ Len(P[x]) = least
    BY <2>2
  <2>4. x # Root /\ y # Root
    BY <2>3, RootPath
  <2>5. x \in Allocated /\ y \in Allocated
    BY <2>4 DEF Used
  <2> DEFINE p == nodes[x].parent
             q == nodes[y].parent
  <2>6. /\ p \in Used /\ Len(P[x]) = Len(P[p]) + 1 /\ Extends(P[x], P[p])
        /\ P[x][Len(P[x])] = nodes[x].name /\ FindChild(p, nodes[x].name) = x
    BY <2>5, ChildFacts
  <2>7. /\ q \in Used /\ Len(P[y]) = Len(P[q]) + 1 /\ Extends(P[y], P[q])
        /\ P[y][Len(P[y])] = nodes[y].name /\ FindChild(q, nodes[y].name) = y
    BY <2>5, ChildFacts
  <2> HIDE DEF p, q
  <2>8. P[p] \in Seq(Levels) /\ Len(P[p]) \in Nat /\ P[q] \in Seq(Levels) /\ Len(P[q]) \in Nat
    BY <2>6, <2>7, PathFacts
  <2>9. Len(P[p]) = Len(P[q])
    BY <2>3, <2>6, <2>7, <2>8
  <2>10. \A i \in 1 .. Len(P[p]) : P[p][i] = P[q][i]
    BY <2>3, <2>6, <2>7, <2>9 DEF Extends
  <2>11. P[p] = P[q]
    BY <2>8, <2>9, <2>10, SeqExtensional
  <2>12. p = q
    <3> SUFFICES ASSUME p # q PROVE FALSE
      OBVIOUS
    <3>1. Len(P[p]) \in Bad
      BY <2>6, <2>7, <2>11
    <3>2. least <= Len(P[p])
      BY <2>2, <3>1
    <3> QED
      BY <2>3, <2>6, <2>8, <3>2
  <2>13. nodes[x].name = nodes[y].name
    BY <2>3, <2>6, <2>7
  <2> QED
    BY <2>3, <2>6, <2>7, <2>12, <2>13
<1>3. n # m => Len(P[n]) \in Bad
  OBVIOUS
<1> QED
  BY <1>2, <1>3

(* Each prefix of a path is the path of a node.                                *)
LEMMA Ancestor ==
  ASSUME IInv, NEW P, PathsOf(nodes, P), NEW n \in Used, NEW j \in 0 .. Len(P[n])
  PROVE  \E m \in Used : Len(P[m]) = j /\ Extends(P[n], P[m])
<1> DEFINE Good(x) == j <= Len(P[x]) =>
                        \E m \in Used : Len(P[m]) = j /\ Extends(P[x], P[m])
           Bad == {Len(P[x]) : x \in {y \in Used : ~Good(y)}}
<1>1. \A x \in Used : Len(P[x]) \in Nat
  BY PathFacts
<1>2. Bad = {}
  <2> SUFFICES ASSUME Bad # {} PROVE FALSE
    OBVIOUS
  <2> DEFINE least == Least(Bad)
  <2>1. Bad \subseteq Nat
    BY <1>1
  <2>2. least \in Bad /\ \A k \in Bad : least <= k
    BY <2>1, LeastLemma
  <2> HIDE DEF least
  <2>3. PICK x \in Used : ~Good(x) /\ Len(P[x]) = least
    BY <2>2
  <2>4. j # Len(P[x])
    <3>1. Extends(P[x], P[x])
      BY <1>1 DEF Extends
    <3> QED
      BY <2>3, <3>1
  <2>5. j \in Nat /\ Len(P[x]) \in Nat /\ j < Len(P[x])
    <3>1. j \in Nat
      BY <1>1
    <3> QED
      BY <1>1, <2>3, <2>4, <3>1
  <2>6. x \in Allocated
    <3>1. x # Root
      BY <2>5, RootPath
    <3> QED
      BY <3>1 DEF Used
  <2> DEFINE p == nodes[x].parent
  <2>7. p \in Used /\ Len(P[x]) = Len(P[p]) + 1 /\ Extends(P[x], P[p])
    BY <2>6, ChildFacts
  <2> HIDE DEF p
  <2>8. Len(P[p]) \in Nat /\ j <= Len(P[p]) /\ Len(P[p]) < least
    BY <1>1, <2>3, <2>5, <2>7
  <2>9. Good(p)
    <3> SUFFICES ASSUME ~Good(p) PROVE FALSE
      OBVIOUS
    <3>1. Len(P[p]) \in Bad
      BY <2>7
    <3>2. least <= Len(P[p])
      BY <2>2, <3>1
    <3> QED
      BY <2>3, <2>5, <2>8, <3>2
  <2>10. PICK m \in Used : Len(P[m]) = j /\ Extends(P[p], P[m])
    BY <2>8, <2>9
  <2>11. Extends(P[x], P[m])
    BY <1>1, <2>7, <2>8, <2>10 DEF Extends
  <2> QED
    BY <2>3, <2>10, <2>11
<1>3. Good(n)
  BY <1>2
<1>4. j <= Len(P[n])
  BY <1>1
<1> QED
  BY <1>3, <1>4

(* If a path goes on from that of a node, the node has the child it leads to.  *)
LEMMA ChildOnPath ==
  ASSUME IInv, NEW P, PathsOf(nodes, P), NEW p \in Used, NEW n \in Used,
         Extends(P[n], P[p]), Len(P[p]) < Len(P[n])
  PROVE  \E m \in Allocated :
           /\ nodes[m].parent = p /\ nodes[m].name = P[n][Len(P[p]) + 1]
           /\ FindChild(p, P[n][Len(P[p]) + 1]) = m
           /\ Extends(P[n], P[m]) /\ Len(P[m]) = Len(P[p]) + 1
<1>1. /\ P[p] \in Seq(Levels) /\ Len(P[p]) \in Nat /\ Len(P[n]) \in Nat
  BY PathFacts
<1> DEFINE j == Len(P[p]) + 1
<1>2. j \in 0 .. Len(P[n])
  BY <1>1
<1> HIDE DEF j
<1>3. PICK m \in Used : Len(P[m]) = j /\ Extends(P[n], P[m])
  BY <1>2, Ancestor
<1>4. m \in Allocated
  <2>1. m # Root
    BY <1>1, <1>3, RootPath DEF j
  <2> QED
    BY <2>1 DEF Used
<1> DEFINE q == nodes[m].parent
<1>5. /\ q \in Used /\ Len(P[m]) = Len(P[q]) + 1 /\ Extends(P[m], P[q])
      /\ P[m][Len(P[m])] = nodes[m].name /\ FindChild(q, nodes[m].name) = m
  BY <1>4, ChildFacts
<1> HIDE DEF q
<1>6. P[q] \in Seq(Levels) /\ Len(P[q]) \in Nat
  BY <1>5, PathFacts
<1>7. Len(P[q]) = Len(P[p])
  BY <1>1, <1>3, <1>5, <1>6 DEF j
<1>8. \A i \in 1 .. Len(P[p]) : P[q][i] = P[p][i]
  <2> SUFFICES ASSUME NEW i \in 1 .. Len(P[p]) PROVE P[q][i] = P[p][i]
    OBVIOUS
  <2>1. i \in 1 .. Len(P[q]) /\ i \in 1 .. Len(P[m])
    BY <1>1, <1>3, <1>7 DEF j
  <2>2. P[n][i] = P[p][i]
    BY DEF Extends
  <2>3. P[n][i] = P[m][i]
    BY <1>3, <2>1 DEF Extends
  <2>4. P[m][i] = P[q][i]
    BY <1>5, <2>1 DEF Extends
  <2> QED
    BY <2>2, <2>3, <2>4
<1>9. q = p
  <2>1. P[q] = P[p]
    BY <1>1, <1>6, <1>7, <1>8, SeqExtensional
  <2> QED
    BY <1>5, <2>1, PathInjective
<1>10. nodes[m].name = P[n][j]
  <2>1. j \in 1 .. Len(P[m])
    BY <1>1, <1>3 DEF j
  <2>2. P[n][j] = P[m][j]
    BY <1>3, <2>1 DEF Extends
  <2> QED
    BY <1>3, <1>5, <2>2
<1> QED
  BY <1>3, <1>4, <1>5, <1>9, <1>10 DEF j, q

-------------------------------------------------------------------------------
(* What sessions hold.                                                         *)

(* A slot that is in a bitmap serves a session, and the bitmap remembers the    *)
(* generation of its present connection.                                       *)
MarksOK ==
  \A n \in NodeIdx : \A c \in nodes[n].fd_bitmap :
    nodes[n].fd_gen[c] = clients[c].generation /\ clients[c].state # "FREE"

(* A walk is for an active client; what it has passed and what is left of the   *)
(* filter make the filter's key.                                               *)
WalkAt ==
  IF walk.kind = "none" THEN walk = NoWalk
  ELSE /\ clients[walk.slot].state = "ACTIVE"
       /\ walk.i <= Considered(walk.asked) =>
            Path(walk.node) \o walk.path = Key(walk.asked[walk.i].filter)

(* Whether slot c holds filter k, by what it was told last (g) and by the part  *)
(* of the packet that has been processed (w).                                  *)
Done(w, k) == {j \in 1 .. w.i - 1 : Key(w.asked[j].filter) = k}
Holds(w, g, c, k) ==
  IF c # w.slot THEN g[c][k] # NotHeld
  ELSE IF w.kind = "subscribe"
  THEN g[c][k] # NotHeld \/ \E j \in Done(w, k) : w.codes[j] # NotHeld
  ELSE g[c][k] # NotHeld /\ Done(w, k) = {}
View == \A c \in Slots : Held(c) = {k \in Keys : Holds(walk, granted, c, k)}

LInv == IInv /\ Tree /\ MarksOK /\ WalkAt /\ View

(* What slot c holds in a pool whose paths are P.                              *)
HeldIn(pool, P, c) == {P[n] : n \in {m \in NodeIdx : c \in pool[m].fd_bitmap}}

LEMMA HeldNow ==
  ASSUME IInv, NEW P, PathsOf(nodes, P), NEW c
  PROVE  Held(c) = HeldIn(nodes, P, c)
<1>1. \A n \in NodeIdx : Path(n) = P[n]
  BY PathNow DEF IInv, TypeOK
<1>2. \A n \in NodeIdx : c \in nodes[n].fd_bitmap => n \in Allocated \cup {Root}
  BY DEF IInv, SubCountExact, Allocated, NodeIdx
<1>3. Allocated \cup {Root} \subseteq NodeIdx
  BY DEF Allocated, NodeIdx
<1> QED
  BY <1>1, <1>2, <1>3 DEF Held, HeldIn

LEMMA HeldNext ==
  ASSUME IInv', NEW CONSTANT P, PathsOf(nodes', P), NEW CONSTANT c
  PROVE  Held(c)' = HeldIn(nodes', P, c)
<1>1. \A n \in NodeIdx : Path(n)' = P[n]
  BY PathNext DEF IInv, TypeOK
<1>2. \A n \in NodeIdx : c \in nodes'[n].fd_bitmap => n \in Allocated' \cup {Root}
  BY DEF IInv, SubCountExact, Allocated, NodeIdx
<1>3. Allocated' \cup {Root} \subseteq NodeIdx
  BY DEF Allocated, NodeIdx
<1> QED
  BY <1>1, <1>2, <1>3 DEF Held, HeldIn

(* While no child moves, every node keeps its path.                            *)
SameLinksNext ==
  /\ free' = free
  /\ \A n \in NodeIdx : /\ nodes'[n].name = nodes[n].name
                        /\ nodes'[n].parent = nodes[n].parent
                        /\ nodes'[n].plus_child = nodes[n].plus_child
                        /\ nodes'[n].hash_child = nodes[n].hash_child
                        /\ nodes'[n].child_hash = nodes[n].child_hash

LEMMA SameTree ==
  ASSUME IInv, LinksOK, SameLinksNext, NEW CONSTANT P, PathsOf(nodes, P)
  PROVE  LinksOK' /\ PathsOf(nodes', P)
<1>1. /\ nodes \in [NodeIdx -> Node] /\ free \subseteq Nodes
      /\ \A n \in NodeIdx, k \in 0 .. HashSize - 1 : nodes[n].child_hash[k] \in NodeIdx
      /\ \A n \in NodeIdx : nodes[n].plus_child \in NodeIdx /\ nodes[n].hash_child \in NodeIdx
  BY DEF IInv, TypeOK, Node
<1>2. Allocated' = Allocated /\ Allocated \subseteq NodeIdx /\ free \subseteq NodeIdx
  BY <1>1 DEF SameLinksNext, Allocated, NodeIdx
<1>3. \A n \in NodeIdx, k \in 0 .. HashSize - 1 :
        nodes'[n].child_hash[k] # NoNode => nodes'[nodes'[n].child_hash[k]].parent = n
  BY <1>1 DEF SameLinksNext, LinksOK
<1>4. \A n \in NodeIdx : nodes'[n].plus_child # NoNode =>
        /\ nodes'[n].plus_child \in Allocated' /\ nodes'[nodes'[n].plus_child].parent = n
        /\ nodes'[nodes'[n].plus_child].name = "+"
  BY <1>1, <1>2 DEF SameLinksNext, LinksOK
<1>5. \A n \in NodeIdx : nodes'[n].hash_child # NoNode =>
        /\ nodes'[n].hash_child \in Allocated' /\ nodes'[nodes'[n].hash_child].parent = n
        /\ nodes'[nodes'[n].hash_child].name = "#"
  BY <1>1, <1>2 DEF SameLinksNext, LinksOK
<1>6. /\ \A n \in Allocated' : Cut[nodes'[n].name] = nodes'[n].name
      /\ \A n \in free' : nodes'[n].parent = Root
  BY <1>2 DEF SameLinksNext, LinksOK
<1>7. LinksOK'
  BY <1>3, <1>4, <1>5, <1>6 DEF LinksOK, NoNode
<1>8. PathsOf(nodes', P)
  BY DEF SameLinksNext, PathsOf, NodeIdx
<1> QED
  BY <1>7, <1>8

LEMMA SameNodes ==
  ASSUME nodes' = nodes, free' = free
  PROVE  SameLinksNext
BY DEF SameLinksNext

(* One filter more has been processed, the one at w.i.                         *)
LEMMA DoneNext ==
  ASSUME NEW w, NEW v, w.i \in Nat \ {0}, v.i = w.i + 1, v.asked = w.asked, NEW k
  PROVE  Done(v, k) = IF Key(w.asked[w.i].filter) = k THEN Done(w, k) \cup {w.i} ELSE Done(w, k)
<1>1. 1 .. v.i - 1 = (1 .. w.i - 1) \cup {w.i}
  OBVIOUS
<1> QED
  BY <1>1 DEF Done

(* The walk w becomes v when the present filter is answered with code.         *)
Answered(w, v, code) ==
  /\ w.i \in Nat \ {0} /\ v.i = w.i + 1 /\ v.asked = w.asked
  /\ w.kind = "subscribe" /\ v.kind = w.kind /\ v.slot = w.slot
  /\ w.codes \in Seq(Codes) /\ Len(w.codes) = w.i - 1
  /\ code \in Codes /\ v.codes = Append(w.codes, code)

(* A subscription that was granted adds its filter,                            *)
LEMMA HoldsSubscribed ==
  ASSUME NEW w, NEW v, NEW code, Answered(w, v, code), NEW g, NEW c, NEW k
  PROVE  Holds(v, g, c, k) <=>
           \/ Holds(w, g, c, k)
           \/ c = w.slot /\ code # NotHeld /\ k = Key(w.asked[w.i].filter)
<1> USE DEF Answered
<1>1. /\ \A j \in 1 .. w.i - 1 : v.codes[j] = w.codes[j]
      /\ v.codes[w.i] = code
  <2>1. /\ \A j \in 1 .. Len(w.codes) : v.codes[j] = w.codes[j]
        /\ v.codes[Len(w.codes) + 1] = code
    BY AppendProperties
  <2>2. Len(w.codes) + 1 = w.i
    OBVIOUS
  <2> QED
    BY <2>1, <2>2
<1>2. Done(v, k) = IF Key(w.asked[w.i].filter) = k THEN Done(w, k) \cup {w.i} ELSE Done(w, k)
  BY DoneNext
<1>3. \A j \in Done(w, k) : j \in 1 .. w.i - 1
  BY DEF Done
<1>4. (\E j \in Done(v, k) : v.codes[j] # NotHeld) <=>
        \/ \E j \in Done(w, k) : w.codes[j] # NotHeld
        \/ code # NotHeld /\ k = Key(w.asked[w.i].filter)
  <2>1. CASE Key(w.asked[w.i].filter) = k
    BY <1>1, <1>2, <1>3, <2>1
  <2>2. CASE Key(w.asked[w.i].filter) # k
    BY <1>1, <1>2, <1>3, <2>2
  <2> QED
    BY <2>1, <2>2
<1> QED
  BY <1>4 DEF Holds

(* and an unsubscription takes it away.                                        *)
LEMMA HoldsUnsubscribed ==
  ASSUME NEW w, NEW v, w.i \in Nat \ {0}, v.i = w.i + 1, v.asked = w.asked,
         w.kind = "unsubscribe", v.kind = w.kind, v.slot = w.slot, NEW g, NEW c, NEW k
  PROVE  Holds(v, g, c, k) <=>
           Holds(w, g, c, k) /\ ~(c = w.slot /\ k = Key(w.asked[w.i].filter))
<1>1. Done(v, k) = IF Key(w.asked[w.i].filter) = k THEN Done(w, k) \cup {w.i} ELSE Done(w, k)
  BY DoneNext
<1>2. Done(v, k) = {} <=> Done(w, k) = {} /\ k # Key(w.asked[w.i].filter)
  BY <1>1
<1> QED
  BY <1>2 DEF Holds

(* At the beginning of a packet, as between packets, a client holds what it was *)
(* told.                                                                       *)
LEMMA HoldsTold ==
  ASSUME NEW w, w.i = 1, w.kind \in {"subscribe", "unsubscribe"} \/ w.slot \notin Slots,
         NEW g, NEW c \in Slots, NEW k
  PROVE  Holds(w, g, c, k) <=> g[c][k] # NotHeld
<1>1. Done(w, k) = {}
  BY DEF Done
<1> QED
  BY <1>1 DEF Holds

(* The answer tells the client what it holds after all of its filters.         *)
LEMMA HoldsAnswered ==
  ASSUME WalkOK, walk.kind # "none", walk.i > Considered(walk.asked), NEW k
  PROVE  Told(walk.slot, k) # NotHeld <=> Holds(walk, granted, walk.slot, k)
<1> DEFINE N == Considered(walk.asked)
           about == {i \in 1 .. N : Key(walk.asked[i].filter) = k}
           good == {i \in about : walk.kind = "subscribe" /\ walk.codes[i] # NotHeld}
           last == CHOOSE i \in good : \A j \in good : j <= i
<1>1. N \in Nat /\ walk.i \in Nat /\ walk.i = N + 1
  BY ConsideredLemma DEF WalkOK, Walks
<1>2. 1 .. walk.i - 1 = 1 .. N
  BY <1>1
<1>3. Done(walk, k) = about
  BY <1>2 DEF Done
<1>4. good # {} => last \in good
  <2> SUFFICES ASSUME good # {} PROVE last \in good
    OBVIOUS
  <2>1. good \subseteq 1 .. N
    OBVIOUS
  <2> HIDE DEF good, N
  <2>2. \E i \in good : \A j \in good : j <= i
    BY <1>1, <2>1, LargestBelow
  <2> QED
    BY <2>2
<1>5. Told(walk.slot, k) = IF walk.kind = "unsubscribe" /\ about # {} THEN NotHeld
                           ELSE IF good = {} THEN granted[walk.slot][k] ELSE walk.codes[last]
  BY DEF Told
<1>6. CASE walk.kind = "subscribe"
  <2>1. good # {} <=> \E j \in Done(walk, k) : walk.codes[j] # NotHeld
    BY <1>3, <1>6
  <2>2. good # {} => walk.codes[last] # NotHeld
    BY <1>4
  <2> HIDE DEF good, last, about
  <2> QED
    BY <1>5, <1>6, <2>1, <2>2 DEF Holds
<1>7. CASE walk.kind = "unsubscribe"
  <2>1. good = {}
    BY <1>7
  <2> HIDE DEF good, about
  <2> QED
    BY <1>3, <1>5, <1>7, <2>1 DEF Holds
<1>8. walk.kind \in {"subscribe", "unsubscribe"}
  BY DEF WalkOK, Walks
<1> QED
  BY <1>6, <1>7, <1>8

-------------------------------------------------------------------------------
(* Where a walk is.                                                            *)

(* A key's levels are cut to what a node can store.                            *)
LEMMA KeyCut ==
  ASSUME NEW filter \in Filters
  PROVE  \A i \in 1 .. Len(Key(filter)) : Cut[Key(filter)[i]] = Key(filter)[i]
<1> DEFINE segs == Segments(filter)
<1>1. segs \in Seq(Levels)
  <2>1. filter \in Seq(Levels) /\ filter # << >>
    BY PacketAssumption
  <2>2. Len(filter) \in Nat /\ Len(filter) > 0
    BY <2>1, EmptySeq, LenProperties
  <2>3. SubSeq(filter, 1, Len(filter) - 1) \in Seq(Levels)
    BY <2>1, <2>2
  <2> QED
    BY <2>1, <2>3 DEF Segments
<1>2. Len(segs) \in Nat /\ \A i \in 1 .. Len(segs) : segs[i] \in Levels
  BY <1>1, LenProperties, ElementOfSeq
<1>3. Key(filter) = [i \in 1 .. Len(segs) |-> Cut[segs[i]]]
  BY DEF Key
<1> HIDE DEF segs
<1>4. Len(Key(filter)) = Len(segs)
  <2>1. Key(filter) \in Seq(Levels)
    BY KeyTyped
  <2>2. DOMAIN Key(filter) = 1 .. Len(Key(filter)) /\ Len(Key(filter)) \in Nat
    BY <2>1, LenProperties
  <2>3. DOMAIN Key(filter) = 1 .. Len(segs)
    BY <1>3
  <2> QED
    BY <1>2, <2>2, <2>3
<1> QED
  BY <1>2, <1>3, <1>4, LevelsAssumption

(* A path followed by the rest of a filter.                                    *)
LEMMA RestOfPath ==
  ASSUME NEW s \in Seq(Levels), NEW t \in Seq(Levels)
  PROVE  /\ t = << >> => s \o t = s
         /\ s = << >> => s \o t = t
         /\ t # << >> =>
              /\ Head(t) \in Levels /\ Tail(t) \in Seq(Levels)
              /\ Len(s) < Len(s \o t) /\ (s \o t)[Len(s) + 1] = Head(t)
              /\ Extends(s \o t, s)
              /\ Append(s, Head(t)) \o Tail(t) = s \o t
<1>1. /\ s \o t \in Seq(Levels) /\ Len(s \o t) = Len(s) + Len(t)
      /\ \A i \in 1 .. Len(s) + Len(t) :
           (s \o t)[i] = IF i <= Len(s) THEN s[i] ELSE t[i - Len(s)]
  BY ConcatProperties
<1>2. Len(s) \in Nat /\ Len(t) \in Nat
  BY LenProperties
<1>3. ASSUME t # << >>
      PROVE  /\ Head(t) \in Levels /\ Tail(t) \in Seq(Levels) /\ Head(t) = t[1]
             /\ Len(t) > 0 /\ Len(Tail(t)) = Len(t) - 1
             /\ \A i \in 1 .. Len(Tail(t)) : Tail(t)[i] = t[i + 1]
  BY <1>3, HeadTailProperties, EmptySeq, LenProperties
<1>4. ASSUME t # << >>
      PROVE  Append(s, Head(t)) \o Tail(t) = s \o t
  <2> DEFINE a == Append(s, Head(t))
             u == Tail(t)
  <2>1. /\ a \in Seq(Levels) /\ Len(a) = Len(s) + 1
        /\ \A i \in 1 .. Len(s) : a[i] = s[i]
        /\ a[Len(s) + 1] = t[1]
    BY <1>3, <1>4, AppendLemma
  <2>2. /\ u \in Seq(Levels) /\ Len(u) = Len(t) - 1
        /\ \A i \in 1 .. Len(u) : u[i] = t[i + 1]
    BY <1>3, <1>4
  <2> HIDE DEF a, u
  <2>3. /\ a \o u \in Seq(Levels) /\ Len(a \o u) = Len(a) + Len(u)
        /\ \A i \in 1 .. Len(a) + Len(u) :
             (a \o u)[i] = IF i <= Len(a) THEN a[i] ELSE u[i - Len(a)]
    BY <2>1, <2>2, ConcatProperties
  <2>4. Len(a \o u) = Len(s \o t)
    BY <1>1, <1>2, <2>1, <2>2, <2>3
  <2>5. ASSUME NEW i \in 1 .. Len(a \o u)
        PROVE  (a \o u)[i] = (s \o t)[i]
    <3>1. i \in Nat /\ i \in 1 .. Len(a) + Len(u) /\ i \in 1 .. Len(s) + Len(t)
      BY <1>1, <1>2, <2>3, <2>4
    <3>2. CASE i <= Len(s)
      BY <1>1, <1>2, <2>1, <2>3, <3>1, <3>2
    <3>3. CASE i = Len(s) + 1
      BY <1>1, <1>2, <2>1, <2>3, <3>1, <3>3
    <3>4. CASE i > Len(s) + 1
      <4>1. (a \o u)[i] = u[i - Len(a)] /\ i - Len(a) \in 1 .. Len(u)
        BY <1>2, <2>1, <2>2, <2>3, <3>1, <3>4
      <4>2. u[i - Len(a)] = t[i - Len(a) + 1]
        BY <2>2, <4>1
      <4>3. i - Len(a) + 1 = i - Len(s)
        BY <1>2, <2>1, <3>1
      <4>4. (s \o t)[i] = t[i - Len(s)]
        BY <1>1, <1>2, <3>1, <3>4
      <4> QED
        BY <4>1, <4>2, <4>3, <4>4
    <3> QED
      BY <1>2, <3>1, <3>2, <3>3, <3>4
  <2>6. a \o u = s \o t
    BY <1>1, <2>3, <2>4, <2>5, SeqExtensional
  <2> QED
    BY <2>6 DEF a, u
<1>5. ASSUME t # << >>
      PROVE  /\ Len(s) < Len(s \o t) /\ (s \o t)[Len(s) + 1] = Head(t)
             /\ Extends(s \o t, s)
  BY <1>1, <1>2, <1>3, <1>5 DEF Extends
<1>6. t = << >> => s \o t = s
  BY ConcatEmptySeq
<1>7. s = << >> => s \o t = t
  BY ConcatEmptySeq
<1> QED
  BY <1>3, <1>4, <1>5, <1>6, <1>7

(* A walk has come from the root along the first levels of its filter's key.   *)
Here(P) ==
  LET key == Key(walk.asked[walk.i].filter)
  IN  /\ walk.node \in Used /\ walk.node \in NodeIdx /\ walk.slot \in Slots
      /\ clients[walk.slot].state = "ACTIVE" /\ walk.i \in Nat \ {0}
      /\ walk.asked[walk.i] \in Asked /\ key \in Keys
      /\ P[walk.node] \in Seq(Levels) /\ walk.path \in Seq(Levels)
      /\ P[walk.node] \o walk.path = key
      /\ walk.path = << >> => P[walk.node] = key
      /\ walk.path # << >> =>
           /\ Head(walk.path) \in Levels /\ Cut[Head(walk.path)] = Head(walk.path)
           /\ Len(P[walk.node]) < Len(key) /\ key[Len(P[walk.node]) + 1] = Head(walk.path)
           /\ Extends(key, P[walk.node])
           /\ Append(P[walk.node], Head(walk.path)) \o Tail(walk.path) = key

LEMMA HereLemma ==
  ASSUME LInv, NEW P, PathsOf(nodes, P), walk.kind # "none", walk.i <= Considered(walk.asked)
  PROVE  Here(P)
<1> DEFINE key == Key(walk.asked[walk.i].filter)
           s == P[walk.node]
           t == walk.path
<1>1. /\ walk.node \in NodeIdx /\ walk.node \notin free /\ walk.slot \in Slots
      /\ walk.i \in Nat \ {0} /\ t \in Seq(Levels)
      /\ clients[walk.slot].state = "ACTIVE" /\ Path(walk.node) \o t = key
  BY DEF LInv, IInv, WalkOK, Walks, WalkAt
<1>2. walk.node \in Used
  BY <1>1 DEF Used, NodeIdx, Allocated
<1>3. walk.asked[walk.i] \in Asked
  BY PresentFilter DEF LInv, IInv
<1>4. walk.asked[walk.i].filter \in Filters
  BY <1>3 DEF Asked
<1>5. key \in Keys /\ \A i \in 1 .. Len(key) : Cut[key[i]] = key[i]
  BY <1>4, KeyCut DEF Keys
<1>6. key \in Seq(Levels)
  BY <1>4, KeyTyped
<1>7. s \in Seq(Levels) /\ Len(s) \in Nat
  BY <1>2, PathFacts DEF LInv
<1>8. Path(walk.node) = s
  BY <1>1, PathNow DEF LInv, IInv, TypeOK
<1> HIDE DEF key, s, t
<1>9. s \o t = key
  BY <1>1, <1>8
<1>10. ASSUME t # << >>
       PROVE  /\ Head(t) \in Levels /\ Cut[Head(t)] = Head(t)
              /\ Len(s) < Len(key) /\ key[Len(s) + 1] = Head(t)
              /\ Extends(key, s) /\ Append(s, Head(t)) \o Tail(t) = key
  <2> DEFINE all == s \o t
  <2>0. /\ Head(t) \in Levels /\ Len(s) < Len(all) /\ all[Len(s) + 1] = Head(t)
        /\ Extends(all, s) /\ Append(s, Head(t)) \o Tail(t) = all
    BY <1>1, <1>7, <1>10, RestOfPath
  <2> HIDE DEF all
  <2>1. /\ Head(t) \in Levels /\ Len(s) < Len(key) /\ key[Len(s) + 1] = Head(t)
        /\ Extends(key, s) /\ Append(s, Head(t)) \o Tail(t) = key
    <3>1. all = key
      BY <1>9 DEF all
    <3> QED
      BY <2>0, <3>1
  <2>2. Len(key) \in Nat
    BY <1>6, LenProperties
  <2>3. Len(s) + 1 \in 1 .. Len(key)
    BY <1>7, <2>1, <2>2
  <2>4. Cut[key[Len(s) + 1]] = key[Len(s) + 1]
    BY <1>5, <2>3
  <2> QED
    BY <2>1, <2>4
<1>11. t = << >> => s = key
  BY <1>1, <1>7, <1>9, RestOfPath
<1> QED
  BY <1>1, <1>2, <1>3, <1>5, <1>7, <1>9, <1>10, <1>11 DEF Here, key, s, t

-------------------------------------------------------------------------------
(* The steps keep what sessions hold in step with the trie.                    *)

(* The path of the node that a walk is at after a step.                        *)
LEMMA WalkPathNext ==
  ASSUME nodes' \in [NodeIdx -> Node], NEW CONSTANT P, PathsOf(nodes', P), walk'.node \in NodeIdx
  PROVE  Path(walk.node)' = P[walk'.node]
<1>1. \A n \in Nodes : nodes'[n].parent \in NodeIdx /\ nodes'[n].name \in Levels
  BY DEF Node, NodeIdx
<1>2. PathIn(nodes', walk'.node) = P[walk'.node]
  BY <1>1, PathIs
<1>3. Path(walk.node)' = PathIn(nodes', walk'.node)
  BY DEF Path, PathIn
<1> QED
  BY <1>2, <1>3

(* A walk that starts at the root has all of its filter before it.             *)
LEMMA WalkAtStart ==
  ASSUME IInv', NEW CONSTANT P, PathsOf(nodes', P), walk'.kind # "none",
         walk'.node = Root, walk'.path = PathOf(walk'.asked, walk'.i),
         clients'[walk'.slot].state = "ACTIVE"
  PROVE  WalkAt'
<1>1. nodes' \in [NodeIdx -> Node] /\ walk' \in Walks
  BY DEF IInv, TypeOK, WalkOK
<1>2. Path(walk.node)' = << >>
  BY <1>1, WalkPathNext DEF PathsOf, Walks
<1>3. ASSUME walk'.i <= Considered(walk'.asked)
      PROVE  << >> \o walk'.path = Key(walk'.asked[walk'.i].filter)
  <2>1. walk'.path \in Seq(Levels)
    BY <1>1 DEF Walks
  <2> QED
    BY <1>3, <2>1, ConcatEmptySeq DEF PathOf
<1> QED
  BY <1>2, <1>3 DEF WalkAt

(* A walk that goes on below the root.                                         *)
LEMMA WalkAtNode ==
  ASSUME IInv', NEW CONSTANT P, PathsOf(nodes', P), walk'.kind # "none",
         P[walk'.node] \o walk'.path = Key(walk'.asked[walk'.i].filter),
         clients'[walk'.slot].state = "ACTIVE"
  PROVE  WalkAt'
<1>1. nodes' \in [NodeIdx -> Node] /\ walk' \in Walks
  BY DEF IInv, TypeOK, WalkOK
<1>2. Path(walk.node)' = P[walk'.node]
  BY <1>1, WalkPathNext DEF Walks
<1> QED
  BY <1>2 DEF WalkAt

(* The invariant after a step, in terms of the paths.                          *)
HeldAs(P) == \A c \in Slots : HeldIn(nodes, P, c) = {k \in Keys : Holds(walk, granted, c, k)}

LEMMA LNow ==
  ASSUME LInv, NEW P, PathsOf(nodes, P)
  PROVE  IInv /\ LinksOK /\ MarksOK /\ WalkAt /\ HeldAs(P)
BY HeldNow DEF LInv, Tree, View, HeldAs

LEMMA LNext ==
  ASSUME IInv', LinksOK', NEW CONSTANT P, PathsOf(nodes', P), MarksOK', WalkAt',
         \A c \in Slots : HeldIn(nodes', P, c) = {k \in Keys : Holds(walk', granted', c, k)}
  PROVE  LInv'
<1>1. Tree'
  BY DEF Tree, PathsOf
<1>2. \A c \in Slots : Held(c)' = HeldIn(nodes', P, c)
  BY HeldNext
<1>3. View'
  BY <1>2 DEF View, Holds, Done
<1> QED
  BY <1>1, <1>3 DEF LInv

(* A step that leaves the trie alone leaves what it says alone.                *)
LEMMA LSameTrie ==
  ASSUME LInv, IInv', nodes' = nodes, free' = free, MarksOK', WalkAt',
         \A c \in Slots, k \in Keys :
           Holds(walk', granted', c, k) <=> Holds(walk, granted, c, k)
  PROVE  LInv'
<1>1. PICK P : PathsOf(nodes, P)
  BY DEF LInv, Tree
<1>2. IInv /\ LinksOK /\ HeldAs(P)
  BY <1>1, LNow
<1>3. LinksOK' /\ PathsOf(nodes', P)
  BY <1>1, <1>2, SameNodes, SameTree
<1>4. ASSUME NEW c \in Slots
      PROVE  HeldIn(nodes', P, c) = {k \in Keys : Holds(walk', granted', c, k)}
  BY <1>2 DEF HeldAs
<1> QED
  BY <1>3, <1>4, LNext

(* It is the same set of filters for every session.                            *)
LEMMA SameHeld ==
  ASSUME LInv, IInv', nodes' = nodes, free' = free
  PROVE  \A c \in Slots : Held(c)' = Held(c)
<1>1. PICK P : PathsOf(nodes, P)
  BY DEF LInv, Tree
<1>2. IInv /\ LinksOK
  BY <1>1, LNow
<1>3. PathsOf(nodes', P)
  BY <1>1, <1>2, SameNodes, SameTree
<1>4. \A c \in Slots : Held(c) = HeldIn(nodes, P, c) /\ Held(c)' = HeldIn(nodes', P, c)
  BY <1>1, <1>2, <1>3, HeldNow, HeldNext
<1> QED
  BY <1>4

(* A new connection finds a slot that is in no bitmap.                         *)
LEMMA LAccept ==
  ASSUME LInv, IInv', NEW CONSTANT c \in Slots, Accept(c)
  PROVE  LInv'
<1>1. /\ walk = NoWalk /\ walk' = NoWalk /\ nodes' = nodes /\ free' = free
      /\ clients[c].state = "FREE"
      /\ clients' = [clients EXCEPT ![c] = [state |-> "ACTIVE", generation |-> @.generation + 1]]
      /\ granted' = [granted EXCEPT ![c] = NothingHeld]
  BY DEF Accept, Idle
<1>2. MarksOK /\ IInv
  BY DEF LInv
<1>3. \A n \in NodeIdx : c \notin nodes[n].fd_bitmap
  BY <1>1, <1>2 DEF MarksOK
<1>4. \A n \in NodeIdx : nodes[n].fd_bitmap \subseteq Slots
  BY <1>2 DEF IInv, TypeOK, Node
<1>5. \A d \in Slots \ {c} : clients'[d] = clients[d] /\ granted'[d] = granted[d]
  BY <1>1, <1>2, Types DEF IInv
<1>6. MarksOK'
  BY <1>1, <1>2, <1>3, <1>4, <1>5 DEF MarksOK
<1>7. WalkAt'
  BY <1>1 DEF WalkAt, NoWalk
<1>8. ASSUME NEW d \in Slots, NEW k \in Keys
      PROVE  Holds(walk', granted', d, k) <=> Holds(walk, granted, d, k)
  <2>1. NoWalk.slot \notin Slots /\ NoWalk.i = 1
    BY SlotsAssumption DEF NoWalk
  <2>2. /\ Holds(walk', granted', d, k) <=> granted'[d][k] # NotHeld
        /\ Holds(walk, granted, d, k) <=> granted[d][k] # NotHeld
    BY <1>1, <2>1, HoldsTold
  <2>3. CASE d = c
    <3>1. Held(c) = {}
      BY <1>2, <1>3 DEF Held, IInv, TypeOK, Allocated, NodeIdx
    <3>2. Held(c) = {j \in Keys : Holds(walk, granted, c, j)}
      BY DEF LInv, View
    <3>3. granted'[c] = NothingHeld
      BY <1>1, <1>2, Types DEF IInv
    <3> QED
      BY <2>2, <2>3, <3>1, <3>2, <3>3 DEF NothingHeld
  <2>4. CASE d # c
    BY <1>5, <2>2, <2>4
  <2> QED
    BY <2>3, <2>4
<1> QED
  BY <1>1, <1>6, <1>7, <1>8, LSameTrie

LEMMA LSubmitClose ==
  ASSUME LInv, IInv', NEW CONSTANT c \in Slots, SubmitClose(c)
  PROVE  LInv'
<1>1. /\ walk = NoWalk /\ walk' = NoWalk /\ nodes' = nodes /\ free' = free
      /\ clients' = [clients EXCEPT ![c].state = "CLOSING"] /\ granted' = granted
  BY DEF SubmitClose, Idle
<1>2. MarksOK /\ clients \in [Slots -> Session]
  BY Types DEF LInv, IInv
<1>3. \A n \in NodeIdx : nodes[n].fd_bitmap \subseteq Slots
  BY DEF LInv, IInv, TypeOK, Node
<1>4. \A d \in Slots : /\ clients'[d].generation = clients[d].generation
                       /\ clients'[d].state \in {clients[d].state, "CLOSING"}
  BY <1>1, <1>2 DEF Session
<1>5. MarksOK'
  BY <1>1, <1>2, <1>3, <1>4 DEF MarksOK
<1>6. WalkAt'
  BY <1>1 DEF WalkAt, NoWalk
<1> QED
  BY <1>1, <1>5, <1>6, LSameTrie

(* A packet arrives: nothing has been done yet.                                *)
LEMMA LReceive ==
  ASSUME LInv, IInv', NEW CONSTANT c \in Slots, NEW CONSTANT kind \in {"subscribe", "unsubscribe"},
         NEW CONSTANT asked, Receive(c, kind, asked)
  PROVE  LInv'
<1>1. /\ walk = NoWalk /\ nodes' = nodes /\ free' = free /\ clients' = clients
      /\ granted' = granted /\ clients[c].state = "ACTIVE"
      /\ walk' = [kind |-> kind, slot |-> c, asked |-> asked, i |-> 1,
                  path |-> PathOf(asked, 1), node |-> Root, codes |-> << >>]
  BY DEF Receive, Idle, StartAt, NoWalk
<1>2. PICK P : PathsOf(nodes, P)
  BY DEF LInv, Tree
<1>3. PathsOf(nodes', P)
  BY <1>1, <1>2
<1>4. WalkAt'
  <2>1. /\ walk'.kind # "none" /\ walk'.node = Root
        /\ walk'.path = PathOf(walk'.asked, walk'.i) /\ clients'[walk'.slot].state = "ACTIVE"
    BY <1>1
  <2> QED
    BY <1>3, <2>1, WalkAtStart
<1>5. MarksOK'
  BY <1>1 DEF LInv, MarksOK
<1>6. ASSUME NEW d \in Slots, NEW k \in Keys
      PROVE  Holds(walk', granted', d, k) <=> Holds(walk, granted, d, k)
  <2>1. walk.slot \notin Slots /\ walk.i = 1
    BY <1>1, SlotsAssumption DEF NoWalk
  <2>2. walk'.i = 1 /\ walk'.kind \in {"subscribe", "unsubscribe"}
    BY <1>1
  <2>3. Holds(walk', granted', d, k) <=> granted'[d][k] # NotHeld
    BY <2>2, HoldsTold
  <2>4. Holds(walk, granted, d, k) <=> granted[d][k] # NotHeld
    BY <2>1, HoldsTold
  <2> QED
    BY <1>1, <2>3, <2>4
<1> QED
  BY <1>1, <1>4, <1>5, <1>6, LSameTrie

(* A client learns what it holds.                                              *)
LEMMA LAnswer ==
  ASSUME LInv, IInv', Answer
  PROVE  LInv'
<1>1. /\ walk # NoWalk /\ walk.i > Considered(walk.asked) /\ walk' = NoWalk
      /\ nodes' = nodes /\ free' = free /\ clients' = clients
      /\ granted' = [granted EXCEPT ![walk.slot] = [k \in Keys |-> Told(walk.slot, k)]]
  BY DEF Answer, Idle
<1>2. walk.kind # "none" /\ WalkOK /\ walk.slot \in Slots
  BY <1>1 DEF LInv, IInv, WalkAt, WalkOK
<1>3. granted \in [Slots -> [Keys -> Codes]]
  BY Types DEF LInv, IInv
<1>4. MarksOK'
  BY <1>1 DEF LInv, MarksOK
<1>5. WalkAt'
  BY <1>1 DEF WalkAt, NoWalk
<1>6. ASSUME NEW d \in Slots, NEW k \in Keys
      PROVE  Holds(walk', granted', d, k) <=> Holds(walk, granted, d, k)
  <2>1. NoWalk.slot \notin Slots /\ NoWalk.i = 1
    BY SlotsAssumption DEF NoWalk
  <2>2. Holds(walk', granted', d, k) <=> granted'[d][k] # NotHeld
    BY <1>1, <2>1, HoldsTold
  <2>3. CASE d = walk.slot
    <3>1. granted'[d][k] = Told(walk.slot, k)
      BY <1>1, <1>2, <1>3, <2>3
    <3>2. Told(walk.slot, k) # NotHeld <=> Holds(walk, granted, walk.slot, k)
      BY <1>1, <1>2, HoldsAnswered
    <3> QED
      BY <2>2, <2>3, <3>1, <3>2
  <2>4. CASE d # walk.slot
    <3>1. granted'[d] = granted[d]
      BY <1>1, <1>3, <2>4
    <3> QED
      BY <2>2, <2>4, <3>1 DEF Holds
  <2> QED
    BY <2>3, <2>4
<1> QED
  BY <1>1, <1>4, <1>5, <1>6, LSameTrie

(* The child that a lookup finds is a child of that name.                      *)
LEMMA FoundIs ==
  ASSUME IInv, LinksOK, NEW n \in NodeIdx, NEW level \in Levels, FindChild(n, level) # NoNode
  PROVE  /\ FindChild(n, level) \in Allocated
         /\ nodes[FindChild(n, level)].parent = n /\ nodes[FindChild(n, level)].name = level
<1> DEFINE S == Stops(nodes, n, level)
           m == FindChild(n, level)
           k == Least(S)
<1>1. m = Find(nodes, n, level)
  BY FindIsFindChild
<1>2. S # {} /\ m = At(nodes, n, level, k) /\ k \in S
  BY <1>1, FirstStop
<1>3. k \in 0 .. HashSize - 1 /\ nodes[m].name = level
  BY <1>2 DEF Stops
<1>4. ProbePos(level, k) \in 0 .. HashSize - 1
  BY <1>3, ProbeInTable
<1>5. nodes[m].parent = n
  BY <1>2, <1>4 DEF At, LinksOK
<1>6. m \in NodeIdx /\ m \notin free
  BY FoundChild
<1>7. m \in Allocated
  BY <1>6 DEF Allocated, NodeIdx, NoNode
<1> QED
  BY <1>3, <1>5, <1>7

LEMMA LDescend ==
  ASSUME LInv, IInv', Descend
  PROVE  LInv'
<1>1. /\ walk.kind # "none" /\ walk.i <= Considered(walk.asked) /\ walk.path # << >>
      /\ NextChild # NoNode /\ walk' = [walk EXCEPT !.node = NextChild, !.path = Tail(@)]
      /\ nodes' = nodes /\ free' = free /\ clients' = clients /\ granted' = granted
  BY DEF Descend, Walking
<1>2. PICK P : PathsOf(nodes, P)
  BY DEF LInv, Tree
<1>3. PathsOf(nodes', P)
  BY <1>1, <1>2
<1>4. Here(P) /\ IInv /\ LinksOK /\ walk \in Walks
  BY <1>1, <1>2, HereLemma, LNow DEF IInv, WalkOK
<1> DEFINE level == Head(walk.path)
<1>5. /\ walk.node \in NodeIdx /\ level \in Levels /\ clients[walk.slot].state = "ACTIVE"
      /\ Append(P[walk.node], level) \o Tail(walk.path) = Key(walk.asked[walk.i].filter)
  BY <1>1, <1>4 DEF Here
<1>6. /\ NextChild \in Allocated /\ nodes[NextChild].parent = walk.node
      /\ nodes[NextChild].name = level
  BY <1>1, <1>4, <1>5, FoundIs DEF NextChild
<1>7. P[NextChild] = Append(P[walk.node], level)
  BY <1>2, <1>6 DEF PathsOf, Allocated
<1> HIDE DEF level
<1>8. /\ walk'.kind = walk.kind /\ walk'.slot = walk.slot /\ walk'.asked = walk.asked
      /\ walk'.i = walk.i /\ walk'.node = NextChild /\ walk'.path = Tail(walk.path)
      /\ walk'.codes = walk.codes
  BY <1>1, <1>4 DEF Walks
<1>9. WalkAt'
  <2>1. P[walk'.node] \o walk'.path = Key(walk'.asked[walk'.i].filter)
    BY <1>5, <1>7, <1>8
  <2> QED
    BY <1>1, <1>3, <1>5, <1>8, <2>1, WalkAtNode
<1>10. MarksOK'
  BY <1>1 DEF LInv, MarksOK
<1>11. \A d \in Slots, k \in Keys : Holds(walk', granted', d, k) <=> Holds(walk, granted, d, k)
  BY <1>1, <1>8 DEF Holds, Done
<1> QED
  BY <1>1, <1>9, <1>10, <1>11, LSameTrie

(* What the walk is after a filter.                                            *)
LEMMA AfterFilter ==
  ASSUME IInv, NEW codes, walk' = StartAt([walk EXCEPT !.codes = codes], walk.i + 1)
  PROVE  /\ walk'.kind = walk.kind /\ walk'.slot = walk.slot /\ walk'.asked = walk.asked
         /\ walk'.i = walk.i + 1 /\ walk'.node = Root /\ walk'.codes = codes
         /\ walk'.path = PathOf(walk'.asked, walk'.i)
<1>1. walk \in Walks
  BY DEF IInv, WalkOK
<1> DEFINE path == PathOf(walk.asked, walk.i + 1)
<1>2. walk' = [walk EXCEPT !.codes = codes, !.i = walk.i + 1, !.node = Root, !.path = path]
  BY <1>1 DEF StartAt, Walks
<1> HIDE DEF path
<1>3. /\ walk'.kind = walk.kind /\ walk'.slot = walk.slot /\ walk'.asked = walk.asked
      /\ walk'.i = walk.i + 1 /\ walk'.node = Root /\ walk'.codes = codes
      /\ walk'.path = path
  BY <1>1, <1>2 DEF Walks
<1> QED
  BY <1>3 DEF path

(* After a filter the walk is at the root again.                               *)
LEMMA AfterFilterAt ==
  ASSUME LInv, IInv', walk.kind # "none", clients' = clients, NEW codes,
         walk' = StartAt([walk EXCEPT !.codes = codes], walk.i + 1),
         NEW CONSTANT P, PathsOf(nodes', P)
  PROVE  WalkAt'
<1>1. /\ walk'.kind = walk.kind /\ walk'.slot = walk.slot
      /\ walk'.node = Root /\ walk'.path = PathOf(walk'.asked, walk'.i)
  BY AfterFilter DEF LInv
<1>2. clients[walk.slot].state = "ACTIVE"
  BY DEF LInv, WalkAt
<1> QED
  BY <1>1, <1>2, WalkAtStart

LEMMA LFail ==
  ASSUME LInv, IInv', Fail
  PROVE  LInv'
<1> DEFINE codes == Append(walk.codes, NotHeld)
<1>1. /\ walk.kind = "subscribe" /\ walk' = StartAt([walk EXCEPT !.codes = codes], walk.i + 1)
      /\ nodes' = nodes /\ free' = free /\ clients' = clients /\ granted' = granted
  BY DEF Fail, Walking, ReturnCode
<1>2. PICK P : PathsOf(nodes, P)
  BY DEF LInv, Tree
<1>3. PathsOf(nodes', P)
  BY <1>1, <1>2
<1>4. WalkAt'
  BY <1>1, <1>3, AfterFilterAt
<1>5. MarksOK'
  BY <1>1 DEF LInv, MarksOK
<1>6. ASSUME NEW d \in Slots, NEW k \in Keys
      PROVE  Holds(walk', granted', d, k) <=> Holds(walk, granted, d, k)
  <2>1. /\ walk'.kind = walk.kind /\ walk'.slot = walk.slot /\ walk'.asked = walk.asked
        /\ walk'.i = walk.i + 1 /\ walk'.codes = codes
    BY <1>1, AfterFilter DEF LInv
  <2>2. /\ walk.i \in Nat \ {0} /\ walk.codes \in Seq(Codes) /\ Len(walk.codes) = walk.i - 1
        /\ NotHeld \in Codes
    BY <1>1 DEF LInv, IInv, WalkOK, Walks, Codes
  <2>3. Holds(walk', granted, d, k) <=>
          \/ Holds(walk, granted, d, k)
          \/ d = walk.slot /\ NotHeld # NotHeld /\ k = Key(walk.asked[walk.i].filter)
    <3> DEFINE v == walk'
    <3>1. /\ v.kind = walk.kind /\ v.slot = walk.slot /\ v.asked = walk.asked
          /\ v.i = walk.i + 1 /\ v.codes = Append(walk.codes, NotHeld)
      BY <2>1
    <3> HIDE DEF v, codes
    <3>2. Holds(v, granted, d, k) <=>
            \/ Holds(walk, granted, d, k)
            \/ d = walk.slot /\ NotHeld # NotHeld /\ k = Key(walk.asked[walk.i].filter)
      <4>1. Answered(walk, v, NotHeld)
        BY <1>1, <2>2, <3>1 DEF Answered
      <4> QED
        BY <4>1, HoldsSubscribed
    <3> QED
      BY <3>2 DEF v
  <2> QED
    BY <1>1, <2>3
<1> QED
  BY <1>1, <1>4, <1>5, <1>6, LSameTrie

(* What an unsubscription was about is not held afterwards.                    *)
LEMMA Unsubscribed ==
  ASSUME LInv, Walking("unsubscribe"), walk' = StartAt(walk, walk.i + 1), granted' = granted,
         NEW d, NEW k
  PROVE  Holds(walk', granted', d, k) <=>
           Holds(walk, granted, d, k) /\ ~(d = walk.slot /\ k = Key(walk.asked[walk.i].filter))
<1>1. walk \in Walks /\ walk = [walk EXCEPT !.codes = walk.codes] /\ walk.kind = "unsubscribe"
  BY DEF LInv, IInv, WalkOK, Walks, Walking
<1>2. walk' = StartAt([walk EXCEPT !.codes = walk.codes], walk.i + 1)
  BY <1>1
<1>3. /\ walk'.kind = walk.kind /\ walk'.slot = walk.slot /\ walk'.asked = walk.asked
      /\ walk'.i = walk.i + 1
  BY <1>2, AfterFilter DEF LInv
<1>4. walk.i \in Nat \ {0}
  BY <1>1 DEF Walks
<1>5. Holds(walk', granted, d, k) <=>
        Holds(walk, granted, d, k) /\ ~(d = walk.slot /\ k = Key(walk.asked[walk.i].filter))
  BY <1>1, <1>3, <1>4, HoldsUnsubscribed
<1> QED
  BY <1>5

LEMMA LMiss ==
  ASSUME LInv, IInv', Miss
  PROVE  LInv'
<1>1. /\ Walking("unsubscribe") /\ walk.kind = "unsubscribe" /\ walk.i <= Considered(walk.asked)
      /\ walk.path # << >> /\ NextChild = NoNode /\ walk' = StartAt(walk, walk.i + 1)
      /\ nodes' = nodes /\ free' = free /\ clients' = clients /\ granted' = granted
  BY DEF Miss, Walking
<1>2. PICK P : PathsOf(nodes, P)
  BY DEF LInv, Tree
<1>3. PathsOf(nodes', P)
  BY <1>1, <1>2
<1> DEFINE key == Key(walk.asked[walk.i].filter)
<1>4. Here(P) /\ IInv /\ LinksOK /\ MarksOK /\ HeldAs(P)
  BY <1>1, <1>2, HereLemma, LNow
<1>5. ASSUME NEW n \in Used, P[n] = key
      PROVE  FALSE
  <2>1. /\ walk.node \in Used /\ Len(P[walk.node]) < Len(P[n])
        /\ P[n][Len(P[walk.node]) + 1] = Head(walk.path) /\ Extends(P[n], P[walk.node])
    BY <1>1, <1>4, <1>5 DEF Here
  <2>2. \E m \in Allocated : FindChild(walk.node, P[n][Len(P[walk.node]) + 1]) = m
    BY <1>2, <1>4, <2>1, ChildOnPath
  <2> QED
    BY <1>1, <2>1, <2>2, NodesAssumption DEF NextChild, NoNode, Allocated
<1>6. ~Holds(walk, granted, walk.slot, key)
  <2>1. key \in Keys /\ walk.slot \in Slots
    BY <1>4 DEF Here
  <2>2. key \notin HeldIn(nodes, P, walk.slot)
    <3> SUFFICES ASSUME NEW n \in NodeIdx, walk.slot \in nodes[n].fd_bitmap, P[n] = key
                 PROVE  FALSE
      BY DEF HeldIn
    <3>1. n \in Used
      BY <1>4 DEF IInv, SubCountExact, Used, Allocated, NodeIdx
    <3> QED
      BY <1>5, <3>1
  <2> QED
    BY <1>4, <2>1, <2>2 DEF HeldAs
<1>7. WalkAt'
  <2>1. walk = [walk EXCEPT !.codes = walk.codes]
    BY DEF LInv, IInv, WalkOK, Walks
  <2>2. walk' = StartAt([walk EXCEPT !.codes = walk.codes], walk.i + 1)
    BY <1>1, <2>1
  <2> QED
    BY <1>1, <1>3, <2>2, AfterFilterAt
<1>8. MarksOK'
  BY <1>1, <1>4 DEF MarksOK
<1>9. \A d \in Slots, k \in Keys : Holds(walk', granted', d, k) <=> Holds(walk, granted, d, k)
  BY <1>1, <1>6, Unsubscribed
<1> QED
  BY <1>1, <1>7, <1>8, <1>9, LSameTrie

(* What marking and unmarking do to the bitmap and the generations.            *)
LEMMA MarkedFields ==
  ASSUME NEW node \in Node, NEW c \in Slots, NEW gen
  PROVE  /\ Marked(node, c, gen).fd_bitmap = node.fd_bitmap \cup {c}
         /\ Marked(node, c, gen).fd_gen[c] = gen
         /\ \A d \in Slots \ {c} : Marked(node, c, gen).fd_gen[d] = node.fd_gen[d]
<1> DEFINE map == node.fd_bitmap \cup {c}
           gens == [node.fd_gen EXCEPT ![c] = gen]
           count == IF c \in node.fd_bitmap THEN node.sub_count ELSE node.sub_count + 1
<1>1. Marked(node, c, gen) = [node EXCEPT !.fd_bitmap = map, !.fd_gen = gens, !.sub_count = count]
  BY DEF Marked, Node
<1>2. gens[c] = gen /\ \A d \in Slots \ {c} : gens[d] = node.fd_gen[d]
  BY DEF Node
<1> HIDE DEF map, gens, count
<1>3. Marked(node, c, gen).fd_bitmap = map /\ Marked(node, c, gen).fd_gen = gens
  BY <1>1 DEF Node
<1> QED
  BY <1>2, <1>3 DEF map

LEMMA UnmarkedFields ==
  ASSUME NEW node \in Node, NEW c
  PROVE  /\ Unmarked(node, c).fd_bitmap = node.fd_bitmap \ {c}
         /\ Unmarked(node, c).fd_gen = node.fd_gen
         /\ Unmarked(node, c).name = node.name
         /\ Unmarked(node, c).parent = node.parent
         /\ Unmarked(node, c).plus_child = node.plus_child
         /\ Unmarked(node, c).hash_child = node.hash_child
         /\ Unmarked(node, c).child_hash = node.child_hash
BY DEF Unmarked, Node

(* A subscription that is granted adds its filter to its session, and nothing  *)
(* else.                                                                       *)
MarkEffect(P) ==
  LET key == Key(walk.asked[walk.i].filter)
  IN  /\ walk.slot \in Slots /\ clients[walk.slot].state = "ACTIVE" /\ key \in Keys
      /\ HeldIn(nodes', P, walk.slot) = HeldIn(nodes, P, walk.slot) \cup {key}
      /\ \A d \in Slots \ {walk.slot} : HeldIn(nodes', P, d) = HeldIn(nodes, P, d)
      /\ PathsOf(nodes', P) /\ LinksOK' /\ MarksOK'

LEMMA MarkHeld ==
  ASSUME LInv, IInv', Mark, NEW CONSTANT P, PathsOf(nodes, P)
  PROVE  MarkEffect(P)
<1> DEFINE c == walk.slot
           n == walk.node
           key == Key(walk.asked[walk.i].filter)
           new == Marked(nodes[n], c, clients[c].generation)
<1>1. /\ walk.kind = "subscribe" /\ walk.i <= Considered(walk.asked) /\ walk.path = << >>
      /\ nodes' = [nodes EXCEPT ![n] = new]
      /\ free' = free /\ clients' = clients
  BY DEF Mark, Walking
<1>2. Here(P) /\ IInv /\ LinksOK /\ MarksOK
  BY <1>1, HereLemma, LNow
<1>3. /\ n \in NodeIdx /\ c \in Slots /\ clients[c].state = "ACTIVE" /\ key \in Keys
      /\ P[n] = key
  BY <1>1, <1>2 DEF Here
<1>4. nodes \in [NodeIdx -> Node] /\ nodes[n] \in Node
      /\ nodes[n].sub_count = Cardinality(nodes[n].fd_bitmap)
      /\ clients[c].generation \in Generations
  BY <1>2, <1>3 DEF IInv, TypeOK, SubCountExact
<1>5. /\ new.fd_bitmap = nodes[n].fd_bitmap \cup {c}
      /\ new.fd_gen[c] = clients[c].generation
      /\ \A d \in Slots \ {c} : new.fd_gen[d] = nodes[n].fd_gen[d]
      /\ new.name = nodes[n].name
      /\ new.parent = nodes[n].parent
      /\ new.plus_child = nodes[n].plus_child
      /\ new.hash_child = nodes[n].hash_child
      /\ new.child_hash = nodes[n].child_hash
  BY <1>3, <1>4, MarkedFields, MarkedOK
<1>6. nodes'[n] = new /\ \A m \in NodeIdx \ {n} : nodes'[m] = nodes[m]
  BY <1>1, <1>3, <1>4
<1> HIDE DEF c, n, key, new
<1>7. SameLinksNext
  BY <1>1, <1>5, <1>6 DEF SameLinksNext
<1>8. LinksOK' /\ PathsOf(nodes', P)
  BY <1>2, <1>7, SameTree
<1>9. MarksOK'
  <2> SUFFICES ASSUME NEW m \in NodeIdx, NEW d \in nodes'[m].fd_bitmap
               PROVE  nodes'[m].fd_gen[d] = clients'[d].generation /\ clients'[d].state # "FREE"
    BY DEF MarksOK
  <2>1. CASE m # n
    BY <1>1, <1>2, <1>6, <2>1 DEF MarksOK
  <2>2. CASE m = n /\ d = c
    BY <1>1, <1>3, <1>5, <1>6, <2>2
  <2>3. CASE m = n /\ d # c
    <3>1. d \in nodes[n].fd_bitmap /\ d \in Slots \ {c}
      BY <1>4, <1>5, <1>6, <2>3 DEF Node
    <3>2. nodes[n].fd_gen[d] = clients[d].generation /\ clients[d].state # "FREE"
      BY <1>2, <1>3, <3>1 DEF MarksOK
    <3> QED
      BY <1>1, <1>5, <1>6, <2>3, <3>1, <3>2
  <2> QED
    BY <2>1, <2>2, <2>3
<1>10. HeldIn(nodes', P, c) = HeldIn(nodes, P, c) \cup {key}
  <2>1. {m \in NodeIdx : c \in nodes'[m].fd_bitmap} = {m \in NodeIdx : c \in nodes[m].fd_bitmap} \cup {n}
    BY <1>3, <1>5, <1>6
  <2> QED
    BY <1>3, <2>1 DEF HeldIn
<1>11. \A d \in Slots \ {c} : HeldIn(nodes', P, d) = HeldIn(nodes, P, d)
  <2> SUFFICES ASSUME NEW d \in Slots \ {c}
               PROVE  HeldIn(nodes', P, d) = HeldIn(nodes, P, d)
    OBVIOUS
  <2>1. {m \in NodeIdx : d \in nodes'[m].fd_bitmap} = {m \in NodeIdx : d \in nodes[m].fd_bitmap}
    BY <1>3, <1>5, <1>6
  <2> QED
    BY <2>1 DEF HeldIn
<1> QED
  BY <1>3, <1>8, <1>9, <1>10, <1>11 DEF MarkEffect, c, key

LEMMA LMark ==
  ASSUME LInv, IInv', Mark
  PROVE  LInv'
<1> DEFINE key == Key(walk.asked[walk.i].filter)
           code == walk.asked[walk.i].qos
           codes == Append(walk.codes, code)
<1>1. /\ walk.kind = "subscribe" /\ walk.i <= Considered(walk.asked)
      /\ walk' = StartAt([walk EXCEPT !.codes = codes], walk.i + 1)
      /\ clients' = clients /\ granted' = granted
  BY DEF Mark, Walking, ReturnCode
<1>2. PICK P : PathsOf(nodes, P)
  BY DEF LInv, Tree
<1>3. MarkEffect(P) /\ Here(P) /\ HeldAs(P)
  BY <1>1, <1>2, MarkHeld, HereLemma, LNow
<1>4. code \in Codes /\ code # NotHeld
  <2>1. walk.asked[walk.i] \in Asked
    BY <1>3 DEF Here
  <2>2. SubQos \subseteq 0..2
    BY PacketAssumption
  <2>3. code \in 0..2
    BY <2>1, <2>2 DEF Asked
  <2> HIDE DEF code
  <2> QED
    BY <2>3 DEF Codes, NotHeld
<1>5. /\ walk.i \in Nat \ {0} /\ walk.codes \in Seq(Codes) /\ Len(walk.codes) = walk.i - 1
  BY <1>1 DEF LInv, IInv, WalkOK, Walks
<1>6. WalkAt'
  BY <1>1, <1>3, AfterFilterAt DEF MarkEffect
<1>7. ASSUME NEW d \in Slots, NEW k \in Keys
      PROVE  Holds(walk', granted', d, k) <=>
               Holds(walk, granted, d, k) \/ (d = walk.slot /\ k = key)
  <2> DEFINE v == walk'
  <2>1. /\ v.kind = walk.kind /\ v.slot = walk.slot /\ v.asked = walk.asked
        /\ v.i = walk.i + 1 /\ v.codes = Append(walk.codes, code)
    BY <1>1, AfterFilter DEF LInv
  <2> HIDE DEF v, code, codes
  <2>2. Holds(v, granted, d, k) <=>
          \/ Holds(walk, granted, d, k)
          \/ d = walk.slot /\ code # NotHeld /\ k = Key(walk.asked[walk.i].filter)
    <3>1. Answered(walk, v, code)
      BY <1>1, <1>4, <1>5, <2>1 DEF Answered
    <3> QED
      BY <3>1, HoldsSubscribed
  <2> QED
    BY <1>1, <1>4, <2>2 DEF v
<1> HIDE DEF key
<1>8. ASSUME NEW d \in Slots
      PROVE  HeldIn(nodes', P, d) = {k \in Keys : Holds(walk', granted', d, k)}
  <2>1. HeldIn(nodes, P, d) = {k \in Keys : Holds(walk, granted, d, k)}
    BY <1>3 DEF HeldAs
  <2>2. CASE d = walk.slot
    <3>1. HeldIn(nodes', P, d) = HeldIn(nodes, P, d) \cup {key} /\ key \in Keys
      BY <1>3, <2>2 DEF MarkEffect, key
    <3> QED
      BY <1>7, <2>1, <2>2, <3>1
  <2>3. CASE d # walk.slot
    <3>1. HeldIn(nodes', P, d) = HeldIn(nodes, P, d)
      BY <1>3, <2>3 DEF MarkEffect
    <3> QED
      BY <1>7, <2>1, <2>3, <3>1
  <2> QED
    BY <2>2, <2>3
<1> QED
  BY <1>3, <1>6, <1>8, LNext DEF MarkEffect

(* Unmarking a slot in some nodes marks nobody anew.                           *)
LEMMA UnmarkMarks ==
  ASSUME IInv, LinksOK, MarksOK, free' = free, NEW CONSTANT P, PathsOf(nodes, P),
         NEW CONSTANT S \in SUBSET NodeIdx, NEW c \in Slots,
         \A n \in S : nodes'[n] = Unmarked(nodes[n], c),
         \A n \in NodeIdx \ S : nodes'[n] = nodes[n],
         \A d \in Slots \ {c} : clients'[d] = clients[d],
         clients'[c].generation = clients[c].generation,
         clients'[c].state # "FREE" \/ S = NodeIdx
  PROVE  /\ LinksOK' /\ PathsOf(nodes', P) /\ MarksOK'
         /\ \A n \in S : nodes'[n].fd_bitmap = nodes[n].fd_bitmap \ {c}
<1>1. nodes \in [NodeIdx -> Node]
  BY DEF IInv, TypeOK
<1>2. \A n \in S : /\ nodes'[n].fd_bitmap = nodes[n].fd_bitmap \ {c}
                   /\ nodes'[n].fd_gen = nodes[n].fd_gen
                   /\ nodes'[n].name = nodes[n].name
                   /\ nodes'[n].parent = nodes[n].parent
                   /\ nodes'[n].plus_child = nodes[n].plus_child
                   /\ nodes'[n].hash_child = nodes[n].hash_child
                   /\ nodes'[n].child_hash = nodes[n].child_hash
  BY <1>1, UnmarkedFields
<1>3. SameLinksNext
  BY <1>2 DEF SameLinksNext
<1>4. LinksOK' /\ PathsOf(nodes', P)
  BY <1>3, SameTree
<1>5. MarksOK'
  <2> SUFFICES ASSUME NEW m \in NodeIdx, NEW d \in nodes'[m].fd_bitmap
               PROVE  nodes'[m].fd_gen[d] = clients'[d].generation /\ clients'[d].state # "FREE"
    BY DEF MarksOK
  <2>1. d \in nodes[m].fd_bitmap /\ nodes'[m].fd_gen = nodes[m].fd_gen /\ d \in Slots
    BY <1>1, <1>2 DEF Node
  <2>2. nodes[m].fd_gen[d] = clients[d].generation /\ clients[d].state # "FREE"
    BY <2>1 DEF MarksOK
  <2>3. d = c => clients'[c].state # "FREE"
    BY <1>2
  <2> QED
    BY <2>1, <2>2, <2>3
<1> QED
  BY <1>2, <1>4, <1>5

(* An unsubscription takes its filter from its session, and nothing else.      *)
UnmarkEffect(P) ==
  LET key == Key(walk.asked[walk.i].filter)
  IN  /\ walk.slot \in Slots /\ clients[walk.slot].state = "ACTIVE" /\ key \in Keys
      /\ HeldIn(nodes', P, walk.slot) = HeldIn(nodes, P, walk.slot) \ {key}
      /\ \A d \in Slots \ {walk.slot} : HeldIn(nodes', P, d) = HeldIn(nodes, P, d)
      /\ PathsOf(nodes', P) /\ LinksOK' /\ MarksOK'

LEMMA UnmarkHeld ==
  ASSUME LInv, IInv', Unmark, NEW CONSTANT P, PathsOf(nodes, P)
  PROVE  UnmarkEffect(P)
<1> DEFINE key == Key(walk.asked[walk.i].filter)
<1>1. /\ walk.kind = "unsubscribe" /\ walk.i <= Considered(walk.asked) /\ walk.path = << >>
      /\ nodes' = [nodes EXCEPT ![walk.node] = Unmarked(nodes[walk.node], walk.slot)]
      /\ free' = free /\ clients' = clients
  BY DEF Unmark, Walking
<1>2. Here(P) /\ IInv /\ LinksOK /\ MarksOK
  BY <1>1, HereLemma, LNow
<1>3. PICK n, c : n = walk.node /\ c = walk.slot
  OBVIOUS
<1>4. /\ n \in NodeIdx /\ n \in Used /\ c \in Slots /\ clients[c].state = "ACTIVE"
      /\ key \in Keys /\ P[n] = key
  BY <1>1, <1>2, <1>3 DEF Here
<1>5. nodes \in [NodeIdx -> Node]
  BY <1>2 DEF IInv, TypeOK
<1>6. nodes'[n] = Unmarked(nodes[n], c) /\ \A m \in NodeIdx \ {n} : nodes'[m] = nodes[m]
  BY <1>1, <1>3, <1>4, <1>5
<1> HIDE DEF key
<1>7. /\ LinksOK' /\ PathsOf(nodes', P) /\ MarksOK'
      /\ nodes'[n].fd_bitmap = nodes[n].fd_bitmap \ {c}
  <2> DEFINE S == {n}
  <2>1. /\ S \in SUBSET NodeIdx /\ n \in S
        /\ \A m \in S : nodes'[m] = Unmarked(nodes[m], c)
        /\ \A m \in NodeIdx \ S : nodes'[m] = nodes[m]
    BY <1>4, <1>6
  <2>2. /\ \A d \in Slots \ {c} : clients'[d] = clients[d]
        /\ clients'[c].generation = clients[c].generation
        /\ clients'[c].state # "FREE" \/ S = NodeIdx
    BY <1>1, <1>4
  <2> HIDE DEF S
  <2>3. /\ LinksOK' /\ PathsOf(nodes', P) /\ MarksOK'
        /\ \A m \in S : nodes'[m].fd_bitmap = nodes[m].fd_bitmap \ {c}
    BY <1>1, <1>2, <1>4, <2>1, <2>2, UnmarkMarks
  <2> QED
    BY <2>1, <2>3
<1>8. HeldIn(nodes', P, c) = HeldIn(nodes, P, c) \ {key}
  <2>1. ASSUME NEW m \in NodeIdx, c \in nodes[m].fd_bitmap, P[m] = key
        PROVE  m = n
    <3>1. m \in Used
      BY <1>2, <2>1 DEF IInv, SubCountExact, Used, Allocated, NodeIdx
    <3> QED
      BY <1>2, <1>4, <2>1, <3>1, PathInjective
  <2>2. {m \in NodeIdx : c \in nodes'[m].fd_bitmap} = {m \in NodeIdx : c \in nodes[m].fd_bitmap} \ {n}
    BY <1>4, <1>6, <1>7
  <2> QED
    BY <1>4, <2>1, <2>2 DEF HeldIn
<1>9. \A d \in Slots \ {c} : HeldIn(nodes', P, d) = HeldIn(nodes, P, d)
  <2> SUFFICES ASSUME NEW d \in Slots \ {c}
               PROVE  HeldIn(nodes', P, d) = HeldIn(nodes, P, d)
    OBVIOUS
  <2>1. {m \in NodeIdx : d \in nodes'[m].fd_bitmap} = {m \in NodeIdx : d \in nodes[m].fd_bitmap}
    BY <1>4, <1>6, <1>7
  <2> QED
    BY <2>1 DEF HeldIn
<1> QED
  BY <1>3, <1>4, <1>7, <1>8, <1>9 DEF UnmarkEffect, key

LEMMA LUnmark ==
  ASSUME LInv, IInv', Unmark
  PROVE  LInv'
<1> DEFINE key == Key(walk.asked[walk.i].filter)
<1>1. /\ Walking("unsubscribe") /\ walk.kind = "unsubscribe" /\ walk.i <= Considered(walk.asked)
      /\ walk' = StartAt(walk, walk.i + 1) /\ clients' = clients /\ granted' = granted
  BY DEF Unmark, Walking
<1>2. PICK P : PathsOf(nodes, P)
  BY DEF LInv, Tree
<1>3. UnmarkEffect(P) /\ HeldAs(P)
  BY <1>1, <1>2, UnmarkHeld, LNow
<1>4. WalkAt'
  <2>1. walk = [walk EXCEPT !.codes = walk.codes]
    BY DEF LInv, IInv, WalkOK, Walks
  <2>2. walk' = StartAt([walk EXCEPT !.codes = walk.codes], walk.i + 1)
    BY <1>1, <2>1
  <2> QED
    BY <1>1, <1>3, <2>2, AfterFilterAt DEF UnmarkEffect
<1>5. ASSUME NEW d \in Slots, NEW k \in Keys
      PROVE  Holds(walk', granted', d, k) <=>
               Holds(walk, granted, d, k) /\ ~(d = walk.slot /\ k = key)
  BY <1>1, Unsubscribed
<1> HIDE DEF key
<1>6. ASSUME NEW d \in Slots
      PROVE  HeldIn(nodes', P, d) = {k \in Keys : Holds(walk', granted', d, k)}
  <2>1. HeldIn(nodes, P, d) = {k \in Keys : Holds(walk, granted, d, k)}
    BY <1>3 DEF HeldAs
  <2>2. CASE d = walk.slot
    <3>1. HeldIn(nodes', P, d) = HeldIn(nodes, P, d) \ {key}
      BY <1>3, <2>2 DEF UnmarkEffect, key
    <3> QED
      BY <1>5, <2>1, <2>2, <3>1
  <2>3. CASE d # walk.slot
    <3>1. HeldIn(nodes', P, d) = HeldIn(nodes, P, d)
      BY <1>3, <2>3 DEF UnmarkEffect
    <3> QED
      BY <1>5, <2>1, <2>3, <3>1
  <2> QED
    BY <2>2, <2>3
<1> QED
  BY <1>3, <1>4, <1>6, LNext DEF UnmarkEffect

(* The end of a session takes all of its filters, unless the session is kept.  *)
CloseEffect(c, clean, P) ==
  /\ HeldIn(nodes', P, c) = IF clean THEN {} ELSE HeldIn(nodes, P, c)
  /\ \A d \in Slots \ {c} : HeldIn(nodes', P, d) = HeldIn(nodes, P, d)
  /\ PathsOf(nodes', P) /\ LinksOK' /\ MarksOK'

LEMMA CloseHeld ==
  ASSUME LInv, IInv', NEW CONSTANT c \in Slots, NEW CONSTANT clean \in BOOLEAN,
         HandleClose(c, clean), NEW CONSTANT P, PathsOf(nodes, P)
  PROVE  CloseEffect(c, clean, P)
<1>1. /\ clients' = [clients EXCEPT ![c].state = IF clean THEN "FREE" ELSE "DORMANT"]
      /\ nodes' = IF clean THEN Removed(c) ELSE nodes
      /\ free' = free
  BY DEF HandleClose
<1>2. IInv /\ LinksOK /\ MarksOK /\ nodes \in [NodeIdx -> Node] /\ clients \in [Slots -> Session]
  BY LNow, Types DEF IInv
<1>3. /\ \A d \in Slots \ {c} : clients'[d] = clients[d]
      /\ clients'[c].generation = clients[c].generation
      /\ clients'[c].state = IF clean THEN "FREE" ELSE "DORMANT"
  BY <1>1, <1>2 DEF Session
<1> DEFINE S == IF clean THEN NodeIdx ELSE {}
<1>4. /\ S \in SUBSET NodeIdx
      /\ \A n \in S : nodes'[n] = Unmarked(nodes[n], c)
      /\ \A n \in NodeIdx \ S : nodes'[n] = nodes[n]
  BY <1>1, <1>2, RemovedIsUnmarked
<1>5. clients'[c].state # "FREE" \/ S = NodeIdx
  BY <1>3
<1> HIDE DEF S
<1>6. /\ LinksOK' /\ PathsOf(nodes', P) /\ MarksOK'
      /\ \A n \in S : nodes'[n].fd_bitmap = nodes[n].fd_bitmap \ {c}
  BY <1>1, <1>2, <1>3, <1>4, <1>5, UnmarkMarks
<1>7. HeldIn(nodes', P, c) = IF clean THEN {} ELSE HeldIn(nodes, P, c)
  <2>1. CASE clean
    BY <1>6, <2>1 DEF HeldIn, S
  <2>2. CASE ~clean
    <3>1. {m \in NodeIdx : c \in nodes'[m].fd_bitmap} = {m \in NodeIdx : c \in nodes[m].fd_bitmap}
      BY <1>4, <2>2 DEF S
    <3> QED
      BY <2>2, <3>1 DEF HeldIn
  <2> QED
    BY <2>1, <2>2
<1>8. \A d \in Slots \ {c} : HeldIn(nodes', P, d) = HeldIn(nodes, P, d)
  <2> SUFFICES ASSUME NEW d \in Slots \ {c}
               PROVE  HeldIn(nodes', P, d) = HeldIn(nodes, P, d)
    OBVIOUS
  <2>1. {m \in NodeIdx : d \in nodes'[m].fd_bitmap} = {m \in NodeIdx : d \in nodes[m].fd_bitmap}
    BY <1>4, <1>6
  <2> QED
    BY <2>1 DEF HeldIn
<1> QED
  BY <1>6, <1>7, <1>8 DEF CloseEffect

LEMMA LClose ==
  ASSUME LInv, IInv', NEW CONSTANT c \in Slots, NEW CONSTANT clean \in BOOLEAN,
         HandleClose(c, clean)
  PROVE  LInv'
<1>1. PICK P : PathsOf(nodes, P)
  BY DEF LInv, Tree
<1>2. CloseEffect(c, clean, P) /\ HeldAs(P) /\ granted \in [Slots -> [Keys -> Codes]]
  BY <1>1, CloseHeld, LNow, Types DEF IInv
<1>3. /\ walk = NoWalk /\ walk' = NoWalk
      /\ granted' = IF clean THEN [granted EXCEPT ![c] = NothingHeld] ELSE granted
  BY DEF HandleClose, Idle
<1>4. WalkAt'
  BY <1>3 DEF WalkAt, NoWalk
<1>5. ASSUME NEW d \in Slots, NEW k \in Keys
      PROVE  /\ Holds(walk', granted', d, k) <=> granted'[d][k] # NotHeld
             /\ Holds(walk, granted, d, k) <=> granted[d][k] # NotHeld
  <2>1. NoWalk.slot \notin Slots /\ NoWalk.i = 1
    BY SlotsAssumption DEF NoWalk
  <2> QED
    BY <1>3, <2>1, HoldsTold
<1>6. ASSUME NEW d \in Slots
      PROVE  HeldIn(nodes', P, d) = {k \in Keys : Holds(walk', granted', d, k)}
  <2>1. HeldIn(nodes, P, d) = {k \in Keys : Holds(walk, granted, d, k)}
    BY <1>2 DEF HeldAs
  <2>2. CASE d = c /\ clean
    <3>1. HeldIn(nodes', P, d) = {}
      BY <1>2, <2>2 DEF CloseEffect
    <3>2. granted'[d] = NothingHeld
      BY <1>2, <1>3, <2>2
    <3> QED
      BY <1>5, <3>1, <3>2 DEF NothingHeld
  <2>3. CASE ~(d = c /\ clean)
    <3>1. HeldIn(nodes', P, d) = HeldIn(nodes, P, d)
      BY <1>2, <2>3 DEF CloseEffect
    <3>2. granted'[d] = granted[d]
      BY <1>2, <1>3, <2>3
    <3> QED
      BY <1>5, <2>1, <3>1, <3>2
  <2> QED
    BY <2>2, <2>3
<1> QED
  BY <1>2, <1>4, <1>6, LNext DEF CloseEffect

(* What adding a node does.                                                    *)
Grown(idx) ==
  LET p == walk.node
      level == Head(walk.path)
  IN  /\ free' = free \ {idx} /\ clients' = clients /\ granted' = granted
      /\ p \in NodeIdx /\ p \notin free /\ level \in Levels /\ idx \in Nodes
      /\ nodes'[idx].name = level /\ nodes'[idx].parent = p
      /\ nodes'[idx].plus_child = NoNode /\ nodes'[idx].hash_child = NoNode
      /\ nodes'[idx].fd_bitmap = {}
      /\ \A k \in 0 .. HashSize - 1 : nodes'[idx].child_hash[k] = NoNode
      /\ nodes'[p].name = nodes[p].name /\ nodes'[p].parent = nodes[p].parent
      /\ nodes'[p].fd_bitmap = nodes[p].fd_bitmap /\ nodes'[p].fd_gen = nodes[p].fd_gen
      /\ nodes'[p].plus_child = IF level = "+" THEN idx ELSE nodes[p].plus_child
      /\ nodes'[p].hash_child = IF level = "#" THEN idx ELSE nodes[p].hash_child
      /\ \A k \in 0 .. HashSize - 1 : nodes'[p].child_hash[k] \in {idx, nodes[p].child_hash[k]}
      /\ \A n \in NodeIdx \ {p, idx} : nodes'[n] = nodes[n]
      /\ walk'.kind = walk.kind /\ walk'.slot = walk.slot /\ walk'.asked = walk.asked
      /\ walk'.i = walk.i /\ walk'.codes = walk.codes
      /\ walk'.node = idx /\ walk'.path = Tail(walk.path)

LEMMA GrownLemma ==
  ASSUME IInv, Grow
  PROVE  \E idx \in free : Grown(idx)
<1> DEFINE p == walk.node
           level == Head(walk.path)
<1>1. /\ walk.path # << >> /\ ~AddFails(nodes[p], level)
      /\ clients' = clients /\ granted' = granted
  BY DEF Grow
<1>2. PICK idx \in free :
        /\ free' = free \ {idx}
        /\ nodes' = [nodes EXCEPT ![idx] = [EmptyNode EXCEPT !.name = level, !.parent = p],
                                  ![p] = WithChild(@, idx, level)]
        /\ walk' = [walk EXCEPT !.node = idx, !.path = Tail(@)]
  BY DEF Grow
<1>3. /\ p \in NodeIdx /\ level \in Levels /\ p \notin free /\ p # idx
      /\ idx \in Nodes /\ idx \in NodeIdx /\ walk \in Walks
  BY <1>1, <1>2, NextLevel DEF IInv, WalkOK, TypeOK, NodeIdx
<1> DEFINE child == [EmptyNode EXCEPT !.name = level, !.parent = p]
           parent == WithChild(nodes[p], idx, level)
<1>4. /\ nodes \in [NodeIdx -> Node] /\ nodes[p] \in Node /\ EmptyProbes(nodes[p], level) # {}
  BY <1>1, <1>3, Types DEF IInv, AddFails
<1>5. nodes' = [nodes EXCEPT ![idx] = child, ![p] = parent]
  BY <1>2, <1>3, <1>4
<1>6. /\ walk'.kind = walk.kind /\ walk'.slot = walk.slot /\ walk'.asked = walk.asked
      /\ walk'.i = walk.i /\ walk'.codes = walk.codes
      /\ walk'.node = idx /\ walk'.path = Tail(walk.path)
  BY <1>2, <1>3 DEF Walks
<1> HIDE DEF p, level
<1>7. /\ child.name = level /\ child.parent = p
      /\ child.plus_child = NoNode /\ child.hash_child = NoNode /\ child.fd_bitmap = {}
      /\ \A k \in 0 .. HashSize - 1 : child.child_hash[k] = NoNode
  BY DEF EmptyNode
<1>8. /\ parent.name = nodes[p].name /\ parent.parent = nodes[p].parent
      /\ parent.fd_bitmap = nodes[p].fd_bitmap
      /\ parent.plus_child = IF level = "+" THEN idx ELSE nodes[p].plus_child
      /\ parent.hash_child = IF level = "#" THEN idx ELSE nodes[p].hash_child
      /\ \A k \in 0 .. HashSize - 1 : parent.child_hash[k] \in {idx, nodes[p].child_hash[k]}
  <2> DEFINE q == ProbePos(level, Least(EmptyProbes(nodes[p], level)))
  <2>1. /\ parent.name = nodes[p].name /\ parent.parent = nodes[p].parent
        /\ parent.fd_bitmap = nodes[p].fd_bitmap
        /\ parent.plus_child = IF level = "+" THEN idx ELSE nodes[p].plus_child
        /\ parent.hash_child = IF level = "#" THEN idx ELSE nodes[p].hash_child
        /\ parent.child_hash = [nodes[p].child_hash EXCEPT ![q] = idx]
    BY <1>3, <1>4, WithChildOK
  <2>2. nodes[p].child_hash \in [0 .. HashSize - 1 -> NodeIdx]
    BY <1>4 DEF Node
  <2> HIDE DEF q, parent
  <2>3. \A k \in 0 .. HashSize - 1 : parent.child_hash[k] \in {idx, nodes[p].child_hash[k]}
    BY <2>1, <2>2
  <2> QED
    BY <2>1, <2>3
<1>9. parent.fd_gen = nodes[p].fd_gen
  BY <1>4 DEF WithChild, Node
<1> HIDE DEF child, parent
<1>10. /\ nodes'[idx] = child /\ nodes'[p] = parent
       /\ \A n \in NodeIdx \ {p, idx} : nodes'[n] = nodes[n]
  BY <1>3, <1>4, <1>5
<1>11. Grown(idx)
  BY <1>1, <1>2, <1>3, <1>6, <1>7, <1>8, <1>9, <1>10 DEF Grown, p, level
<1> QED
  BY <1>2, <1>11

(* The new node gets a path, and every other node keeps its own.               *)
LEMMA GrownTree ==
  ASSUME IInv, LinksOK, NEW CONSTANT P, PathsOf(nodes, P), NEW idx \in free, Grown(idx),
         Cut[Head(walk.path)] = Head(walk.path),
         NEW CONSTANT Q, Q = [P EXCEPT ![idx] = Append(P[walk.node], Head(walk.path))]
  PROVE  LinksOK' /\ PathsOf(nodes', Q)
<1> DEFINE p == walk.node
           level == Head(walk.path)
<1>1. /\ free' = free \ {idx}
      /\ p \in NodeIdx /\ p \notin free /\ level \in Levels /\ idx \in Nodes
      /\ nodes'[idx].name = level /\ nodes'[idx].parent = p
      /\ nodes'[idx].plus_child = NoNode /\ nodes'[idx].hash_child = NoNode
      /\ \A k \in 0 .. HashSize - 1 : nodes'[idx].child_hash[k] = NoNode
      /\ nodes'[p].name = nodes[p].name /\ nodes'[p].parent = nodes[p].parent
      /\ nodes'[p].plus_child = IF level = "+" THEN idx ELSE nodes[p].plus_child
      /\ nodes'[p].hash_child = IF level = "#" THEN idx ELSE nodes[p].hash_child
      /\ \A k \in 0 .. HashSize - 1 : nodes'[p].child_hash[k] \in {idx, nodes[p].child_hash[k]}
      /\ \A n \in NodeIdx \ {p, idx} : nodes'[n] = nodes[n]
      /\ Cut[level] = level /\ Q = [P EXCEPT ![idx] = Append(P[p], level)]
  BY DEF Grown
<1> HIDE DEF p, level
<1>2. /\ idx \in NodeIdx /\ idx # p /\ idx # Root /\ idx \notin Allocated
      /\ Allocated' = Allocated \cup {idx} /\ Allocated \subseteq NodeIdx
      /\ free \subseteq Nodes /\ p \in Used
  BY <1>1, NodesAssumption DEF IInv, TypeOK, Allocated, NodeIdx, Used
<1>3. ASSUME NEW n \in NodeIdx \ {idx}
      PROVE  /\ nodes'[n].name = nodes[n].name /\ nodes'[n].parent = nodes[n].parent
             /\ nodes[n].plus_child # idx /\ nodes[n].hash_child # idx
             /\ nodes[n].plus_child \in NodeIdx /\ nodes[n].hash_child \in NodeIdx
             /\ \A k \in 0 .. HashSize - 1 :
                  nodes[n].child_hash[k] # idx /\ nodes[n].child_hash[k] \in NodeIdx
  <2>1. nodes'[n].name = nodes[n].name /\ nodes'[n].parent = nodes[n].parent
    BY <1>1
  <2>2. nodes[n] \in Node
    BY DEF IInv, TypeOK
  <2>3. nodes[n].plus_child # idx /\ nodes[n].hash_child # idx
    BY <1>2 DEF LinksOK, NoNode
  <2>4. \A k \in 0 .. HashSize - 1 : nodes[n].child_hash[k] # idx
    BY DEF IInv, NoFreeChild
  <2> QED
    BY <2>1, <2>2, <2>3, <2>4 DEF Node
<1>4. ASSUME NEW n \in NodeIdx, NEW k \in 0 .. HashSize - 1, nodes'[n].child_hash[k] # NoNode
      PROVE  nodes'[nodes'[n].child_hash[k]].parent = n
  <2>1. CASE n = idx
    BY <1>1, <1>4, <2>1
  <2>2. CASE n = p /\ nodes'[n].child_hash[k] = idx
    BY <1>1, <2>2
  <2>3. CASE n # idx /\ nodes'[n].child_hash[k] = nodes[n].child_hash[k]
    BY <1>3, <1>4, <2>3 DEF LinksOK
  <2> QED
    BY <1>1, <2>1, <2>2, <2>3
<1>5. ASSUME NEW n \in NodeIdx, nodes'[n].plus_child # NoNode
      PROVE  /\ nodes'[n].plus_child \in Allocated' /\ nodes'[nodes'[n].plus_child].parent = n
             /\ nodes'[nodes'[n].plus_child].name = "+"
  <2>1. n # idx
    BY <1>1, <1>5
  <2>2. CASE n = p /\ level = "+"
    BY <1>1, <1>2, <2>2
  <2>3. CASE ~(n = p /\ level = "+")
    <3>1. nodes'[n].plus_child = nodes[n].plus_child
      BY <1>1, <2>1, <2>3
    <3> QED
      BY <1>2, <1>3, <1>5, <2>1, <3>1 DEF LinksOK
  <2> QED
    BY <2>2, <2>3
<1>6. ASSUME NEW n \in NodeIdx, nodes'[n].hash_child # NoNode
      PROVE  /\ nodes'[n].hash_child \in Allocated' /\ nodes'[nodes'[n].hash_child].parent = n
             /\ nodes'[nodes'[n].hash_child].name = "#"
  <2>1. n # idx
    BY <1>1, <1>6
  <2>2. CASE n = p /\ level = "#"
    BY <1>1, <1>2, <2>2
  <2>3. CASE ~(n = p /\ level = "#")
    <3>1. nodes'[n].hash_child = nodes[n].hash_child
      BY <1>1, <2>1, <2>3
    <3> QED
      BY <1>2, <1>3, <1>6, <2>1, <3>1 DEF LinksOK
  <2> QED
    BY <2>2, <2>3
<1>7. /\ \A n \in Allocated' : Cut[nodes'[n].name] = nodes'[n].name
      /\ \A n \in free' : nodes'[n].parent = Root
  BY <1>1, <1>2, <1>3 DEF LinksOK, NodeIdx
<1>8. LinksOK'
  BY <1>4, <1>5, <1>6, <1>7 DEF LinksOK, NoNode
<1>9. PathsOf(nodes', Q)
  <2>1. /\ P \in [NodeIdx -> Seq(Levels)] /\ P[Root] = << >>
        /\ \A n \in Nodes : P[n] = Append(P[nodes[n].parent], nodes[n].name)
    BY DEF PathsOf
  <2>2. Append(P[p], level) \in Seq(Levels)
    <3>1. P[p] \in Seq(Levels)
      BY <1>1, <2>1
    <3> QED
      BY <1>1, <3>1, AppendLemma
  <2>3. /\ Q \in [NodeIdx -> Seq(Levels)] /\ Q[idx] = Append(P[p], level)
        /\ \A n \in NodeIdx \ {idx} : Q[n] = P[n]
    <3> DEFINE path == Append(P[p], level)
    <3>1. Q = [P EXCEPT ![idx] = path] /\ path \in Seq(Levels)
      BY <1>1, <2>2
    <3>2. Q[idx] = path
      BY <1>2, <2>1, <3>1
    <3> HIDE DEF path
    <3>3. /\ Q \in [NodeIdx -> Seq(Levels)]
          /\ \A n \in NodeIdx \ {idx} : Q[n] = P[n]
      BY <1>2, <2>1, <3>1
    <3> QED
      BY <3>2, <3>3 DEF path
  <2>4. Root \in NodeIdx
    BY DEF NodeIdx
  <2>5. ASSUME NEW n \in Nodes
        PROVE  Q[n] = Append(Q[nodes'[n].parent], nodes'[n].name)
    <3>1. CASE n = idx
      BY <1>1, <1>2, <2>3, <3>1
    <3>2. CASE n # idx
      <4>1. n \in NodeIdx \ {idx}
        BY <3>2 DEF NodeIdx
      <4>2. nodes[n].parent \in NodeIdx \ {idx}
        <5>1. nodes[n].parent \in Used
          BY DEF IInv, ChildrenFindable, LinksOK, Used, Allocated
        <5> QED
          BY <1>2, <5>1 DEF Used, NodeIdx
      <4>3. nodes'[n].parent = nodes[n].parent /\ nodes'[n].name = nodes[n].name
        BY <1>3, <4>1
      <4>4. Q[n] = P[n] /\ Q[nodes[n].parent] = P[nodes[n].parent]
        BY <2>3, <4>1, <4>2
      <4>5. P[n] = Append(P[nodes[n].parent], nodes[n].name)
        BY <2>1
      <4> QED
        BY <4>3, <4>4, <4>5
    <3> QED
      BY <3>1, <3>2
  <2> QED
    BY <1>2, <2>1, <2>3, <2>4, <2>5 DEF PathsOf
<1> QED
  BY <1>8, <1>9

(* A new node has no subscriber.                                               *)
LEMMA GrownHeld ==
  ASSUME IInv, MarksOK, NEW CONSTANT P, PathsOf(nodes, P), NEW idx \in free, Grown(idx),
         NEW CONSTANT Q, Q = [P EXCEPT ![idx] = Append(P[walk.node], Head(walk.path))]
  PROVE  MarksOK' /\ \A c : HeldIn(nodes', Q, c) = HeldIn(nodes, P, c)
<1>1. /\ nodes[idx].fd_bitmap = {} /\ idx \in NodeIdx
  BY DEF IInv, TypeOK, SubCountExact, NodeIdx
<1>2. /\ nodes'[idx].fd_bitmap = {} /\ clients' = clients
      /\ \A n \in NodeIdx \ {idx} : /\ nodes'[n].fd_bitmap = nodes[n].fd_bitmap
                                    /\ nodes'[n].fd_gen = nodes[n].fd_gen
  BY DEF Grown
<1>3. MarksOK'
  <2> SUFFICES ASSUME NEW m \in NodeIdx, NEW d \in nodes'[m].fd_bitmap
               PROVE  nodes'[m].fd_gen[d] = clients'[d].generation /\ clients'[d].state # "FREE"
    BY DEF MarksOK
  <2> QED
    BY <1>2 DEF MarksOK
<1>4. \A n \in NodeIdx \ {idx} : Q[n] = P[n]
  BY DEF PathsOf
<1>5. ASSUME NEW c
      PROVE  HeldIn(nodes', Q, c) = HeldIn(nodes, P, c)
  <2>1. {m \in NodeIdx : c \in nodes'[m].fd_bitmap} = {m \in NodeIdx : c \in nodes[m].fd_bitmap}
    BY <1>1, <1>2
  <2>2. \A m \in {m \in NodeIdx : c \in nodes[m].fd_bitmap} : Q[m] = P[m]
    BY <1>1, <1>4
  <2> QED
    BY <2>1, <2>2 DEF HeldIn
<1> QED
  BY <1>3, <1>5

LEMMA LGrow ==
  ASSUME LInv, IInv', Grow
  PROVE  LInv' /\ \A c \in Slots : Held(c)' = Held(c)
<1>1. walk.kind # "none" /\ walk.i <= Considered(walk.asked) /\ walk.path # << >>
  BY DEF Grow, Walking
<1>2. PICK P : PathsOf(nodes, P)
  BY DEF LInv, Tree
<1>3. IInv /\ LinksOK /\ MarksOK /\ HeldAs(P) /\ Here(P)
  BY <1>1, <1>2, HereLemma, LNow
<1>4. PICK idx \in free : Grown(idx)
  BY <1>3, GrownLemma
<1>5. PICK Q : Q = [P EXCEPT ![idx] = Append(P[walk.node], Head(walk.path))]
  OBVIOUS
<1>6. LinksOK' /\ PathsOf(nodes', Q)
  BY <1>1, <1>2, <1>3, <1>4, <1>5, GrownTree DEF Here
<1>7. MarksOK' /\ \A c : HeldIn(nodes', Q, c) = HeldIn(nodes, P, c)
  BY <1>2, <1>3, <1>4, <1>5, GrownHeld
<1>8. WalkAt'
  <2>1. /\ walk'.kind = walk.kind /\ walk'.slot = walk.slot /\ walk'.asked = walk.asked
        /\ walk'.i = walk.i /\ walk'.node = idx /\ walk'.path = Tail(walk.path)
        /\ clients' = clients /\ idx \in Nodes
    BY <1>4 DEF Grown
  <2>2. Q[idx] = Append(P[walk.node], Head(walk.path))
    BY <1>2, <1>5, <2>1 DEF PathsOf, NodeIdx
  <2>3. Append(P[walk.node], Head(walk.path)) \o Tail(walk.path) = Key(walk.asked[walk.i].filter)
    BY <1>1, <1>3 DEF Here
  <2>4. Q[walk'.node] \o walk'.path = Key(walk'.asked[walk'.i].filter)
    BY <2>1, <2>2, <2>3
  <2>5. clients'[walk'.slot].state = "ACTIVE" /\ walk'.kind # "none"
    BY <1>1, <1>3, <2>1 DEF Here
  <2> QED
    BY <1>6, <2>4, <2>5, WalkAtNode
<1>9. \A c \in Slots, k \in Keys : Holds(walk', granted', c, k) <=> Holds(walk, granted, c, k)
  <2>1. /\ walk'.kind = walk.kind /\ walk'.slot = walk.slot /\ walk'.asked = walk.asked
        /\ walk'.i = walk.i /\ walk'.codes = walk.codes /\ granted' = granted
    BY <1>4 DEF Grown
  <2> QED
    BY <2>1 DEF Holds, Done
<1>10. \A c \in Slots : HeldIn(nodes', Q, c) = {k \in Keys : Holds(walk', granted', c, k)}
  BY <1>3, <1>7, <1>9 DEF HeldAs
<1>11. LInv'
  BY <1>6, <1>7, <1>8, <1>10, LNext
<1>12. \A c \in Slots : Held(c)' = Held(c)
  BY <1>2, <1>3, <1>6, <1>7, HeldNow, HeldNext
<1> QED
  BY <1>11, <1>12

(* The free nodes are the children of nobody, and nothing is held.             *)
LEMMA InitLInv == Init => LInv
<1> SUFFICES ASSUME Init PROVE LInv
  OBVIOUS
<1>1. IInv
  BY InitIInv
<1>2. /\ free = Nodes /\ walk = NoWalk /\ \A n \in NodeIdx : nodes[n] = EmptyNode
      /\ granted = [c \in Slots |-> NothingHeld]
  BY DEF Init
<1>3. /\ EmptyNode.name = EmptyLevel /\ EmptyNode.parent = Root /\ EmptyNode.fd_bitmap = {}
      /\ EmptyNode.plus_child = NoNode /\ EmptyNode.hash_child = NoNode
      /\ \A k \in 0 .. HashSize - 1 : EmptyNode.child_hash[k] = NoNode
  BY DEF EmptyNode
<1>4. LinksOK
  <2>1. Allocated = {} /\ Nodes \subseteq NodeIdx
    BY <1>2 DEF Allocated, NodeIdx
  <2> QED
    BY <1>2, <1>3, <2>1 DEF LinksOK
<1>5. Append(<< >>, EmptyLevel) \in Seq(Levels) /\ << >> \in Seq(Levels)
  BY EmptySeq, LevelsAssumption, AppendLemma
<1>6. PICK P : P = [n \in NodeIdx |-> IF n = Root THEN << >> ELSE Append(<< >>, EmptyLevel)]
  OBVIOUS
<1>7. PathsOf(nodes, P)
  <2>1. P \in [NodeIdx -> Seq(Levels)]
    BY <1>5, <1>6
  <2>2. P[Root] = << >> /\ \A n \in Nodes : P[n] = Append(<< >>, EmptyLevel)
    BY <1>6, NodesAssumption DEF NodeIdx
  <2>3. \A n \in Nodes : nodes[n].parent = Root /\ nodes[n].name = EmptyLevel
    BY <1>2, <1>3 DEF NodeIdx
  <2> QED
    BY <2>1, <2>2, <2>3 DEF PathsOf
<1>8. Tree
  BY <1>4, <1>7 DEF Tree
<1>9. MarksOK
  BY <1>2, <1>3 DEF MarksOK
<1>10. WalkAt
  BY <1>2 DEF WalkAt, NoWalk
<1>11. View
  <2> SUFFICES ASSUME NEW c \in Slots
               PROVE  Held(c) = {k \in Keys : Holds(walk, granted, c, k)}
    BY DEF View
  <2>1. Held(c) = {}
    BY <1>2, <1>3 DEF Held, Allocated, NodeIdx
  <2>2. NoWalk.slot \notin Slots /\ NoWalk.i = 1
    BY SlotsAssumption DEF NoWalk
  <2>3. \A k \in Keys : Holds(walk, granted, c, k) <=> granted[c][k] # NotHeld
    BY <1>2, <2>2, HoldsTold
  <2> QED
    BY <1>2, <2>1, <2>3 DEF NothingHeld
<1> QED
  BY <1>1, <1>8, <1>9, <1>10, <1>11 DEF LInv

LEMMA NextLInv == LInv /\ [Next]_vars => LInv'
<1> SUFFICES ASSUME LInv, [Next]_vars PROVE LInv'
  OBVIOUS
<1>1. IInv'
  BY NextIInv DEF LInv
<1>2. ASSUME NEW c \in Slots, Accept(c) PROVE LInv'
  BY <1>1, <1>2, LAccept
<1>3. ASSUME NEW c \in Slots, SubmitClose(c) PROVE LInv'
  BY <1>1, <1>3, LSubmitClose
<1>4. ASSUME NEW c \in Slots, NEW clean \in BOOLEAN, HandleClose(c, clean) PROVE LInv'
  BY <1>1, <1>4, LClose
<1>5. ASSUME NEW c \in Slots, NEW kind \in {"subscribe", "unsubscribe"}, NEW len \in Packets,
             NEW asked \in [1 .. len -> Asked], Receive(c, kind, asked)
      PROVE  LInv'
  BY <1>1, <1>5, LReceive
<1>6. ASSUME Descend \/ Grow \/ Fail \/ Mark PROVE LInv'
  BY <1>1, <1>6, LDescend, LGrow, LFail, LMark
<1>7. ASSUME Unmark \/ Miss \/ Answer PROVE LInv'
  BY <1>1, <1>7, LUnmark, LMiss, LAnswer
<1>8. CASE UNCHANGED vars
  <2>1. /\ nodes' = nodes /\ free' = free /\ clients' = clients /\ walk' = walk
        /\ granted' = granted
    BY <1>8 DEF vars
  <2>2. PICK P : PathsOf(nodes, P)
    BY DEF LInv, Tree
  <2>3. PathsOf(nodes', P) /\ MarksOK'
    BY <2>1, <2>2 DEF LInv, MarksOK
  <2>4. WalkAt'
    <3>1. CASE walk.kind = "none"
      BY <2>1, <3>1 DEF LInv, WalkAt
    <3>2. CASE walk.kind # "none" /\ walk.i <= Considered(walk.asked)
      <4>1. Here(P)
        BY <2>2, <3>2, HereLemma
      <4> QED
        BY <1>1, <2>1, <2>3, <3>2, <4>1, WalkAtNode DEF Here
    <3>3. CASE walk.kind # "none" /\ ~(walk.i <= Considered(walk.asked))
      BY <2>1, <3>3 DEF LInv, WalkAt
    <3> QED
      BY <3>1, <3>2, <3>3
  <2> QED
    BY <1>1, <2>1, <2>3, <2>4, LSameTrie
<1> QED
  BY <1>2, <1>3, <1>4, <1>5, <1>6, <1>7, <1>8 DEF Next

LEMMA LInvAlways == Spec => []LInv
BY InitLInv, NextLInv, PTL DEF Spec

(* Between packets every client holds in the trie exactly the filters it was   *)
(* told it holds: after any sequence of SUBSCRIBEs that were granted, refused   *)
(* or ran out of nodes half way, of UNSUBSCRIBEs and of reconnections.         *)
THEOREM ViewCorrect == Spec => []ViewExact
<1>1. LInv => ViewExact
  <2> SUFFICES ASSUME LInv, Idle, NEW c \in Slots
               PROVE  {k \in Keys : granted[c][k] # NotHeld} = Held(c)
    BY DEF ViewExact
  <2>1. NoWalk.slot \notin Slots /\ NoWalk.i = 1
    BY SlotsAssumption DEF NoWalk
  <2>2. \A k \in Keys : Holds(walk, granted, c, k) <=> granted[c][k] # NotHeld
    BY <2>1, HoldsTold DEF Idle
  <2>3. Held(c) = {k \in Keys : Holds(walk, granted, c, k)}
    BY DEF LInv, View
  <2> QED
    BY <2>2, <2>3
<1> QED
  BY <1>1, LInvAlways, PTL

-------------------------------------------------------------------------------
(* The trie implements a set of filters per session.                           *)

(* What an observer of the abstract specification sees.                        *)
SessionsSeen == [c \in Slots |-> clients[c].state]
HeldSeen == [c \in Slots |-> Held(c)]

LEMMA SeenSame ==
  ASSUME \A c \in Slots : clients'[c].state = clients[c].state,
         \A c \in Slots : Held(c)' = Held(c)
  PROVE  UNCHANGED Abstract!vars
<1>1. SessionsSeen' = SessionsSeen
  BY DEF SessionsSeen
<1>2. HeldSeen' = HeldSeen
  BY DEF HeldSeen
<1> QED
  BY <1>1, <1>2 DEF Abstract!vars, SessionsSeen, HeldSeen

(* What one session holds after a step, when only that session's set changes.  *)
LEMMA SeenOne ==
  ASSUME NEW c \in Slots, NEW S, Held(c)' = S,
         \A d \in Slots \ {c} : Held(d)' = Held(d)
  PROVE  HeldSeen' = [HeldSeen EXCEPT ![c] = S]
BY DEF HeldSeen

LEMMA AcceptRefines ==
  ASSUME LInv, IInv', NEW CONSTANT c \in Slots, Accept(c)
  PROVE  Abstract!Open(c)
<1>1. /\ clients[c].state = "FREE" /\ nodes' = nodes /\ free' = free
      /\ clients' = [clients EXCEPT ![c] = [state |-> "ACTIVE", generation |-> @.generation + 1]]
  BY DEF Accept
<1>2. clients \in [Slots -> Session]
  BY Types DEF LInv, IInv
<1>3. SessionsSeen' = [SessionsSeen EXCEPT ![c] = "ACTIVE"] /\ SessionsSeen[c] = "FREE"
  BY <1>1, <1>2 DEF SessionsSeen
<1>4. HeldSeen' = HeldSeen
  BY <1>1, SameHeld DEF HeldSeen
<1> QED
  BY <1>3, <1>4 DEF Abstract!Open, SessionsSeen, HeldSeen

LEMMA SubmitCloseRefines ==
  ASSUME LInv, IInv', NEW CONSTANT c \in Slots, SubmitClose(c)
  PROVE  Abstract!Close(c)
<1>1. /\ clients[c].state = "ACTIVE" /\ nodes' = nodes /\ free' = free
      /\ clients' = [clients EXCEPT ![c].state = "CLOSING"]
  BY DEF SubmitClose
<1>2. clients \in [Slots -> Session]
  BY Types DEF LInv, IInv
<1>3. SessionsSeen' = [SessionsSeen EXCEPT ![c] = "CLOSING"] /\ SessionsSeen[c] = "ACTIVE"
  BY <1>1, <1>2 DEF SessionsSeen, Session
<1>4. HeldSeen' = HeldSeen
  BY <1>1, SameHeld DEF HeldSeen
<1> QED
  BY <1>3, <1>4 DEF Abstract!Close, SessionsSeen, HeldSeen

LEMMA CloseRefines ==
  ASSUME LInv, IInv', NEW CONSTANT c \in Slots, NEW CONSTANT clean \in BOOLEAN,
         HandleClose(c, clean)
  PROVE  Abstract!End(c, clean)
<1>1. /\ clients[c].state = "CLOSING"
      /\ clients' = [clients EXCEPT ![c].state = IF clean THEN "FREE" ELSE "DORMANT"]
  BY DEF HandleClose
<1>2. clients \in [Slots -> Session]
  BY Types DEF LInv, IInv
<1>3. /\ SessionsSeen' = [SessionsSeen EXCEPT ![c] = IF clean THEN "FREE" ELSE "DORMANT"]
      /\ SessionsSeen[c] = "CLOSING"
  BY <1>1, <1>2 DEF SessionsSeen, Session
<1>4. PICK P : PathsOf(nodes, P)
  BY DEF LInv, Tree
<1>5. CloseEffect(c, clean, P)
  BY <1>4, CloseHeld
<1>6. \A d \in Slots : Held(d) = HeldIn(nodes, P, d) /\ Held(d)' = HeldIn(nodes', P, d)
  BY <1>4, <1>5, HeldNow, HeldNext DEF CloseEffect, LInv
<1>7. HeldSeen' = IF clean THEN [HeldSeen EXCEPT ![c] = {}] ELSE HeldSeen
  <2>1. /\ Held(c)' = IF clean THEN {} ELSE Held(c)
        /\ \A d \in Slots \ {c} : Held(d)' = Held(d)
    BY <1>5, <1>6 DEF CloseEffect
  <2>2. CASE clean
    BY <2>1, <2>2, SeenOne
  <2>3. CASE ~clean
    BY <2>1, <2>3 DEF HeldSeen
  <2> QED
    BY <2>2, <2>3
<1> QED
  BY <1>3, <1>7 DEF Abstract!End, SessionsSeen, HeldSeen

LEMMA MarkRefines ==
  ASSUME LInv, IInv', Mark
  PROVE  Abstract!Next
<1>1. PICK P : PathsOf(nodes, P)
  BY DEF LInv, Tree
<1>2. PICK c, k : c = walk.slot /\ k = Key(walk.asked[walk.i].filter)
  OBVIOUS
<1>3. /\ c \in Slots /\ clients[c].state = "ACTIVE" /\ k \in Keys
      /\ HeldIn(nodes', P, c) = HeldIn(nodes, P, c) \cup {k}
      /\ \A d \in Slots \ {c} : HeldIn(nodes', P, d) = HeldIn(nodes, P, d)
      /\ PathsOf(nodes', P)
  BY <1>1, <1>2, MarkHeld DEF MarkEffect
<1>4. \A d \in Slots : Held(d) = HeldIn(nodes, P, d) /\ Held(d)' = HeldIn(nodes', P, d)
  BY <1>1, <1>3, HeldNow, HeldNext DEF LInv
<1>5. HeldSeen' = [HeldSeen EXCEPT ![c] = HeldSeen[c] \cup {k}]
  <2>1. HeldSeen[c] = Held(c)
    BY <1>3 DEF HeldSeen
  <2> QED
    BY <1>3, <1>4, <2>1, SeenOne
<1>6. SessionsSeen' = SessionsSeen /\ SessionsSeen[c] = "ACTIVE"
  BY <1>3 DEF SessionsSeen, Mark
<1>7. Abstract!Subscribe(c, k)
  BY <1>5, <1>6 DEF Abstract!Subscribe, SessionsSeen, HeldSeen
<1> QED
  BY <1>3, <1>7 DEF Abstract!Next

LEMMA UnmarkRefines ==
  ASSUME LInv, IInv', Unmark
  PROVE  Abstract!Next
<1>1. PICK P : PathsOf(nodes, P)
  BY DEF LInv, Tree
<1>2. PICK c, k : c = walk.slot /\ k = Key(walk.asked[walk.i].filter)
  OBVIOUS
<1>3. /\ c \in Slots /\ clients[c].state = "ACTIVE" /\ k \in Keys
      /\ HeldIn(nodes', P, c) = HeldIn(nodes, P, c) \ {k}
      /\ \A d \in Slots \ {c} : HeldIn(nodes', P, d) = HeldIn(nodes, P, d)
      /\ PathsOf(nodes', P)
  BY <1>1, <1>2, UnmarkHeld DEF UnmarkEffect
<1>4. \A d \in Slots : Held(d) = HeldIn(nodes, P, d) /\ Held(d)' = HeldIn(nodes', P, d)
  BY <1>1, <1>3, HeldNow, HeldNext DEF LInv
<1>5. HeldSeen' = [HeldSeen EXCEPT ![c] = HeldSeen[c] \ {k}]
  <2>1. HeldSeen[c] = Held(c)
    BY <1>3 DEF HeldSeen
  <2> QED
    BY <1>3, <1>4, <2>1, SeenOne
<1>6. SessionsSeen' = SessionsSeen /\ SessionsSeen[c] = "ACTIVE"
  BY <1>3 DEF SessionsSeen, Unmark
<1>7. Abstract!Unsubscribe(c, k)
  BY <1>5, <1>6 DEF Abstract!Unsubscribe, SessionsSeen, HeldSeen
<1> QED
  BY <1>3, <1>7 DEF Abstract!Next

(* The trie is nothing but a set of filters per session: every step of it       *)
(* opens, closes or ends one session, adds one filter to the session that asked *)
(* for it, takes one away, or changes nothing that can be seen.                 *)
THEOREM TrieCorrect == Spec => ImplementsSubscriptions
<1>1. Init => Abstract!Init
  <2> SUFFICES ASSUME Init PROVE Abstract!Init
    OBVIOUS
  <2>1. SessionsSeen = [c \in Slots |-> "FREE"]
    BY DEF Init, SessionsSeen
  <2>2. \A n \in NodeIdx : nodes[n].fd_bitmap = {}
    BY DEF Init, EmptyNode
  <2>3. \A c \in Slots : Held(c) = {}
    BY <2>2 DEF Held, Allocated, NodeIdx
  <2>4. HeldSeen = [c \in Slots |-> {}]
    BY <2>3 DEF HeldSeen
  <2> QED
    BY <2>1, <2>4 DEF Abstract!Init, SessionsSeen, HeldSeen
<1>2. LInv /\ [Next]_vars => [Abstract!Next]_(Abstract!vars)
  <2> SUFFICES ASSUME LInv, [Next]_vars PROVE Abstract!Next \/ UNCHANGED Abstract!vars
    OBVIOUS
  <2>1. IInv'
    BY NextIInv DEF LInv
  <2>2. ASSUME NEW c \in Slots, Accept(c) \/ SubmitClose(c) PROVE Abstract!Next
    BY <2>1, <2>2, AcceptRefines, SubmitCloseRefines DEF Abstract!Next
  <2>3. ASSUME NEW c \in Slots, NEW clean \in BOOLEAN, HandleClose(c, clean)
        PROVE  Abstract!Next
    BY <2>1, <2>3, CloseRefines DEF Abstract!Next
  <2>4. ASSUME clients' = clients, nodes' = nodes, free' = free PROVE UNCHANGED Abstract!vars
    BY <2>1, <2>4, SameHeld, SeenSame
  <2>5. ASSUME NEW c \in Slots, NEW kind, NEW asked, Receive(c, kind, asked)
        PROVE  UNCHANGED Abstract!vars
    BY <2>4, <2>5 DEF Receive
  <2>6. ASSUME Descend \/ Fail \/ Miss \/ Answer PROVE UNCHANGED Abstract!vars
    BY <2>4, <2>6 DEF Descend, Fail, Miss, Answer
  <2>7. ASSUME Grow PROVE UNCHANGED Abstract!vars
    <3>1. clients' = clients
      BY <2>7 DEF Grow
    <3> QED
      BY <2>1, <2>7, <3>1, LGrow, SeenSame
  <2>8. ASSUME Mark \/ Unmark PROVE Abstract!Next
    BY <2>1, <2>8, MarkRefines, UnmarkRefines
  <2>9. CASE UNCHANGED vars
    BY <2>4, <2>9 DEF vars
  <2> QED
    BY <2>2, <2>3, <2>5, <2>6, <2>7, <2>8, <2>9 DEF Next
<1> QED
  BY <1>1, <1>2, LInvAlways, PTL DEF Spec, ImplementsSubscriptions, Abstract!Spec

-------------------------------------------------------------------------------
(* Matching: what the recursion over the levels of a topic collects.           *)

(* The levels of a topic are levels, and there may be none.                    *)
LEMMA SegmentsTyped ==
  ASSUME NEW topic \in TopicNames
  PROVE  Segments(topic) \in Seq(Levels)
<1>1. topic \in Seq(Levels) /\ topic # << >>
  BY PacketAssumption
<1>2. Len(topic) \in Nat /\ Len(topic) > 0
  BY <1>1, EmptySeq, LenProperties
<1>3. SubSeq(topic, 1, Len(topic) - 1) \in Seq(Levels)
  BY <1>1, <1>2
<1> QED
  BY <1>1, <1>3 DEF Segments

(* What is collected from every node at level i, from what is at level i + 1. *)
RowOf(segs, i, row) ==
  [n \in NodeIdx |->
     MultiLevel(n)
       \o IF i > Len(segs)
          THEN IF nodes[n].sub_count > 0 THEN <<n>> ELSE << >>
          ELSE (IF nodes[n].plus_child = NoNode THEN << >> ELSE row[nodes[n].plus_child])
                 \o (IF ExactChild(n, segs[i]) = NoNode THEN << >>
                     ELSE row[ExactChild(n, segs[i])])]
Rows(segs, m, g) == g = [k \in m .. Len(segs) + 1 |-> RowOf(segs, k, g[k + 1])]

(* Nothing is read below the last level. *)
LEMMA LastRow ==
  ASSUME NEW segs, NEW k, k > Len(segs), NEW r, NEW s
  PROVE  RowOf(segs, k, r) = RowOf(segs, k, s)
BY DEF RowOf

(* The recursion ends: it has a value at every level.                          *)
LEMMA RowsExist ==
  ASSUME NEW segs \in Seq(Levels)
  PROVE  \E g : Rows(segs, 1, g)
<1> DEFINE L == Len(segs)
           Bad == {d \in 0 .. L : ~\E g : Rows(segs, L + 1 - d, g)}
<1>1. L \in Nat
  BY LenProperties
<1>2. Bad = {}
  <2> SUFFICES ASSUME Bad # {} PROVE FALSE
    OBVIOUS
  <2> DEFINE d == Least(Bad)
  <2>1. d \in Bad /\ \A j \in Bad : d <= j
    <3>1. Bad \subseteq Nat
      BY <1>1
    <3> HIDE DEF Bad
    <3> QED
      BY <3>1, LeastLemma
  <2>2. d \in 0 .. L /\ ~\E g : Rows(segs, L + 1 - d, g)
    BY <2>1
  <2> DEFINE m == L + 1 - d
  <2>3. m \in 1 .. L + 1
    BY <1>1, <2>2
  <2>4. CASE d = 0
    <3>1. PICK g : g = [k \in L + 1 .. L + 1 |-> RowOf(segs, k, << >>)]
      OBVIOUS
    <3>2. ASSUME NEW k \in L + 1 .. L + 1
          PROVE  RowOf(segs, k, << >>) = RowOf(segs, k, g[k + 1])
      <4>1. k > Len(segs)
        BY <1>1
      <4> QED
        BY <4>1, LastRow
    <3>3. g = [k \in L + 1 .. L + 1 |-> RowOf(segs, k, g[k + 1])]
      BY <3>1, <3>2
    <3>4. Rows(segs, L + 1, g)
      BY <3>3 DEF Rows
    <3>5. m = L + 1
      BY <1>1, <2>4
    <3> QED
      BY <2>2, <3>4, <3>5
  <2>5. CASE d # 0
    <3>1. m + 1 \in 1 .. L + 1 /\ m \in 1 .. L
      BY <1>1, <2>2, <2>3, <2>5
    <3>2. PICK g : Rows(segs, m + 1, g)
      <4>1. d - 1 \in 0 .. L /\ L + 1 - (d - 1) = m + 1 /\ ~(d <= d - 1)
        BY <1>1, <2>2, <2>5
      <4>2. d - 1 \notin Bad
        BY <2>1, <4>1
      <4> QED
        BY <4>1, <4>2
    <3>3. g = [k \in m + 1 .. L + 1 |-> RowOf(segs, k, g[k + 1])]
      BY <3>2 DEF Rows
    <3>4. PICK h : h = [k \in m .. L + 1 |-> IF k = m THEN RowOf(segs, m, g[m + 1]) ELSE g[k]]
      OBVIOUS
    <3> HIDE DEF L, Bad, d, m
    <3>5. \A k \in m + 1 .. L + 1 : h[k] = g[k]
      BY <1>1, <2>3, <3>4
    <3>6. ASSUME NEW k \in m .. L + 1
          PROVE  h[k] = RowOf(segs, k, h[k + 1])
      <4>1. CASE k = m
        <5>1. h[m] = RowOf(segs, m, g[m + 1]) /\ h[m + 1] = g[m + 1]
          BY <1>1, <2>3, <3>1, <3>4, <3>5
        <5> QED
          BY <4>1, <5>1
      <4>2. CASE k # m /\ k # L + 1
        <5>1. k \in m + 1 .. L + 1 /\ k + 1 \in m + 1 .. L + 1
          BY <1>1, <2>3, <4>2
        <5>2. g[k] = RowOf(segs, k, g[k + 1])
          BY <3>3, <5>1
        <5> QED
          BY <3>5, <5>1, <5>2
      <4>3. CASE k # m /\ k = L + 1
        <5>1. k \in m + 1 .. L + 1 /\ k > Len(segs)
          BY <1>1, <2>3, <4>3 DEF L
        <5>2. h[k] = RowOf(segs, k, g[k + 1])
          BY <3>3, <3>5, <5>1
        <5> QED
          BY <5>1, <5>2, LastRow
      <4> QED
        BY <4>1, <4>2, <4>3
    <3>7. h = [k \in m .. L + 1 |-> h[k]]
      BY <3>4
    <3>8. h = [k \in m .. L + 1 |-> RowOf(segs, k, h[k + 1])]
      BY <3>6, <3>7
    <3>9. Rows(segs, m, h)
      BY <3>8 DEF Rows, L
    <3> QED
      BY <2>2, <3>9 DEF m
  <2> QED
    BY <2>4, <2>5
<1>3. L \in 0 .. L /\ L + 1 - L = 1
  BY <1>1
<1> QED
  BY <1>2, <1>3

(* What is collected is the first row, at the root.                            *)
LEMMA MatchedIsRow ==
  ASSUME NEW segs \in Seq(Levels)
  PROVE  \E g : Rows(segs, 1, g) /\ MatchedFrom(segs) = g[1][Root]
<1> DEFINE g == CHOOSE g : g = [k \in 1 .. Len(segs) + 1 |-> RowOf(segs, k, g[k + 1])]
<1>1. PICK h : h = [k \in 1 .. Len(segs) + 1 |-> RowOf(segs, k, h[k + 1])]
  BY RowsExist DEF Rows
<1>2. g = [k \in 1 .. Len(segs) + 1 |-> RowOf(segs, k, g[k + 1])]
  BY <1>1
<1>3. MatchedFrom(segs) = g[1][Root]
  BY DEF MatchedFrom, RowOf
<1> HIDE DEF g
<1> QED
  BY <1>2, <1>3 DEF Rows

-------------------------------------------------------------------------------
(* Which filters fit a topic.                                                  *)

(* A filter fits from its level i on.                                          *)
Fits(p, segs, i) ==
  \/ Len(p) = Len(segs) /\ \A j \in i .. Len(p) : p[j] \in {"+", segs[j]}
  \/ /\ Len(p) >= i /\ p[Len(p)] = "#" /\ Len(segs) >= Len(p) - 1
     /\ \A j \in i .. Len(p) - 1 : p[j] \in {"+", segs[j]}

(* It fits from level i if it ends there in "#", or level i is matched and it   *)
(* fits from the next.                                                         *)
LEMMA FitsStep ==
  ASSUME NEW segs \in Seq(Levels), NEW p \in Seq(Levels), NEW i \in 1 .. Len(segs),
         Len(p) >= i - 1
  PROVE  Fits(p, segs, i) <=>
           \/ Len(p) = i /\ p[i] = "#"
           \/ Len(p) >= i /\ p[i] \in {"+", segs[i]} /\ Fits(p, segs, i + 1)
<1>1. Len(segs) \in Nat /\ Len(p) \in Nat /\ i \in Nat
  BY LenProperties
<1>2. ASSUME Fits(p, segs, i), ~(Len(p) = i /\ p[i] = "#")
      PROVE  Len(p) >= i /\ p[i] \in {"+", segs[i]} /\ Fits(p, segs, i + 1)
  <2>1. CASE Len(p) = Len(segs) /\ \A j \in i .. Len(p) : p[j] \in {"+", segs[j]}
    <3>1. i \in i .. Len(p) /\ \A j \in i + 1 .. Len(p) : j \in i .. Len(p)
      BY <1>1, <2>1
    <3> QED
      BY <1>1, <2>1, <3>1 DEF Fits
  <2>2. CASE /\ Len(p) >= i /\ p[Len(p)] = "#" /\ Len(segs) >= Len(p) - 1
             /\ \A j \in i .. Len(p) - 1 : p[j] \in {"+", segs[j]}
    <3>1. Len(p) >= i + 1
      BY <1>1, <1>2, <2>2
    <3>2. i \in i .. Len(p) - 1 /\ \A j \in i + 1 .. Len(p) - 1 : j \in i .. Len(p) - 1
      BY <1>1, <3>1
    <3> QED
      BY <1>1, <2>2, <3>1, <3>2 DEF Fits
  <2> QED
    BY <1>2, <2>1, <2>2 DEF Fits
<1>3. ASSUME Len(p) = i, p[i] = "#"
      PROVE  Fits(p, segs, i)
  BY <1>1, <1>3 DEF Fits
<1>4. ASSUME Len(p) >= i, p[i] \in {"+", segs[i]}, Fits(p, segs, i + 1)
      PROVE  Fits(p, segs, i)
  <2>1. \A j : j \in i .. Len(p) => j = i \/ j \in i + 1 .. Len(p)
    BY <1>1
  <2>2. \A j : j \in i .. Len(p) - 1 => j = i \/ j \in i + 1 .. Len(p) - 1
    BY <1>1
  <2> QED
    BY <1>1, <1>4, <2>1, <2>2 DEF Fits
<1> QED
  BY <1>2, <1>3, <1>4

(* At the end of the topic it fits if it ends there too, or has a "#" left.    *)
LEMMA FitsLast ==
  ASSUME NEW segs \in Seq(Levels), NEW p \in Seq(Levels), Len(p) >= Len(segs)
  PROVE  Fits(p, segs, Len(segs) + 1) <=>
           \/ Len(p) = Len(segs)
           \/ Len(p) = Len(segs) + 1 /\ p[Len(segs) + 1] = "#"
<1>1. Len(segs) \in Nat /\ Len(p) \in Nat
  BY LenProperties
<1> QED
  BY <1>1 DEF Fits

(* From the root, to fit is to match.                                          *)
LEMMA FitsMatch ==
  ASSUME NEW segs \in Seq(Levels), NEW p \in Seq(Levels)
  PROVE  Fits(p, segs, 1) <=> LevelsMatch(p, segs)
<1>1. Len(segs) \in Nat /\ Len(p) \in Nat /\ DOMAIN p = 1 .. Len(p)
  BY LenProperties
<1>2. p # << >> <=> Len(p) >= 1
  BY <1>1, EmptySeq
<1> QED
  BY <1>1, <1>2 DEF Fits, LevelsMatch

-------------------------------------------------------------------------------
(* Which nodes are below a node and fit.                                       *)

Under(P, segs, n, i) ==
  {m \in Used : nodes[m].sub_count > 0 /\ Extends(P[m], P[n]) /\ Fits(P[m], segs, i)}

(* Below a child is below its parent, with the child's name next.              *)
LEMMA BelowChild ==
  ASSUME IInv, NEW P, PathsOf(nodes, P), NEW q \in Allocated, NEW m \in Used
  PROVE  LET n == nodes[q].parent
         IN  Extends(P[m], P[q]) <=>
               /\ Extends(P[m], P[n]) /\ Len(P[m]) >= Len(P[n]) + 1
               /\ P[m][Len(P[n]) + 1] = nodes[q].name
<1> DEFINE n == nodes[q].parent
           l == nodes[q].name
<1>1. /\ n \in Used /\ Len(P[q]) = Len(P[n]) + 1 /\ Extends(P[q], P[n])
      /\ P[q][Len(P[q])] = l
  BY ChildFacts
<1>2. Len(P[n]) \in Nat /\ Len(P[m]) \in Nat
  BY <1>1, PathFacts
<1> HIDE DEF n, l
<1>3. ASSUME Extends(P[m], P[q])
      PROVE  Extends(P[m], P[n]) /\ Len(P[m]) >= Len(P[n]) + 1 /\ P[m][Len(P[n]) + 1] = l
  <2>1. /\ \A j \in 1 .. Len(P[n]) : j \in 1 .. Len(P[q])
        /\ Len(P[n]) + 1 \in 1 .. Len(P[q])
    BY <1>1, <1>2
  <2> QED
    BY <1>1, <1>2, <1>3, <2>1 DEF Extends
<1>4. ASSUME Extends(P[m], P[n]), Len(P[m]) >= Len(P[n]) + 1, P[m][Len(P[n]) + 1] = l
      PROVE  Extends(P[m], P[q])
  <2>1. ASSUME NEW j \in 1 .. Len(P[q]) PROVE P[m][j] = P[q][j]
    <3>1. j \in 1 .. Len(P[n]) \/ j = Len(P[n]) + 1
      BY <1>1, <1>2
    <3> QED
      BY <1>1, <1>2, <1>4, <3>1 DEF Extends
  <2> QED
    BY <1>1, <1>4, <2>1 DEF Extends
<1> QED
  BY <1>3, <1>4 DEF n, l

(* Two paths of which one extends the other and is no longer are the same node's. *)
LEMMA SamePath ==
  ASSUME IInv, NEW P, PathsOf(nodes, P), NEW n \in Used, NEW m \in Used,
         Extends(P[m], P[n]), Len(P[m]) <= Len(P[n])
  PROVE  m = n
<1>1. /\ P[n] \in Seq(Levels) /\ P[m] \in Seq(Levels) /\ Len(P[n]) \in Nat /\ Len(P[m]) \in Nat
  BY PathFacts
<1>2. Len(P[m]) = Len(P[n])
  BY <1>1 DEF Extends
<1>3. \A j \in 1 .. Len(P[m]) : P[m][j] = P[n][j]
  BY <1>2 DEF Extends
<1>4. P[m] = P[n]
  BY <1>1, <1>2, <1>3, SeqExtensional
<1> QED
  BY <1>4, PathInjective

(* The '#' child of a node, if it has subscribers.                             *)
MultiSet(n) == {m \in {nodes[n].hash_child} : m # NoNode /\ nodes[m].sub_count > 0}

LEMMA MultiIs ==
  ASSUME IInv, LinksOK, NEW P, PathsOf(nodes, P), NEW n \in Used, NEW m \in Used
  PROVE  m \in MultiSet(n) <=>
           /\ nodes[m].sub_count > 0 /\ Extends(P[m], P[n])
           /\ Len(P[m]) = Len(P[n]) + 1 /\ P[m][Len(P[n]) + 1] = "#"
<1>1. n \in NodeIdx /\ Len(P[n]) \in Nat /\ Len(P[m]) \in Nat
  BY PathFacts
<1>2. ASSUME m \in MultiSet(n)
      PROVE  /\ nodes[m].sub_count > 0 /\ Extends(P[m], P[n])
             /\ Len(P[m]) = Len(P[n]) + 1 /\ P[m][Len(P[n]) + 1] = "#"
  <2>1. m = nodes[n].hash_child /\ m # NoNode /\ nodes[m].sub_count > 0
    BY <1>2 DEF MultiSet
  <2>2. m \in Allocated /\ nodes[m].parent = n /\ nodes[m].name = "#"
    BY <1>1, <2>1 DEF LinksOK
  <2>3. /\ Len(P[m]) = Len(P[n]) + 1 /\ Extends(P[m], P[n]) /\ P[m][Len(P[m])] = "#"
    BY <2>2, ChildFacts
  <2> QED
    BY <2>1, <2>3
<1>3. ASSUME nodes[m].sub_count > 0, Extends(P[m], P[n]),
             Len(P[m]) = Len(P[n]) + 1, P[m][Len(P[n]) + 1] = "#"
      PROVE  m \in MultiSet(n)
  <2>1. Len(P[n]) < Len(P[m])
    BY <1>1, <1>3
  <2>2. PICK q \in Allocated :
          /\ nodes[q].parent = n /\ nodes[q].name = "#"
          /\ Extends(P[m], P[q]) /\ Len(P[q]) = Len(P[n]) + 1
    BY <1>3, <2>1, ChildOnPath
  <2>3. nodes[n].hash_child = q /\ q # NoNode /\ q \in Used
    BY <2>2, NodesAssumption DEF IInv, ChildrenFindable, Allocated, NoNode, Used
  <2>4. m = q
    BY <1>1, <1>3, <2>2, <2>3, SamePath
  <2> QED
    BY <1>3, <2>3, <2>4 DEF MultiSet
<1> QED
  BY <1>2, <1>3

(* At the end of the topic: the node itself and its '#' child. *)
LEMMA UnderLast ==
  ASSUME IInv, LinksOK, NEW P, PathsOf(nodes, P), NEW segs \in Seq(Levels),
         NEW n \in Used, Len(P[n]) = Len(segs)
  PROVE  Under(P, segs, n, Len(segs) + 1) =
           MultiSet(n) \cup {m \in {n} : nodes[m].sub_count > 0}
<1>1. MultiSet(n) \subseteq Used
  <2>1. n \in NodeIdx
    BY PathFacts
  <2> QED
    BY <2>1 DEF MultiSet, LinksOK, Used
<1>2. ASSUME NEW m \in Used
      PROVE  m \in Under(P, segs, n, Len(segs) + 1) <=>
               m \in MultiSet(n) \/ (m = n /\ nodes[m].sub_count > 0)
  <2>1. /\ P[m] \in Seq(Levels) /\ Len(P[m]) \in Nat /\ Len(segs) \in Nat
    BY PathFacts, LenProperties
  <2>2. m \in MultiSet(n) <=>
          /\ nodes[m].sub_count > 0 /\ Extends(P[m], P[n])
          /\ Len(P[m]) = Len(segs) + 1 /\ P[m][Len(segs) + 1] = "#"
    BY MultiIs
  <2>3. m = n <=> Extends(P[m], P[n]) /\ Len(P[m]) = Len(segs)
    <3>1. m = n => Extends(P[m], P[n]) /\ Len(P[m]) = Len(segs)
      BY <2>1 DEF Extends
    <3>2. Extends(P[m], P[n]) /\ Len(P[m]) = Len(segs) => m = n
      BY <2>1, SamePath
    <3> QED
      BY <3>1, <3>2
  <2>4. Extends(P[m], P[n]) =>
          (Fits(P[m], segs, Len(segs) + 1) <=>
             \/ Len(P[m]) = Len(segs)
             \/ Len(P[m]) = Len(segs) + 1 /\ P[m][Len(segs) + 1] = "#")
    <3>1. Extends(P[m], P[n]) => Len(P[m]) >= Len(segs)
      BY <2>1 DEF Extends
    <3> QED
      BY <2>1, <3>1, FitsLast
  <2> QED
    BY <2>2, <2>3, <2>4 DEF Under
<1> QED
  BY <1>1, <1>2 DEF Under

(* The nodes below a child, if there is one. *)
UnderChild(P, segs, q, i) == IF q = NoNode THEN {} ELSE Under(P, segs, q, i)

(* Before the end: the '#' child, and what is below the '+' child and below the *)
(* child named like the topic's level.                                         *)
LEMMA UnderStep ==
  ASSUME IInv, LinksOK, NEW P, PathsOf(nodes, P), NEW segs \in Seq(Levels),
         NEW i \in 1 .. Len(segs), NEW n \in Used, Len(P[n]) = i - 1
  PROVE  Under(P, segs, n, i) =
           MultiSet(n) \cup UnderChild(P, segs, nodes[n].plus_child, i + 1)
                       \cup UnderChild(P, segs, ExactChild(n, segs[i]), i + 1)
<1> DEFINE plus == nodes[n].plus_child
           exact == ExactChild(n, segs[i])
<1>1. /\ n \in NodeIdx /\ i \in Nat /\ Len(segs) \in Nat /\ segs[i] \in Levels
      /\ Len(P[n]) + 1 = i
  BY PathFacts, LenProperties, ElementOfSeq
<1>2. plus # NoNode => plus \in Allocated /\ nodes[plus].parent = n /\ nodes[plus].name = "+"
  BY <1>1 DEF LinksOK
<1>3. exact # NoNode =>
        exact \in Allocated /\ nodes[exact].parent = n /\ nodes[exact].name = segs[i]
  BY <1>1, FoundIs DEF ExactChild
<1> HIDE DEF plus, exact
<1>4. MultiSet(n) \subseteq Used
  BY <1>1 DEF MultiSet, LinksOK, Used
<1>5. ASSUME NEW m \in Used
      PROVE  m \in Under(P, segs, n, i) <=>
               \/ m \in MultiSet(n)
               \/ m \in UnderChild(P, segs, plus, i + 1)
               \/ m \in UnderChild(P, segs, exact, i + 1)
  <2> DEFINE p == P[m]
  <2>1. p \in Seq(Levels) /\ Len(p) \in Nat
    BY PathFacts
  <2>2. m \in MultiSet(n) <=>
          nodes[m].sub_count > 0 /\ Extends(p, P[n]) /\ Len(p) = i /\ p[i] = "#"
    BY <1>1, MultiIs
  <2>3. Extends(p, P[n]) =>
          (Fits(p, segs, i) <=>
             \/ Len(p) = i /\ p[i] = "#"
             \/ Len(p) >= i /\ p[i] \in {"+", segs[i]} /\ Fits(p, segs, i + 1))
    <3>1. Extends(p, P[n]) => Len(p) >= i - 1
      BY DEF Extends
    <3> QED
      BY <2>1, <3>1, FitsStep
  <2>4. ASSUME NEW q \in Allocated, nodes[q].parent = n
        PROVE  m \in Under(P, segs, q, i + 1) <=>
                 /\ nodes[m].sub_count > 0 /\ Extends(p, P[n]) /\ Len(p) >= i
                 /\ p[i] = nodes[q].name /\ Fits(p, segs, i + 1)
    <3>1. Extends(p, P[q]) <=>
            Extends(p, P[n]) /\ Len(p) >= i /\ p[i] = nodes[q].name
      BY <1>1, <2>4, BelowChild
    <3> QED
      BY <3>1 DEF Under
  <2>5. ASSUME Extends(p, P[n]), Len(p) >= i, p[i] \in {"+", segs[i]}
        PROVE  \/ plus # NoNode /\ p[i] = "+"
               \/ exact # NoNode /\ p[i] = segs[i]
    <3>1. Len(P[n]) < Len(p)
      BY <1>1, <2>1, <2>5
    <3>2. PICK q \in Allocated :
            /\ nodes[q].parent = n /\ nodes[q].name = p[i] /\ FindChild(n, p[i]) = q
      BY <1>1, <2>5, <3>1, ChildOnPath
    <3>3. q # NoNode
      BY NodesAssumption DEF Allocated, NoNode
    <3>4. CASE p[i] = "+"
      BY <3>2, <3>3, <3>4 DEF IInv, ChildrenFindable, plus
    <3>5. CASE p[i] = segs[i]
      <4>1. Cut[segs[i]] = segs[i]
        BY <3>2, <3>5 DEF LinksOK
      <4> QED
        BY <3>2, <3>3, <3>5, <4>1 DEF ExactChild, exact
    <3> QED
      BY <2>5, <3>4, <3>5
  <2>6. m \in UnderChild(P, segs, plus, i + 1) <=>
          /\ plus # NoNode /\ nodes[m].sub_count > 0 /\ Extends(p, P[n]) /\ Len(p) >= i
          /\ p[i] = "+" /\ Fits(p, segs, i + 1)
    BY <1>2, <2>4 DEF UnderChild
  <2>7. m \in UnderChild(P, segs, exact, i + 1) <=>
          /\ exact # NoNode /\ nodes[m].sub_count > 0 /\ Extends(p, P[n]) /\ Len(p) >= i
          /\ p[i] = segs[i] /\ Fits(p, segs, i + 1)
    BY <1>3, <2>4 DEF UnderChild
  <2>8. m \in Under(P, segs, n, i) <=>
          nodes[m].sub_count > 0 /\ Extends(p, P[n]) /\ Fits(p, segs, i)
    BY DEF Under
  <2> HIDE DEF p
  <2> QED
    BY <2>2, <2>3, <2>5, <2>6, <2>7, <2>8
<1>6. Under(P, segs, n, i) \subseteq Used /\ UnderChild(P, segs, plus, i + 1) \subseteq Used
      /\ UnderChild(P, segs, exact, i + 1) \subseteq Used
  BY DEF Under, UnderChild
<1> QED
  BY <1>4, <1>5, <1>6 DEF plus, exact

-------------------------------------------------------------------------------
(* What matching finds.                                                        *)

Elements(s) == {s[j] : j \in 1 .. Len(s)}

LEMMA ElementsConcat ==
  ASSUME NEW s \in Seq(NodeIdx), NEW t \in Seq(NodeIdx)
  PROVE  s \o t \in Seq(NodeIdx) /\ Elements(s \o t) = Elements(s) \cup Elements(t)
<1>1. /\ s \o t \in Seq(NodeIdx) /\ Len(s \o t) = Len(s) + Len(t)
      /\ \A j \in 1 .. Len(s) + Len(t) :
           (s \o t)[j] = IF j <= Len(s) THEN s[j] ELSE t[j - Len(s)]
  BY ConcatProperties
<1>2. Len(s) \in Nat /\ Len(t) \in Nat
  BY LenProperties
<1>3. ASSUME NEW x \in Elements(s \o t)
      PROVE  x \in Elements(s) \cup Elements(t)
  <2>1. PICK j \in 1 .. Len(s) + Len(t) : x = (s \o t)[j]
    BY <1>1 DEF Elements
  <2>2. CASE j <= Len(s)
    BY <1>1, <1>2, <2>1, <2>2 DEF Elements
  <2>3. CASE j > Len(s)
    <3>1. j - Len(s) \in 1 .. Len(t) /\ x = t[j - Len(s)]
      BY <1>1, <1>2, <2>1, <2>3
    <3> QED
      BY <3>1 DEF Elements
  <2> QED
    BY <1>2, <2>2, <2>3
<1>4. ASSUME NEW j \in 1 .. Len(s)
      PROVE  s[j] \in Elements(s \o t)
  <2>1. j \in 1 .. Len(s) + Len(t) /\ (s \o t)[j] = s[j]
    BY <1>1, <1>2
  <2> QED
    BY <1>1, <2>1 DEF Elements
<1>5. ASSUME NEW j \in 1 .. Len(t)
      PROVE  t[j] \in Elements(s \o t)
  <2>1. j + Len(s) \in 1 .. Len(s) + Len(t) /\ ~(j + Len(s) <= Len(s)) /\ j + Len(s) - Len(s) = j
    BY <1>2
  <2>2. (s \o t)[j + Len(s)] = t[j]
    BY <1>1, <2>1
  <2> QED
    BY <1>1, <2>1, <2>2 DEF Elements
<1> QED
  BY <1>1, <1>3, <1>4, <1>5 DEF Elements

LEMMA ElementsOne ==
  /\ << >> \in Seq(NodeIdx) /\ Elements(<< >>) = {}
  /\ \A n \in NodeIdx : <<n>> \in Seq(NodeIdx) /\ Elements(<<n>>) = {n}
<1>1. << >> \in Seq(NodeIdx) /\ Len(<< >>) = 0
  BY EmptySeq
<1>2. Elements(<< >>) = {}
  BY <1>1 DEF Elements
<1>3. ASSUME NEW n \in NodeIdx
      PROVE  <<n>> \in Seq(NodeIdx) /\ Elements(<<n>>) = {n}
  <2>1. <<n>> \in Seq(NodeIdx) /\ Len(<<n>>) = 1 /\ <<n>>[1] = n
    OBVIOUS
  <2> QED
    BY <2>1 DEF Elements
<1> QED
  BY <1>1, <1>2, <1>3

LEMMA MultiElements ==
  ASSUME IInv, NEW n \in NodeIdx
  PROVE  MultiLevel(n) \in Seq(NodeIdx) /\ Elements(MultiLevel(n)) = MultiSet(n)
<1>1. nodes[n].hash_child \in NodeIdx
  BY DEF IInv, TypeOK, Node
<1> QED
  BY <1>1, ElementsOne DEF MultiLevel, MultiSet

(* The recursion collects, at every node that lies as deep as the levels that   *)
(* were read, the nodes below it whose filters fit the rest.                   *)
Collects(P, segs, g, i) ==
  \A n \in Used : Len(P[n]) = i - 1 =>
    g[i][n] \in Seq(NodeIdx) /\ Elements(g[i][n]) = Under(P, segs, n, i)

LEMMA CollectsLast ==
  ASSUME IInv, LinksOK, NEW P, PathsOf(nodes, P), NEW segs \in Seq(Levels), NEW g,
         Rows(segs, 1, g)
  PROVE  Collects(P, segs, g, Len(segs) + 1)
<1> DEFINE L == Len(segs)
<1>1. L \in Nat
  BY LenProperties
<1>2. g[L + 1] = RowOf(segs, L + 1, g[L + 1 + 1])
  <2>1. L + 1 \in 1 .. L + 1
    BY <1>1
  <2> QED
    BY <2>1 DEF Rows
<1>3. ASSUME NEW n \in Used, Len(P[n]) = L
      PROVE  /\ g[L + 1][n] \in Seq(NodeIdx)
             /\ Elements(g[L + 1][n]) = Under(P, segs, n, L + 1)
  <2> DEFINE own == IF nodes[n].sub_count > 0 THEN <<n>> ELSE << >>
  <2>1. n \in NodeIdx
    BY PathFacts
  <2>2. L + 1 > Len(segs)
    BY <1>1
  <2>3. g[L + 1][n] = MultiLevel(n) \o own
    BY <1>2, <2>1, <2>2 DEF RowOf
  <2>4. own \in Seq(NodeIdx) /\ Elements(own) = {m \in {n} : nodes[m].sub_count > 0}
    BY <2>1, ElementsOne
  <2> HIDE DEF own
  <2>5. MultiLevel(n) \in Seq(NodeIdx) /\ Elements(MultiLevel(n)) = MultiSet(n)
    BY <2>1, MultiElements
  <2>6. /\ g[L + 1][n] \in Seq(NodeIdx)
        /\ Elements(g[L + 1][n]) = MultiSet(n) \cup {m \in {n} : nodes[m].sub_count > 0}
    BY <2>3, <2>4, <2>5, ElementsConcat
  <2> QED
    BY <1>3, <2>6, UnderLast
<1>4. L + 1 - 1 = L
  BY <1>1
<1> QED
  BY <1>3, <1>4 DEF Collects

LEMMA CollectsStep ==
  ASSUME IInv, LinksOK, NEW P, PathsOf(nodes, P), NEW segs \in Seq(Levels), NEW g,
         Rows(segs, 1, g), NEW i \in 1 .. Len(segs), Collects(P, segs, g, i + 1)
  PROVE  Collects(P, segs, g, i)
<1>1. Len(segs) \in Nat /\ i \in Nat /\ i \in 1 .. Len(segs) + 1 /\ ~(i > Len(segs))
      /\ segs[i] \in Levels
  BY LenProperties, ElementOfSeq
<1>2. g[i] = RowOf(segs, i, g[i + 1])
  BY <1>1 DEF Rows
<1> DEFINE Part(q) == IF q = NoNode THEN << >> ELSE g[i + 1][q]
<1>3. ASSUME NEW n \in Used, Len(P[n]) = i - 1, NEW q, q = NoNode \/ (q \in Allocated /\ nodes[q].parent = n)
      PROVE  Part(q) \in Seq(NodeIdx) /\ Elements(Part(q)) = UnderChild(P, segs, q, i + 1)
  <2>1. CASE q = NoNode
    BY <2>1, ElementsOne DEF UnderChild
  <2>2. CASE q # NoNode
    <3>1. q \in Used /\ Len(P[q]) = Len(P[n]) + 1
      BY <1>3, <2>2, ChildFacts
    <3>2. Len(P[q]) = i + 1 - 1
      BY <1>1, <1>3, <3>1
    <3> QED
      BY <2>2, <3>1, <3>2 DEF Collects, UnderChild
  <2> QED
    BY <2>1, <2>2
<1>4. ASSUME NEW n \in Used, Len(P[n]) = i - 1
      PROVE  g[i][n] \in Seq(NodeIdx) /\ Elements(g[i][n]) = Under(P, segs, n, i)
  <2> DEFINE plus == nodes[n].plus_child
             exact == ExactChild(n, segs[i])
  <2>1. n \in NodeIdx
    BY PathFacts
  <2>2. g[i][n] = MultiLevel(n) \o (Part(plus) \o Part(exact))
    BY <1>1, <1>2, <2>1 DEF RowOf
  <2>3. plus = NoNode \/ (plus \in Allocated /\ nodes[plus].parent = n)
    BY <2>1 DEF LinksOK
  <2>4. exact = NoNode \/ (exact \in Allocated /\ nodes[exact].parent = n)
    BY <1>1, <2>1, FoundIs DEF ExactChild
  <2> HIDE DEF plus, exact
  <2>5. Part(plus) \in Seq(NodeIdx) /\ Elements(Part(plus)) = UnderChild(P, segs, plus, i + 1)
    BY <1>3, <1>4, <2>3
  <2>6. Part(exact) \in Seq(NodeIdx) /\ Elements(Part(exact)) = UnderChild(P, segs, exact, i + 1)
    BY <1>3, <1>4, <2>4
  <2>7. MultiLevel(n) \in Seq(NodeIdx) /\ Elements(MultiLevel(n)) = MultiSet(n)
    BY <2>1, MultiElements
  <2> HIDE DEF Part
  <2>8. /\ Part(plus) \o Part(exact) \in Seq(NodeIdx)
        /\ Elements(Part(plus) \o Part(exact)) = Elements(Part(plus)) \cup Elements(Part(exact))
    BY <2>5, <2>6, ElementsConcat
  <2>9. /\ g[i][n] \in Seq(NodeIdx)
        /\ Elements(g[i][n]) = Elements(MultiLevel(n)) \cup Elements(Part(plus) \o Part(exact))
    BY <2>2, <2>7, <2>8, ElementsConcat
  <2>10. Under(P, segs, n, i) =
           MultiSet(n) \cup UnderChild(P, segs, plus, i + 1) \cup UnderChild(P, segs, exact, i + 1)
    BY <1>4, UnderStep DEF plus, exact
  <2> QED
    BY <2>5, <2>6, <2>7, <2>8, <2>9, <2>10
<1> QED
  BY <1>4 DEF Collects

LEMMA CollectsAll ==
  ASSUME IInv, LinksOK, NEW P, PathsOf(nodes, P), NEW segs \in Seq(Levels), NEW g,
         Rows(segs, 1, g)
  PROVE  Collects(P, segs, g, 1)
<1> DEFINE L == Len(segs)
           Bad == {d \in 0 .. L : ~Collects(P, segs, g, L + 1 - d)}
<1>1. L \in Nat
  BY LenProperties
<1>2. Bad = {}
  <2> SUFFICES ASSUME Bad # {} PROVE FALSE
    OBVIOUS
  <2> DEFINE d == Least(Bad)
  <2>1. d \in Bad /\ \A j \in Bad : d <= j
    <3>1. Bad \subseteq Nat
      BY <1>1
    <3> HIDE DEF Bad
    <3> QED
      BY <3>1, LeastLemma
  <2> HIDE DEF d
  <2>2. d \in 0 .. L /\ ~Collects(P, segs, g, L + 1 - d)
    BY <2>1
  <2>3. d # 0
    <3>1. Collects(P, segs, g, L + 1)
      BY CollectsLast
    <3>2. d = 0 => L + 1 - d = L + 1
      BY <1>1
    <3> QED
      BY <2>2, <3>1, <3>2
  <2> DEFINE i == L + 1 - d
  <2>4. i \in 1 .. L /\ d - 1 \in 0 .. L /\ L + 1 - (d - 1) = i + 1 /\ ~(d <= d - 1)
    BY <1>1, <2>2, <2>3
  <2>5. d - 1 \notin Bad
    BY <2>1, <2>4
  <2>6. Collects(P, segs, g, L + 1 - (d - 1))
    BY <2>4, <2>5
  <2>7. Collects(P, segs, g, i + 1)
    BY <2>4, <2>6
  <2>8. Collects(P, segs, g, i)
    <3> HIDE DEF i
    <3> QED
      BY <2>4, <2>7, CollectsStep
  <2> QED
    BY <2>2, <2>8
<1>3. L \in 0 .. L /\ L + 1 - L = 1
  BY <1>1
<1> QED
  BY <1>2, <1>3

(* Matching finds the nodes that have subscribers and whose filters match.     *)
LEMMA MatchedLemma ==
  ASSUME IInv, LinksOK, NEW P, PathsOf(nodes, P), NEW segs \in Seq(Levels)
  PROVE  /\ MatchedFrom(segs) \in Seq(NodeIdx)
         /\ Elements(MatchedFrom(segs)) =
              {m \in Used : nodes[m].sub_count > 0 /\ LevelsMatch(P[m], segs)}
<1>1. PICK g : Rows(segs, 1, g) /\ MatchedFrom(segs) = g[1][Root]
  BY MatchedIsRow
<1>2. Collects(P, segs, g, 1)
  BY <1>1, CollectsAll
<1>3. Root \in Used /\ P[Root] = << >> /\ Len(P[Root]) = 1 - 1
  BY EmptySeq DEF Used, PathsOf
<1>4. /\ MatchedFrom(segs) \in Seq(NodeIdx)
      /\ Elements(MatchedFrom(segs)) = Under(P, segs, Root, 1)
  BY <1>1, <1>2, <1>3 DEF Collects
<1>5. ASSUME NEW m \in Used
      PROVE  Extends(P[m], P[Root]) /\ (Fits(P[m], segs, 1) <=> LevelsMatch(P[m], segs))
  <2>1. P[m] \in Seq(Levels) /\ Len(P[m]) \in Nat
    BY PathFacts
  <2> QED
    BY <1>3, <2>1, FitsMatch DEF Extends
<1> QED
  BY <1>4, <1>5 DEF Under

(* The clients that a PUBLISH goes to are the active ones in the bitmaps that   *)
(* were found: no entry is of an earlier connection of its slot.               *)
LEMMA TargetsLemma ==
  ASSUME IInv, MarksOK, NEW topic, Matches(topic) \in Seq(NodeIdx)
  PROVE  Targets(topic) =
           {c \in Slots : /\ clients[c].state = "ACTIVE"
                          /\ \E m \in Elements(Matches(topic)) : c \in nodes[m].fd_bitmap}
<1>1. PICK found : found = Matches(topic)
  OBVIOUS
<1>2. /\ found \in Seq(NodeIdx) /\ DOMAIN found = 1 .. Len(found) /\ Len(found) \in Nat
      /\ \A j \in 1 .. Len(found) : found[j] \in NodeIdx
  BY <1>1, LenProperties, ElementOfSeq
<1>3. \A n \in NodeIdx : nodes[n].fd_bitmap \subseteq Slots
  BY DEF IInv, TypeOK, Node
<1> DEFINE In(c) == {j \in DOMAIN found : c \in nodes[found[j]].fd_bitmap}
<1>4. ASSUME NEW c, NEW i \in In(c)
      PROVE  /\ Least(In(c)) \in In(c)
             /\ nodes[found[Least(In(c))]].fd_gen[c] = clients[c].generation
  <2>1. In(c) \subseteq Nat /\ In(c) # {}
    BY <1>2, <1>4
  <2>2. Least(In(c)) \in In(c)
    <3> HIDE DEF In
    <3> QED
      BY <2>1, LeastLemma
  <2> DEFINE j == Least(In(c))
  <2>3. found[j] \in NodeIdx /\ c \in nodes[found[j]].fd_bitmap
    BY <1>2, <2>2
  <2> HIDE DEF j, In
  <2>4. nodes[found[j]].fd_gen[c] = clients[c].generation
    BY <2>3 DEF MarksOK
  <2> QED
    BY <2>2, <2>4 DEF j
<1>5. Targets(topic) =
        {c \in UNION {nodes[found[j]].fd_bitmap : j \in DOMAIN found} :
           /\ clients[c].state = "ACTIVE"
           /\ nodes[found[Least(In(c))]].fd_gen[c] = clients[c].generation}
  BY <1>1 DEF Targets
<1>6. \A c : c \in UNION {nodes[found[j]].fd_bitmap : j \in DOMAIN found} <=> \E j : j \in In(c)
  OBVIOUS
<1>7. \A c : (\E j : j \in In(c)) <=> \E m \in Elements(found) : c \in nodes[m].fd_bitmap
  BY <1>2 DEF Elements
<1>8. \A c : (\E j : j \in In(c)) => c \in Slots
  BY <1>2, <1>3
<1> HIDE DEF In
<1>9. ASSUME NEW c
      PROVE  c \in Targets(topic) <=>
               /\ clients[c].state = "ACTIVE" /\ c \in Slots
               /\ \E m \in Elements(found) : c \in nodes[m].fd_bitmap
  BY <1>4, <1>5, <1>6, <1>7, <1>8
<1>10. \A c \in Targets(topic) : c \in Slots
  BY <1>9
<1> QED
  BY <1>1, <1>9, <1>10

LEMMA MatchesLemma ==
  ASSUME NEW topic, MatchedFrom(Segments(topic)) \in Seq(NodeIdx)
  PROVE  /\ Matches(topic) \in Seq(NodeIdx)
         /\ Elements(Matches(topic)) \subseteq Elements(MatchedFrom(Segments(topic)))
         /\ Len(MatchedFrom(Segments(topic))) <= MaxMatches =>
              Matches(topic) = MatchedFrom(Segments(topic))
<1> DEFINE all == MatchedFrom(Segments(topic))
<1>1. /\ Len(all) \in Nat /\ MaxMatches \in Nat
      /\ \A j \in 1 .. Len(all) : all[j] \in NodeIdx
  BY LenProperties, ElementOfSeq, SizeAssumption
<1>2. Matches(topic) = IF Len(all) > MaxMatches THEN SubSeq(all, 1, MaxMatches) ELSE all
  BY DEF Matches
<1> HIDE DEF all
<1>3. CASE Len(all) > MaxMatches
  <2>1. \A j \in 1 .. MaxMatches : all[j] \in NodeIdx
    BY <1>1, <1>3
  <2> DEFINE part == SubSeq(all, 1, MaxMatches)
  <2>2. /\ part \in Seq(NodeIdx)
        /\ Len(part) = IF 1 <= MaxMatches THEN MaxMatches - 1 + 1 ELSE 0
        /\ \A j \in 1 .. MaxMatches - 1 + 1 : part[j] = all[1 + j - 1]
    BY <1>1, <2>1, SubSeqProperties
  <2>3. Len(part) = MaxMatches
    BY <1>1, <2>2
  <2>4. \A j \in 1 .. MaxMatches : part[j] = all[j] /\ j \in 1 .. Len(all)
    BY <1>1, <1>3, <2>2
  <2> HIDE DEF part
  <2>5. Elements(part) \subseteq Elements(all)
    BY <2>3, <2>4 DEF Elements
  <2>6. Matches(topic) = part /\ ~(Len(all) <= MaxMatches)
    BY <1>1, <1>2, <1>3 DEF part
  <2> QED
    BY <2>2, <2>5, <2>6 DEF all
<1>4. CASE ~(Len(all) > MaxMatches)
  <2>1. Matches(topic) = all
    BY <1>2, <1>4
  <2> QED
    BY <2>1 DEF all
<1> QED
  BY <1>3, <1>4

(* The clients that a PUBLISH reaches hold a key that matches its topic, and     *)
(* when the result has room for all the nodes that match they are all of those. *)
LEMMA RoutingLemma ==
  ASSUME LInv, NEW t \in TopicNames,
         NEW wanted, wanted = {c \in Slots : /\ clients[c].state = "ACTIVE"
                                            /\ \E k \in Held(c) : LevelsMatch(k, Segments(t))}
  PROVE  /\ Targets(t) \subseteq wanted
         /\ Len(MatchedFrom(Segments(t))) <= MaxMatches => Targets(t) = wanted
<1> DEFINE segs == Segments(t)
           reached == {c \in Slots : /\ clients[c].state = "ACTIVE"
                                     /\ \E m \in Elements(MatchedFrom(segs)) :
                                          c \in nodes[m].fd_bitmap}
<1>1. PICK P : PathsOf(nodes, P)
  BY DEF LInv, Tree
<1>2. IInv /\ LinksOK /\ MarksOK
  BY <1>1, LNow
<1>3. /\ MatchedFrom(segs) \in Seq(NodeIdx)
      /\ Elements(MatchedFrom(segs)) =
           {m \in Used : nodes[m].sub_count > 0 /\ LevelsMatch(P[m], segs)}
  BY <1>1, <1>2, SegmentsTyped, MatchedLemma
<1>4. /\ Matches(t) \in Seq(NodeIdx)
      /\ Elements(Matches(t)) \subseteq Elements(MatchedFrom(segs))
      /\ Len(MatchedFrom(segs)) <= MaxMatches => Matches(t) = MatchedFrom(segs)
  BY <1>3, MatchesLemma
<1>5. Targets(t) = {c \in Slots : /\ clients[c].state = "ACTIVE"
                                  /\ \E m \in Elements(Matches(t)) : c \in nodes[m].fd_bitmap}
  BY <1>2, <1>4, TargetsLemma
<1>6. ASSUME NEW c \in Slots
      PROVE  (\E m \in Elements(MatchedFrom(segs)) : c \in nodes[m].fd_bitmap)
               <=> \E k \in Held(c) : LevelsMatch(k, segs)
  <2>1. Held(c) = HeldIn(nodes, P, c)
    BY <1>1, <1>2, HeldNow
  <2>2. ASSUME NEW m \in NodeIdx, c \in nodes[m].fd_bitmap
        PROVE  m \in Used /\ nodes[m].sub_count > 0
    <3>1. /\ nodes[m].fd_bitmap \in SUBSET Slots
          /\ nodes[m].sub_count = Cardinality(nodes[m].fd_bitmap)
          /\ m \notin free
      BY <1>2, <2>2 DEF IInv, TypeOK, Node, SubCountExact
    <3>2. Cardinality(nodes[m].fd_bitmap) > 0
      BY <2>2, <3>1, CountLemma
    <3> QED
      BY <3>1, <3>2 DEF Used, Allocated, NodeIdx
  <2>3. Used \subseteq NodeIdx
    BY DEF Used, Allocated, NodeIdx
  <2> QED
    BY <1>3, <2>1, <2>2, <2>3 DEF HeldIn
<1> HIDE DEF segs
<1>7. reached = wanted
  BY <1>6 DEF segs
<1>8. Targets(t) \subseteq reached
  BY <1>4, <1>5
<1>9. Len(MatchedFrom(segs)) <= MaxMatches => Targets(t) = reached
  BY <1>4, <1>5
<1> QED
  BY <1>7, <1>8, <1>9 DEF segs

(* A PUBLISH goes only to active clients that hold a key which matches its       *)
(* topic as the trie reads it.  And a client that holds a filter as it wrote it *)
(* gets every topic that the filter matches by the documents' rules, whatever   *)
(* the trie, the collisions in it and the history of the slots: for topics      *)
(* without an empty last level, not for "$" topics under a leading wildcard,    *)
(* and unless more nodes match than the result has room for.                    *)
THEOREM RoutingCorrect == Spec => []RoutedAsHeld
<1>1. LInv => RoutedAsHeld
  <2> SUFFICES ASSUME LInv PROVE RoutedAsHeld
    OBVIOUS
  <2> DEFINE wanted(t) == {c \in Slots : /\ clients[c].state = "ACTIVE"
                                         /\ \E k \in Held(c) : LevelsMatch(k, Segments(t))}
  <2>1. ASSUME NEW t \in TopicNames
        PROVE  /\ Targets(t) \subseteq wanted(t)
               /\ Len(MatchedFrom(Segments(t))) <= MaxMatches => Targets(t) = wanted(t)
    BY RoutingLemma
  <2>2. ASSUME NEW t \in TopicNames, Segments(t) = t, Len(MatchedFrom(t)) <= MaxMatches
        PROVE  Targets(t) = wanted(t)
    BY <2>1, <2>2
  <2> QED
    BY <2>1, <2>2 DEF RoutedAsHeld
<1> QED
  BY <1>1, LInvAlways, PTL
===============================================================================
