-------------------------------- MODULE Topics --------------------------------
(***************************************************************************)
(* The topic trie (src/broker/trie.h): which slots receive a PUBLISH.      *)
(*                                                                         *)
(* A SUBSCRIBE or UNSUBSCRIBE walks the trie once per filter, one level    *)
(* per iteration; an action is one iteration, and no other handler runs    *)
(* until the packet is done (Idle).  Matching only reads the trie and is   *)
(* an operator.                                                            *)
(*                                                                         *)
(* Abstractions.  A filter or a topic is its split at '/', so "a/" is      *)
(* <<"a", "">>; a level is a string, its 64-byte prefix is Cut[level] and  *)
(* its FNV-1a hash Hash[level].  The free list is a set: a node is given   *)
(* back only when it could not be added.  Node index 0 is Root and, as in  *)
(* the code, "no node".  children[] is written but never read: what counts *)
(* of it is child_count.                                                   *)
(***************************************************************************)
EXTENDS Integers, Sequences, FiniteSets

CONSTANTS
  Slots,        \* client slots
  NoSlot,
  Root, Nodes,  \* index 0 and the other indices of the node pool
  Levels,       \* topic levels, among them "", "+" and "#"
  SystemLevels, \* those that begin with "$"
  Cut,          \* the part of a level that fits TRIE_MAX_SEGMENT
  Hash,         \* trie_hash_segment
  HashSize,     \* TRIE_CHILD_HASH_SIZE
  MaxChildren,  \* TRIE_MAX_CHILDREN
  MaxMatches,   \* TRIE_MAX_MATCHES
  MaxFilters,   \* MQTT_MAX_FILTERS
  MaxGen,       \* bound: connections served by one slot (u8 generation)
  Filters,      \* topic filters that clients send
  SubQos,       \* the QoS they ask for
  Packets,      \* numbers of filters in a packet
  TopicNames    \* topics that clients publish to

EmptyLevel == ""

ASSUME NodesAssumption == IsFiniteSet(Nodes) /\ Root \notin Nodes
ASSUME SlotsAssumption == IsFiniteSet(Slots) /\ NoSlot \notin Slots
ASSUME LevelsAssumption == /\ Cut \in [Levels -> Levels] /\ Hash \in [Levels -> Nat]
                           /\ \A l \in Levels : Cut[Cut[l]] = Cut[l]
                           /\ {EmptyLevel, "+", "#"} \subseteq Levels
                           /\ \A l \in {EmptyLevel, "+", "#"} : Cut[l] = l
                           /\ SystemLevels \subseteq Levels \ {EmptyLevel, "+", "#"}
ASSUME SizeAssumption == /\ HashSize \in Nat \ {0} /\ MaxChildren \in Nat \ {0}
                         /\ MaxMatches \in Nat /\ MaxFilters \in Nat \ {0}
                         /\ MaxGen \in 1..255
ASSUME PacketAssumption == /\ Filters \subseteq Seq(Levels) \ {<< >>}
                           /\ TopicNames \subseteq Seq(Levels) \ {<< >>}
                           /\ SubQos \subseteq 0..2 /\ Packets \subseteq Nat \ {0}

VARIABLES
  clients,  \* per slot: state and generation
  nodes,    \* the node pool
  free,     \* nodes in the free list
  walk,     \* the SUBSCRIBE or UNSUBSCRIBE being processed
  granted   \* per slot: the filters the client was told it holds, with the QoS

vars == <<clients, nodes, free, walk, granted>>

-------------------------------------------------------------------------------
NoNode      == Root
NodeIdx     == {Root} \cup Nodes
Generations == 0 .. MaxGen
Allocated   == Nodes \ free

Node == [name       : Levels,
         parent     : NodeIdx,
         plus_child : NodeIdx,
         hash_child : NodeIdx,
         child_hash : [0 .. HashSize - 1 -> NodeIdx],
         child_count: Nat,
         fd_bitmap  : SUBSET Slots,
         fd_gen     : [Slots -> Generations],
         sub_count  : Nat]

EmptyNode == [name |-> EmptyLevel, parent |-> Root, plus_child |-> NoNode, hash_child |-> NoNode,
              child_hash |-> [k \in 0 .. HashSize - 1 |-> NoNode], child_count |-> 0,
              fd_bitmap |-> {}, fd_gen |-> [c \in Slots |-> 0], sub_count |-> 0]

(* topic_iter_next, topic_extract_segment: an empty last level is not seen. *)
Segments(raw) ==
  IF raw[Len(raw)] = EmptyLevel THEN SubSeq(raw, 1, Len(raw) - 1) ELSE raw

(* The levels under which the trie files a filter. *)
Key(raw) == LET segs == Segments(raw) IN [i \in 1 .. Len(segs) |-> Cut[segs[i]]]
Keys == {Key(f) : f \in Filters}

NotHeld == 128   \* MQTT_SUBACK_FAILURE
NothingHeld == [k \in Keys |-> NotHeld]

Asked == [filter : Filters, qos : SubQos]

NoWalk == [kind |-> "none", slot |-> NoSlot, asked |-> << >>, i |-> 1,
           path |-> << >>, node |-> Root, codes |-> << >>]
Idle == walk = NoWalk

Init ==
  /\ clients = [c \in Slots |-> [state |-> "FREE", generation |-> 0]]
  /\ nodes = [n \in NodeIdx |-> EmptyNode]
  /\ free = Nodes
  /\ walk = NoWalk
  /\ granted = [c \in Slots |-> NothingHeld]

-------------------------------------------------------------------------------
(* Children.                                                                   *)

Least(S) == CHOOSE k \in S : \A j \in S : k <= j
ProbePos(level, k) == (Hash[level] + k) % HashSize

(* trie_find_child: linear probing up to the first empty position. *)
FindChild(n, level) ==
  LET At(k) == nodes[n].child_hash[ProbePos(level, k)]
      stops == {k \in 0 .. HashSize - 1 : At(k) = NoNode \/ nodes[At(k)].name = level}
  IN  IF stops = {} THEN NoNode ELSE At(Least(stops))

(* trie_add_child of a new node idx: the parent's record, or none when its      *)
(* array or its hash table is full (a rollback leaves the count as it was).     *)
EmptyProbes(parent, level) ==
  {k \in 0 .. HashSize - 1 : parent.child_hash[ProbePos(level, k)] = NoNode}
AddFails(parent, level) == parent.child_count >= MaxChildren \/ EmptyProbes(parent, level) = {}

(* Fault: the hash table entry goes to its home position whatever is there. *)
WithChildOverwriting(parent, idx, level) ==
  [parent EXCEPT
     !.child_count = @ + 1,
     !.child_hash[ProbePos(level, 0)] = idx,
     !.plus_child = IF level = "+" THEN idx ELSE @,
     !.hash_child = IF level = "#" THEN idx ELSE @]
WithChild(parent, idx, level) ==
  [parent EXCEPT
     !.child_count = @ + 1,
     !.child_hash[ProbePos(level, Least(EmptyProbes(parent, level)))] = idx,
     !.plus_child = IF level = "+" THEN idx ELSE @,
     !.hash_child = IF level = "#" THEN idx ELSE @]

-------------------------------------------------------------------------------
(* Sessions, as far as subscriptions see them.                                 *)

(* handle_accept, client_init *)
Accept(c) ==
  /\ Idle
  /\ clients[c].state = "FREE" /\ clients[c].generation < MaxGen
  /\ clients' = [clients EXCEPT ![c] = [state |-> "ACTIVE", generation |-> @.generation + 1]]
  /\ granted' = [granted EXCEPT ![c] = NothingHeld]
  /\ UNCHANGED <<nodes, free, walk>>

(* submit_close *)
SubmitClose(c) ==
  /\ Idle
  /\ clients[c].state = "ACTIVE"
  /\ clients' = [clients EXCEPT ![c].state = "CLOSING"]
  /\ UNCHANGED <<nodes, free, walk, granted>>

(* Fault: only nodes without children are scanned. *)
RemovedFromLeaves(c) ==
  [n \in NodeIdx |-> IF c \in nodes[n].fd_bitmap /\ nodes[n].child_count = 0
                     THEN [nodes[n] EXCEPT !.fd_bitmap = @ \ {c}, !.sub_count = @ - 1]
                     ELSE nodes[n]]

(* trie_remove_fd *)
Removed(c) ==
  [n \in NodeIdx |-> IF c \in nodes[n].fd_bitmap
                     THEN [nodes[n] EXCEPT !.fd_bitmap = @ \ {c}, !.sub_count = @ - 1]
                     ELSE nodes[n]]

(* handle_close: broker_free_slot removes every subscription of the slot,       *)
(* broker_slot_go_dormant keeps them.                                           *)
HandleClose(c, clean) ==
  /\ Idle
  /\ clients[c].state = "CLOSING"
  /\ clients' = [clients EXCEPT ![c].state = IF clean THEN "FREE" ELSE "DORMANT"]
  /\ nodes' = IF clean THEN Removed(c) ELSE nodes
  /\ granted' = IF clean THEN [granted EXCEPT ![c] = NothingHeld] ELSE granted
  /\ UNCHANGED <<free, walk>>

-------------------------------------------------------------------------------
(* SUBSCRIBE and UNSUBSCRIBE.                                                  *)

(* The parsers read MQTT_MAX_FILTERS filters and leave the rest of the packet. *)
Considered(asked) == IF Len(asked) > MaxFilters THEN MaxFilters ELSE Len(asked)

(* The walk for filter i starts at the root. *)
PathOf(asked, i) == IF i <= Considered(asked) THEN Key(asked[i].filter) ELSE << >>
StartAt(w, i) == [w EXCEPT !.i = i, !.node = Root, !.path = PathOf(w.asked, i)]

Receive(c, kind, asked) ==
  /\ Idle
  /\ clients[c].state = "ACTIVE"
  /\ walk' = StartAt([NoWalk EXCEPT !.kind = kind, !.slot = c, !.asked = asked], 1)
  /\ UNCHANGED <<clients, nodes, free, granted>>

Walking(kind) == walk.kind = kind /\ walk.i <= Considered(walk.asked)

(* sub_add refuses the empty filter. *)
Refused == walk.kind = "subscribe" /\ Len(walk.asked[walk.i].filter) = 1
                                   /\ walk.asked[walk.i].filter[1] = EmptyLevel
NextChild == FindChild(walk.node, Head(walk.path))

(* trie_subscribe and trie_unsubscribe go down to a child that is there. *)
Descend ==
  /\ \/ Walking("subscribe") /\ ~Refused
     \/ Walking("unsubscribe")
  /\ walk.path # << >> /\ NextChild # NoNode
  /\ walk' = [walk EXCEPT !.node = NextChild, !.path = Tail(@)]
  /\ UNCHANGED <<clients, nodes, free, granted>>

(* trie_subscribe creates a child. *)
Grow ==
  LET level == Head(walk.path)
  IN  /\ Walking("subscribe")
      /\ walk.path # << >> /\ NextChild = NoNode
      /\ ~AddFails(nodes[walk.node], level)
      /\ \E idx \in free :
           /\ free' = free \ {idx}
           /\ nodes' = [nodes EXCEPT
                ![idx] = [EmptyNode EXCEPT !.name = level, !.parent = walk.node],
                ![walk.node] = WithChild(@, idx, level)]
           /\ walk' = [walk EXCEPT !.node = idx, !.path = Tail(@)]
      /\ UNCHANGED <<clients, granted>>

(* Fault: the failure is not reported. *)
ReturnCodeGranted(ok) == walk.asked[walk.i].qos
ReturnCode(ok) == IF ok THEN walk.asked[walk.i].qos ELSE NotHeld

(* No node is left, or the parent has no room: what was created stays. *)
Fail ==
  /\ Walking("subscribe")
  /\ \/ Refused
     \/ /\ walk.path # << >> /\ NextChild = NoNode
        /\ free = {} \/ AddFails(nodes[walk.node], Head(walk.path))
  /\ walk' = StartAt([walk EXCEPT !.codes = Append(@, ReturnCode(FALSE))], walk.i + 1)
  /\ UNCHANGED <<clients, nodes, free, granted>>

(* Fault: a second subscription to one filter counts twice. *)
MarkedTwice(node, c, gen) ==
  [node EXCEPT !.fd_bitmap = @ \cup {c}, !.fd_gen[c] = gen, !.sub_count = @ + 1]
Marked(node, c, gen) ==
  [node EXCEPT !.fd_bitmap = @ \cup {c}, !.fd_gen[c] = gen,
               !.sub_count = IF c \in node.fd_bitmap THEN @ ELSE @ + 1]

(* The slot enters the bitmap of the last node with its present generation. *)
Mark ==
  LET c == walk.slot
  IN  /\ Walking("subscribe") /\ ~Refused
      /\ walk.path = << >>
      /\ nodes' = [nodes EXCEPT ![walk.node] = Marked(@, c, clients[c].generation)]
      /\ walk' = StartAt([walk EXCEPT !.codes = Append(@, ReturnCode(TRUE))], walk.i + 1)
      /\ UNCHANGED <<clients, free, granted>>

(* Fault: the count goes down for a filter the slot does not hold. *)
UnmarkedAlways(node, c) == [node EXCEPT !.fd_bitmap = @ \ {c}, !.sub_count = @ - 1]
Unmarked(node, c) ==
  [node EXCEPT !.fd_bitmap = @ \ {c},
               !.sub_count = IF c \in node.fd_bitmap THEN @ - 1 ELSE @]

(* trie_unsubscribe at the end of its walk; nodes are never freed. *)
Unmark ==
  /\ Walking("unsubscribe")
  /\ walk.path = << >>
  /\ nodes' = [nodes EXCEPT ![walk.node] = Unmarked(@, walk.slot)]
  /\ walk' = StartAt(walk, walk.i + 1)
  /\ UNCHANGED <<clients, free, granted>>

(* There is no such filter in the trie. *)
Miss ==
  /\ Walking("unsubscribe")
  /\ walk.path # << >> /\ NextChild = NoNode
  /\ walk' = StartAt(walk, walk.i + 1)
  /\ UNCHANGED <<clients, nodes, free, granted>>

(* SUBACK or UNSUBACK: what the client learns of filter k. *)
Told(c, k) ==
  LET about == {i \in 1 .. Considered(walk.asked) : Key(walk.asked[i].filter) = k}
      good  == {i \in about : walk.kind = "subscribe" /\ walk.codes[i] # NotHeld}
  IN  IF walk.kind = "unsubscribe" /\ about # {} THEN NotHeld
      ELSE IF good = {} THEN granted[c][k]
      ELSE walk.codes[CHOOSE i \in good : \A j \in good : j <= i]

Answer ==
  /\ ~Idle /\ walk.i > Considered(walk.asked)
  /\ granted' = [granted EXCEPT ![walk.slot] = [k \in Keys |-> Told(walk.slot, k)]]
  /\ walk' = NoWalk
  /\ UNCHANGED <<clients, nodes, free>>

Next ==
  \/ \E c \in Slots :
       \/ Accept(c)
       \/ SubmitClose(c)
       \/ \E clean \in BOOLEAN : HandleClose(c, clean)
       \/ \E kind \in {"subscribe", "unsubscribe"}, len \in Packets :
            \E asked \in [1 .. len -> Asked] : Receive(c, kind, asked)
  \/ Descend \/ Grow \/ Fail \/ Mark \/ Unmark \/ Miss \/ Answer

Spec == Init /\ [][Next]_vars

-------------------------------------------------------------------------------
(* Matching.                                                                   *)

MultiLevel(n) == LET multi == nodes[n].hash_child
                 IN  IF multi # NoNode /\ nodes[multi].sub_count > 0 THEN <<multi>> ELSE << >>
(* A level longer than TRIE_MAX_SEGMENT is not looked up. *)
ExactChild(n, level) == IF Cut[level] = level THEN FindChild(n, level) ELSE NoNode

(* Fault: '+' is tried only where the level itself has no child. *)
MatchedFromGreedy(segs) ==
  LET M[i \in 1 .. Len(segs) + 1] ==
        [n \in NodeIdx |->
           MultiLevel(n)
             \o IF i > Len(segs)
                THEN IF nodes[n].sub_count > 0 THEN <<n>> ELSE << >>
                ELSE IF ExactChild(n, segs[i]) # NoNode THEN M[i + 1][ExactChild(n, segs[i])]
                ELSE IF nodes[n].plus_child = NoNode THEN << >>
                ELSE M[i + 1][nodes[n].plus_child]]
  IN  M[1][Root]

(* trie_match_collect_recursive from the root: the nodes with subscribers in    *)
(* the order in which it meets them, '#' before '+' before the level itself.    *)
(* M[i][n] is what it collects from node n when level i comes next.             *)
MatchedFrom(segs) ==
  LET M[i \in 1 .. Len(segs) + 1] ==
        [n \in NodeIdx |->
           MultiLevel(n)
             \o IF i > Len(segs)
                THEN IF nodes[n].sub_count > 0 THEN <<n>> ELSE << >>
                ELSE (IF nodes[n].plus_child = NoNode THEN << >> ELSE M[i + 1][nodes[n].plus_child])
                       \o (IF ExactChild(n, segs[i]) = NoNode THEN << >>
                           ELSE M[i + 1][ExactChild(n, segs[i])])]
  IN  M[1][Root]

(* trie_match_collect keeps the first TRIE_MAX_MATCHES. *)
Matches(topic) ==
  LET all == MatchedFrom(Segments(topic))
  IN  IF Len(all) > MaxMatches THEN SubSeq(all, 1, MaxMatches) ELSE all

(* process_publish_matches: a slot is looked at once, at the first node that     *)
(* has it, and is passed over if the subscription is of an earlier connection.  *)
Targets(topic) ==
  LET found == Matches(topic)
      First(c) == Least({j \in DOMAIN found : c \in nodes[found[j]].fd_bitmap})
  IN  {c \in UNION {nodes[found[j]].fd_bitmap : j \in DOMAIN found} :
         /\ clients[c].state = "ACTIVE"
         /\ nodes[found[First(c)]].fd_gen[c] = clients[c].generation}

-------------------------------------------------------------------------------
(* Properties.                                                                 *)

(* Every variable has its type: in particular no sub_count goes below zero,    *)
(* where the u32 would wrap.                                                   *)
TypeOK ==
  /\ clients \in [Slots -> [state : {"FREE", "ACTIVE", "DORMANT", "CLOSING"},
                            generation : Generations]]
  /\ nodes \in [NodeIdx -> Node]
  /\ free \subseteq Nodes
  /\ walk.kind \in {"none", "subscribe", "unsubscribe"}
  /\ walk.slot \in Slots \cup {NoSlot} /\ walk.node \in NodeIdx
  /\ walk.asked \in Seq(Asked) /\ walk.i \in Nat \ {0}
  /\ walk.path \in Seq(Levels) /\ walk.codes \in Seq(0..2 \cup {NotHeld})
  /\ granted \in [Slots -> [Keys -> 0..2 \cup {NotHeld}]]

(* The levels on the way from the root to a node. *)
Path(n) ==
  LET P[m \in NodeIdx] == IF m = Root THEN << >>
                          ELSE Append(P[nodes[m].parent], nodes[m].name)
  IN  P[n]

(* The keys of the filters whose node has slot c. *)
Held(c) == {Path(n) : n \in {m \in Allocated \cup {Root} : c \in nodes[m].fd_bitmap}}

(* Every node is the child its parent's hash table and wildcard pointers find   *)
(* for its level, whatever collides: no subscription gets out of reach and no   *)
(* filter gets a second node.                                                   *)
ChildrenFindable ==
  \A n \in Allocated :
    LET parent == nodes[n].parent
    IN  /\ parent \in {Root} \cup Allocated
        /\ FindChild(parent, nodes[n].name) = n
        /\ nodes[n].name = "+" => nodes[parent].plus_child = n
        /\ nodes[n].name = "#" => nodes[parent].hash_child = n

(* The subscriber count that matching trusts is the size of the bitmap, and a   *)
(* node in the free list has no subscriber.                                     *)
SubCountExact ==
  \A n \in NodeIdx : /\ nodes[n].sub_count = Cardinality(nodes[n].fd_bitmap)
                     /\ n \in free => nodes[n].fd_bitmap = {}

(* A filter matches a topic, level by level, by the rules of docs/mqtt-rfc/       *)
(* 08-topics.md, 8.3 and 8.5; docs/spec/08-trie.md has the same ones.  "a/#"     *)
(* matches "a" too.                                                             *)
LevelsMatch(filter, topic) ==
  \/ /\ Len(filter) = Len(topic)
     /\ \A i \in DOMAIN filter : filter[i] \in {"+", topic[i]}
  \/ /\ filter # << >> /\ filter[Len(filter)] = "#"
     /\ Len(topic) >= Len(filter) - 1
     /\ \A i \in 1 .. Len(filter) - 1 : filter[i] \in {"+", topic[i]}

(* MQTT-4.7.2-1 (08-topics.md, 8.4): no leading wildcard for a topic with "$". *)
Reserved(filter, topic) == filter[1] \in {"+", "#"} /\ topic[1] \in SystemLevels

(* The trie files f as it was written, and nothing else under the same key: no  *)
(* level of f is cut, and its last one is not empty.                            *)
AsWritten(f) == {g \in Filters : Key(g) = f} = {f}

(* A PUBLISH goes to no client but active ones that hold a key which matches    *)
(* the topic as the trie reads it.  And whoever holds a filter as it wrote it   *)
(* gets what the documents promise it: every topic that the filter matches, by  *)
(* exact levels, "+" and "#" alike, whatever collides in the trie and whoever   *)
(* had the slot before.  Where the code and the documents differ the second     *)
(* part says nothing: topics with an empty last level, "$" topics and leading   *)
(* wildcards, filters with a level that is cut, and topics that more than       *)
(* TRIE_MAX_MATCHES nodes match.  How many copies a client gets is not said.    *)
RoutedAsHeld ==
  \A t \in TopicNames :
    LET Filed(c) == \E k \in Held(c) : LevelsMatch(k, Segments(t))
        Due(c)   == \E f \in Filters \cap Held(c) :
                      AsWritten(f) /\ LevelsMatch(f, t) /\ ~Reserved(f, t)
        active   == {c \in Slots : clients[c].state = "ACTIVE"}
    IN  /\ Targets(t) \subseteq {c \in active : Filed(c)}
        /\ Segments(t) = t /\ Len(MatchedFrom(t)) <= MaxMatches
             => {c \in active : Due(c)} \subseteq Targets(t)

(* Between packets a client holds what it was told it holds: a SUBSCRIBE that   *)
(* fails half way leaves nothing behind, and one filter's walk does not disturb *)
(* another's.                                                                   *)
ViewExact ==
  Idle => \A c \in Slots : {k \in Keys : granted[c][k] # NotHeld} = Held(c)

(* The trie implements a set of filters per session (module Subscriptions).     *)
Abstract == INSTANCE Subscriptions
  WITH sessions <- [c \in Slots |-> clients[c].state], held <- [c \in Slots |-> Held(c)]
ImplementsSubscriptions == Abstract!Spec
===============================================================================
