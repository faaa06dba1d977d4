---------------------------- MODULE CeremonyProofs ----------------------------
(***************************************************************************)
(* The QoS 2 ceremony of a publisher, for any number of packet ids,        *)
(* messages, entries and response slots, and any length of the queues in   *)
(* between: responses stay what they were, a message is let through once,  *)
(* and acknowledged only after that.                                       *)
(***************************************************************************)
EXTENDS Ceremony, ClientSlotProofs

-------------------------------------------------------------------------------
(* Sequences.                                                                  *)

LEMMA AtEnd ==
  ASSUME NEW T, NEW q \in Seq(T), NEW e \in T
  PROVE  /\ Append(q, e) \in Seq(T) /\ Len(q) \in Nat
         /\ DOMAIN q = 1 .. Len(q)
         /\ DOMAIN Append(q, e) = 1 .. Len(q) + 1
         /\ Len(Append(q, e)) = Len(q) + 1
         /\ \A i \in 1 .. Len(q) : Append(q, e)[i] = q[i]
         /\ Append(q, e)[Len(q) + 1] = e
<1>1. /\ Append(q, e) \in Seq(T)
      /\ Len(Append(q, e)) = Len(q) + 1
      /\ \A i \in 1 .. Len(q) : Append(q, e)[i] = q[i]
      /\ Append(q, e)[Len(q) + 1] = e
  BY AppendProperties
<1>2. DOMAIN q = 1 .. Len(q) /\ Len(q) \in Nat
  BY LenProperties
<1>3. DOMAIN Append(q, e) = 1 .. Len(Append(q, e))
  BY <1>1, LenProperties
<1> QED
  BY <1>1, <1>2, <1>3

LEMMA AtFront ==
  ASSUME NEW T, NEW q \in Seq(T), q # << >>
  PROVE  /\ Tail(q) \in Seq(T) /\ Len(q) \in Nat \ {0}
         /\ DOMAIN q = 1 .. Len(q)
         /\ DOMAIN Tail(q) = 1 .. Len(q) - 1
         /\ Len(Tail(q)) = Len(q) - 1
         /\ \A i \in 1 .. Len(q) - 1 : Tail(q)[i] = q[i + 1]
         /\ Head(q) = q[1] /\ Head(q) \in T /\ q[1] \in T
<1>1. /\ Tail(q) \in Seq(T) /\ Len(Tail(q)) = Len(q) - 1
      /\ \A i \in 1 .. Len(Tail(q)) : Tail(q)[i] = q[i + 1]
      /\ Head(q) \in T
  BY HeadTailProperties
<1>2. DOMAIN q = 1 .. Len(q) /\ Len(q) \in Nat \ {0}
  BY LenProperties, EmptySeq
<1>3. DOMAIN Tail(q) = 1 .. Len(Tail(q))
  BY <1>1, LenProperties
<1>4. Head(q) = q[1]
  OBVIOUS
<1> QED
  BY <1>1, <1>2, <1>3, <1>4

(* q has a packet of this type and id; it has one before another. *)
Has(q, type, id) == \E i \in DOMAIN q : q[i].type = type /\ q[i].id = id
Before(q, type, after, id) ==
  \E i, j \in DOMAIN q : /\ i < j /\ q[i].type = type /\ q[i].id = id
                         /\ q[j].type = after /\ q[j].id = id

LEMMA HasAppend ==
  ASSUME NEW T, NEW q \in Seq(T), NEW e \in T, NEW type, NEW after, NEW id
  PROVE  /\ Has(Append(q, e), type, id) <=> Has(q, type, id) \/ (e.type = type /\ e.id = id)
         /\ Before(Append(q, e), type, after, id)
              <=> \/ Before(q, type, after, id)
                  \/ Has(q, type, id) /\ e.type = after /\ e.id = id
<1> DEFINE a == Append(q, e)
           n == Len(q)
<1>1. /\ n \in Nat /\ DOMAIN q = 1 .. n /\ DOMAIN a = 1 .. n + 1
      /\ \A i \in 1 .. n : a[i] = q[i]
      /\ a[n + 1] = e
  BY AtEnd
<1> HIDE DEF a, n
<1>2. Has(a, type, id) <=> Has(q, type, id) \/ (e.type = type /\ e.id = id)
  BY <1>1 DEF Has
<1>3. Before(a, type, after, id)
        => Before(q, type, after, id) \/ (Has(q, type, id) /\ e.type = after /\ e.id = id)
  <2> SUFFICES ASSUME NEW i \in DOMAIN a, NEW j \in DOMAIN a, i < j,
                      a[i].type = type, a[i].id = id, a[j].type = after, a[j].id = id
               PROVE  Before(q, type, after, id)
                        \/ (Has(q, type, id) /\ e.type = after /\ e.id = id)
    BY DEF Before
  <2>1. i \in DOMAIN q /\ a[i] = q[i]
    BY <1>1
  <2>2. CASE j = n + 1
    BY <1>1, <2>1, <2>2 DEF Has
  <2>3. CASE j # n + 1
    <3>1. j \in DOMAIN q /\ a[j] = q[j]
      BY <1>1, <2>3
    <3> QED
      BY <2>1, <3>1 DEF Before
  <2> QED
    BY <2>2, <2>3
<1>4. Before(q, type, after, id) => Before(a, type, after, id)
  BY <1>1 DEF Before
<1>5. ASSUME Has(q, type, id), e.type = after, e.id = id
      PROVE  Before(a, type, after, id)
  <2>1. PICK i \in DOMAIN q : q[i].type = type /\ q[i].id = id
    BY <1>5 DEF Has
  <2>2. i \in DOMAIN a /\ n + 1 \in DOMAIN a /\ i < n + 1
    BY <1>1
  <2> QED
    BY <1>1, <1>5, <2>1, <2>2 DEF Before
<1> QED
  BY <1>2, <1>3, <1>4, <1>5 DEF a

LEMMA HasTail ==
  ASSUME NEW T, NEW q \in Seq(T), q # << >>, NEW type, NEW after, NEW id
  PROVE  /\ Has(q, type, id)
              <=> (Head(q).type = type /\ Head(q).id = id) \/ Has(Tail(q), type, id)
         /\ Before(Tail(q), type, after, id) => Before(q, type, after, id)
         /\ Head(q).type = type /\ Head(q).id = id /\ Has(Tail(q), after, id)
              => Before(q, type, after, id)
<1> DEFINE a == Tail(q)
           n == Len(q)
<1>1. /\ n \in Nat \ {0} /\ DOMAIN q = 1 .. n /\ DOMAIN a = 1 .. n - 1
      /\ \A i \in 1 .. n - 1 : a[i] = q[i + 1]
      /\ Head(q) = q[1]
  BY AtFront
<1> HIDE DEF a, n
<1>2. \A i \in DOMAIN a : i + 1 \in DOMAIN q /\ a[i] = q[i + 1] /\ i + 1 > 1
  BY <1>1
<1>3. \A i \in DOMAIN q : i = 1 \/ (i - 1 \in DOMAIN a /\ a[i - 1] = q[i])
  BY <1>1
<1>4. Has(q, type, id) <=> (Head(q).type = type /\ Head(q).id = id) \/ Has(a, type, id)
  <2>1. ASSUME Has(q, type, id)
        PROVE  (Head(q).type = type /\ Head(q).id = id) \/ Has(a, type, id)
    BY <1>1, <1>3, <2>1 DEF Has
  <2>2. Has(a, type, id) => Has(q, type, id)
    BY <1>2 DEF Has
  <2>3. 1 \in DOMAIN q
    BY <1>1
  <2> QED
    BY <1>1, <2>1, <2>2, <2>3 DEF Has
<1>5. Before(a, type, after, id) => Before(q, type, after, id)
  <2> SUFFICES ASSUME NEW i \in DOMAIN a, NEW j \in DOMAIN a, i < j,
                      a[i].type = type, a[i].id = id, a[j].type = after, a[j].id = id
               PROVE  Before(q, type, after, id)
    BY DEF Before
  <2>1. i + 1 \in DOMAIN q /\ j + 1 \in DOMAIN q /\ i + 1 < j + 1
    BY <1>1
  <2> QED
    BY <1>2, <2>1 DEF Before
<1>6. ASSUME Head(q).type = type, Head(q).id = id, Has(a, after, id)
      PROVE  Before(q, type, after, id)
  <2>1. PICK j \in DOMAIN a : a[j].type = after /\ a[j].id = id
    BY <1>6 DEF Has
  <2>2. 1 \in DOMAIN q /\ j + 1 \in DOMAIN q /\ 1 < j + 1
    BY <1>1
  <2> QED
    BY <1>1, <1>2, <1>6, <2>1, <2>2 DEF Before
<1> QED
  BY <1>4, <1>5, <1>6 DEF a

-------------------------------------------------------------------------------
(* The table, while it holds nothing but the packet ids of a publisher.        *)

TableHolds(c) ==
  /\ ClientOK(c) /\ c.egress = << >>
  /\ \A s \in Used(c) : /\ c.inflight[s].direction = "in"
                        /\ c.inflight[s].state = "WAIT_PUBREL"
                        /\ c.inflight[s].packet_id \in Ids
  /\ \A s, t \in Used(c) : c.inflight[s].packet_id = c.inflight[t].packet_id => s = t
Known(c, id) == Incoming(c, id) # {}

(* new knows what c knows, and id as well if more, not id if not. *)
Changes(c, new, id, more) ==
  /\ TableHolds(new) /\ new.generation = c.generation
  /\ Known(new, id) <=> more
  /\ \A j \in Ids : j # id => (Known(new, j) <=> Known(c, j))

LEMMA TableFind ==
  ASSUME NEW c, TableHolds(c), NEW id \in Ids
  PROVE  /\ Find(c, id) = Incoming(c, id)
         /\ \A s \in Incoming(c, id) : /\ s \in Used(c)
                                       /\ c.inflight[s].direction = "in"
                                       /\ c.inflight[s].state = "WAIT_PUBREL"
                                       /\ c.inflight[s].packet_id = id
                                       /\ Incoming(c, id) = {s}
<1>1. id # 0
  BY IdsAssumption
<1>2. \A s \in Incoming(c, id) : /\ s \in Used(c)
                                 /\ c.inflight[s].direction = "in"
                                 /\ c.inflight[s].state = "WAIT_PUBREL"
                                 /\ c.inflight[s].packet_id = id
                                 /\ Incoming(c, id) = {s}
  BY DEF TableHolds, Incoming
<1>3. FindDirect(c, id) \subseteq Incoming(c, id)
  BY DEF TableHolds, Incoming, FindDirect
<1>4. FindDirect(c, id) = {} \/ FindDirect(c, id) = Incoming(c, id)
  BY <1>2, <1>3
<1> QED
  BY <1>1, <1>2, <1>4 DEF Find

LEMMA TableInit ==
  ASSUME NEW c \in Client, c.generation < MaxGen
  PROVE  /\ TableHolds(ClientInit(c)) /\ \A id : ~Known(ClientInit(c), id)
         /\ ClientInit(c).generation = c.generation + 1
<1>1. ClientOK(ClientInit(c))
  BY ClientInitOK
<1>2. /\ ClientInit(c).egress = << >> /\ ClientInit(c).inflight = EmptyTable
      /\ ClientInit(c).generation = c.generation + 1
  BY DEF ClientInit, UnusedClient
<1>3. Used(ClientInit(c)) = {}
  BY <1>2, EmptyTableOK
<1> QED
  BY <1>1, <1>2, <1>3 DEF TableHolds, Known, Incoming

LEMMA TableTrack ==
  ASSUME NEW c, TableHolds(c), NEW id \in Ids, ~Known(c, id),
         ~TrackFails(c)
  PROVE  Changes(c, TrackIncoming(c, id), id, TRUE)
<1> DEFINE s == SlotAt(c, 1)
           entry == [state |-> "WAIT_PUBREL", packet_id |-> id, direction |-> "in",
                     msg_idx |-> NoMsg, qos |-> 2, dup_count |-> 0]
           new == TrackIncoming(c, id)
<1>1. ClientOK(c) /\ id \in PacketIds
  BY IdsAssumption DEF TableHolds
<1>2. ClientOK(new)
  BY <1>1, TrackIncomingOK
<1>3. s \in Unused(c)
  <2>1. IsFiniteSet(Unused(c)) /\ Unused(c) # {}
    BY <1>1, SlotAtLemma DEF TrackFails
  <2>2. Cardinality(Unused(c)) \in Nat
    BY <2>1, FS_CardinalityType
  <2>3. Cardinality(Unused(c)) # 0
    BY <2>1, FS_EmptySet
  <2> QED
    BY <1>1, <2>2, <2>3, SlotAtLemma
<1>4. s \in InflightIdx /\ s \notin Used(c) /\ c.inflight \in [InflightIdx -> Entry]
  BY <1>1, <1>3 DEF Unused, ClientOK, Client
<1>5. new = [c EXCEPT !.inflight[s] = entry, !.inflight_count = @ + 1,
                      !.inflight_free_hint = (s + 1) % MaxInflight]
  BY DEF TrackIncoming, Known
<1> HIDE DEF s
<1>6. /\ new.inflight = [c.inflight EXCEPT ![s] = entry]
      /\ new.egress = c.egress /\ new.generation = c.generation
  BY <1>1, <1>5 DEF ClientOK, Client
<1> HIDE DEF new
<1>7. /\ Used(new) = Used(c) \cup {s}
      /\ new.inflight[s] = entry
      /\ \A t \in Used(c) : new.inflight[t] = c.inflight[t]
  BY <1>4, <1>6 DEF Used
<1>8. \A t \in Used(c) : c.inflight[t].packet_id # id
  BY DEF Known, Incoming, TableHolds
<1>9. TableHolds(new)
  BY <1>2, <1>6, <1>7, <1>8 DEF TableHolds
<1>10. Known(new, id)
  BY <1>7 DEF Known, Incoming
<1>11. ASSUME NEW j \in Ids, j # id
       PROVE  Incoming(new, j) = Incoming(c, j)
  BY <1>4, <1>7, <1>11 DEF Incoming
<1> QED
  BY <1>6, <1>9, <1>10, <1>11 DEF Changes, Known, new

LEMMA TableCompleted ==
  ASSUME NEW c, TableHolds(c), NEW id \in Ids
  PROVE  Changes(c, Completed(c, id), id, FALSE)
<1> DEFINE found == {s \in Find(c, id) : /\ c.inflight[s].state = "WAIT_PUBREL"
                                         /\ c.inflight[s].direction = "in"}
           s == CHOOSE x \in found : TRUE
           new == Completed(c, id)
<1>1. found = Incoming(c, id)
  BY TableFind
<1>2. CASE Incoming(c, id) = {}
  <2>1. new = c
    BY <1>1, <1>2 DEF Completed
  <2> QED
    BY <1>2, <2>1 DEF Changes, Known
<1>3. CASE Incoming(c, id) # {}
  <2>1. new = FreeSlot(c, s)
    BY <1>1, <1>3 DEF Completed
  <2>2. s \in Incoming(c, id)
    BY <1>1, <1>3
  <2> HIDE DEF s, found, new
  <2>3. s \in Used(c) /\ c.inflight[s].packet_id = id
    BY <2>2, TableFind
  <2>4. ClientOK(new) /\ new.egress = c.egress /\ new.generation = c.generation
    BY <2>1, FreeSlotOK DEF TableHolds
  <2>5. c \in Client /\ c.inflight \in [InflightIdx -> Entry] /\ s \in InflightIdx
    BY <2>3 DEF TableHolds, ClientOK, Client, Used
  <2>6. new.inflight = [c.inflight EXCEPT ![s] = FreeEntry]
    BY <2>1, <2>3, <2>5 DEF FreeSlot, Client
  <2>7. /\ Used(new) = Used(c) \ {s}
        /\ \A t \in Used(new) : new.inflight[t] = c.inflight[t]
    BY <2>5, <2>6 DEF Used, FreeEntry
  <2>8. TableHolds(new)
    BY <2>4, <2>7 DEF TableHolds
  <2>9. Incoming(c, id) = {s}
    BY <2>2, TableFind
  <2>10. Incoming(new, id) = {}
    BY <2>7, <2>9 DEF Incoming
  <2>11. ASSUME NEW j \in Ids, j # id
         PROVE  Incoming(new, j) = Incoming(c, j)
    BY <2>3, <2>7, <2>11 DEF Incoming
  <2> QED
    BY <2>4, <2>8, <2>10, <2>11 DEF Changes, Known, new
<1> QED
  BY <1>2, <1>3

-------------------------------------------------------------------------------
(* The core of the invariant: types, response slots, the table.                *)

SendTypes == [slot : RespIdx, gen : Generations, what : Responses,
              state : {"prepared", "submitted", "sent"}]

(* The kernel performs sends in order; none is of a connection to come. *)
SendsOrdered ==
  /\ \A i \in DOMAIN sends : sends[i].gen <= cl.generation
  /\ \A i, j \in DOMAIN sends :
       i < j => /\ sends[i].state = "prepared" => sends[j].state = "prepared"
                /\ sends[j].state = "sent" => sends[i].state = "sent"

RespPart ==
  /\ resp \in [next : RespIdx, in_flight : SUBSET RespIdx, buf : [RespIdx -> Responses]]
  /\ sends \in Seq(SendTypes) /\ outbox \in Seq(Responses) /\ overtaken \in BOOLEAN
  /\ ResponsesIntact /\ SendsOrdered

InPart == inbox \in Seq(Packets) /\ batch \in 0 .. Len(inbox)

PubPart ==
  /\ publisher \in [Ids -> [state : {"idle", "published", "released"},
                            message : 0 .. MaxMessages]]
  /\ pings \in 0 .. MaxPings
  /\ forwarded \in [Messages -> Nat] /\ acked \subseteq Messages
  /\ \A id \in Ids : publisher[id].state # "idle" => publisher[id].message # 0

Core == RespPart /\ InPart /\ PubPart /\ TableHolds(cl)

LEMMA CoreTypes == Core => TypeOK /\ ResponsesIntact
<1> SUFFICES ASSUME Core PROVE TypeOK
  BY DEF Core, RespPart
<1>1. Cardinality(Used(cl)) \in Nat /\ Cardinality(Used(cl)) <= MaxInflight /\ MaxInflight \in Nat
  BY TableFinite DEF Used
<1>2. cl.inflight_count \in 0 .. MaxInflight /\ cl.inflight \in [InflightIdx -> Entry]
      /\ cl.egress = << >> /\ cl.generation \in Generations
  BY <1>1 DEF Core, TableHolds, ClientOK, Counted, Client
<1> QED
  BY <1>2 DEF Core, RespPart, InPart, PubPart, TypeOK, SendTypes

(* client_get_resp_slot finds an idle slot if there is one. *)
LEMMA RespSlotIdle ==
  ASSUME RespPart, Idle # {}
  PROVE  RespSlot \in Idle
<1> DEFINE S == {0 - FromNext(k) : k \in Idle}
<1>1. RespSlots \in Nat /\ RespSlots > 0 /\ resp.next \in Int /\ Idle \subseteq Int
  BY RespAssumption DEF RespPart, RespIdx, Idle
<1>2. \A k \in Idle : FromNext(k) \in 0 .. RespSlots - 1
  BY <1>1 DEF FromNext
<1>3. S \subseteq 0 - RespSlots .. 0 /\ S \subseteq Int /\ S # {}
  <2>1. \A k \in Idle : 0 - FromNext(k) \in 0 - RespSlots .. 0
    BY <1>1, <1>2
  <2>2. S # {}
    OBVIOUS
  <2>3. 0 - RespSlots .. 0 \subseteq Int
    BY <1>1
  <2> QED
    BY <2>1, <2>2, <2>3
<1>4. IsFiniteSet(0 - RespSlots .. 0)
  BY <1>1, FS_Interval
<1>5. IsFiniteSet(S)
  BY <1>3, <1>4, FS_Subset
<1>6. PICK m \in S : \A x \in S : x <= m
  BY <1>3, <1>5, LargestLemma
<1>7. PICK k \in Idle : m = 0 - FromNext(k)
  BY <1>6
<1>8. \A j \in Idle : FromNext(k) <= FromNext(j)
  <2> SUFFICES ASSUME NEW j \in Idle PROVE FromNext(k) <= FromNext(j)
    OBVIOUS
  <2>1. 0 - FromNext(j) <= 0 - FromNext(k)
    BY <1>6, <1>7
  <2> QED
    BY <1>2, <2>1
<1> QED
  BY <1>8 DEF RespSlot

-------------------------------------------------------------------------------
(* Responses on their way: read by nobody yet, or held by a send of this       *)
(* connection that is still to be performed.                                   *)

Unsent == {i \in Mine : sends[i].state # "sent"}
Waiting(type, id) == \E i \in Unsent : sends[i].what.type = type /\ sends[i].what.id = id
ToCome(type, id) == Has(outbox, type, id) \/ Waiting(type, id)
ToComeBefore(type, after, id) ==
  \/ Before(outbox, type, after, id)
  \/ Has(outbox, type, id) /\ Waiting(after, id)
  \/ \E i, j \in Unsent : /\ i < j /\ sends[i].what.type = type /\ sends[i].what.id = id
                          /\ sends[j].what.type = after /\ sends[j].what.id = id

(* A step that sends nothing new, and one that sends r after all the others.   *)
SendsNothing ==
  \A type, after, id : /\ ToCome(type, id)' => ToCome(type, id)
                       /\ ToComeBefore(type, after, id)' => ToComeBefore(type, after, id)
SendsLast(r) ==
  \A type, after, id :
    /\ ToCome(type, id)' => ToCome(type, id) \/ (r.type = type /\ r.id = id)
    /\ ToComeBefore(type, after, id)'
         => \/ ToComeBefore(type, after, id)
            \/ ToCome(type, id) /\ r.type = after /\ r.id = id

LEMMA SendParts ==
  ASSUME RespPart
  PROVE  /\ Len(sends) \in Nat /\ DOMAIN sends = 1 .. Len(sends)
         /\ \A i \in DOMAIN sends : sends[i] \in SendTypes
         /\ Mine \subseteq DOMAIN sends /\ Unsent \subseteq Mine
BY LenProperties, ElementOfSeq DEF RespPart, Mine, Unsent

LEMMA FillSlotStep ==
  ASSUME RespPart, Idle # {}, cl.generation \in Generations, cl'.generation = cl.generation,
         NEW r \in Responses, NEW room \in BOOLEAN, FillSlot(r, room)
  PROVE  RespPart' /\ SendsLast(r)
<1> DEFINE k == RespSlot
           e == [slot |-> k, gen |-> cl.generation, what |-> r, state |-> "prepared"]
           n == Len(sends)
<1>1. k \in RespIdx /\ k \notin resp.in_flight
  BY RespSlotIdle DEF Idle
<1>2. (k + 1) % RespSlots \in RespIdx
  BY <1>1, RespAssumption DEF RespIdx
<1>3. /\ resp' = [next |-> (k + 1) % RespSlots,
                  in_flight |-> IF room THEN resp.in_flight \cup {k} ELSE resp.in_flight,
                  buf |-> [resp.buf EXCEPT ![k] = r]]
      /\ sends' = IF room THEN Append(sends, e) ELSE sends
      /\ outbox' = outbox /\ overtaken' = overtaken
  BY DEF FillSlot
<1>4. e \in SendTypes
  BY <1>1 DEF SendTypes
<1>5. n \in Nat /\ DOMAIN sends = 1 .. n /\ \A i \in DOMAIN sends : sends[i] \in SendTypes
  BY SendParts
<1>6. resp' \in [next : RespIdx, in_flight : SUBSET RespIdx, buf : [RespIdx -> Responses]]
  BY <1>1, <1>2, <1>3 DEF RespPart
<1>7. \A i \in Mine : sends[i].slot \in resp.in_flight /\ sends[i].slot # k
  BY <1>1 DEF RespPart, ResponsesIntact
<1>8. \A j \in RespIdx : resp'.buf[j] = IF j = k THEN r ELSE resp.buf[j]
  BY <1>1, <1>3 DEF RespPart
<1> HIDE DEF k
<1>9. CASE ~room
  <2>1. sends' = sends /\ resp'.in_flight = resp.in_flight
    BY <1>3, <1>9
  <2>2. Mine' = Mine
    BY <2>1 DEF Mine
  <2>3. ResponsesIntact'
    <3>1. \A i \in Mine : resp'.buf[sends[i].slot] = resp.buf[sends[i].slot]
      BY <1>5, <1>7, <1>8 DEF Mine, SendTypes
    <3> QED
      BY <2>1, <2>2, <3>1 DEF RespPart, ResponsesIntact
  <2>4. SendsOrdered'
    BY <2>1 DEF RespPart, SendsOrdered
  <2>5. SendsNothing
    BY <1>3, <2>1, <2>2 DEF SendsNothing, ToCome, ToComeBefore, Waiting, Unsent, Has, Before
  <2> QED
    BY <1>3, <1>6, <2>1, <2>3, <2>4, <2>5 DEF RespPart, SendsNothing, SendsLast
<1>10. CASE room
  <2> HIDE DEF e
  <2>1. /\ sends' = Append(sends, e)
        /\ resp'.in_flight = resp.in_flight \cup {k}
    BY <1>3, <1>10
  <2>2. sends \in Seq(SendTypes)
    BY DEF RespPart
  <2>3. /\ sends' \in Seq(SendTypes) /\ DOMAIN sends' = 1 .. n + 1
        /\ \A i \in 1 .. n : sends'[i] = sends[i]
        /\ sends'[n + 1] = e
    BY <1>4, <2>1, <2>2, AtEnd
  <2>4. e.slot = k /\ e.gen = cl.generation /\ e.what = r /\ e.state = "prepared"
    BY DEF e
  <2>5. Mine' = Mine \cup {n + 1} /\ n + 1 \notin Mine
    BY <1>5, <2>3, <2>4 DEF Mine
  <2>6. \A i \in Mine : i \in 1 .. n /\ sends'[i] = sends[i]
    BY <1>5, <2>3 DEF Mine
  <2>7. resp'.in_flight = {sends'[i].slot : i \in Mine'}
    BY <2>1, <2>3, <2>4, <2>5, <2>6 DEF RespPart, ResponsesIntact
  <2>8. \A i, j \in Mine' : i # j => sends'[i].slot # sends'[j].slot
    BY <1>7, <2>3, <2>4, <2>5, <2>6 DEF RespPart, ResponsesIntact
  <2>9. \A i \in Mine' : sends'[i].state = "sent" \/ resp'.buf[sends'[i].slot] = sends'[i].what
    <3>1. \A i \in Mine : resp'.buf[sends[i].slot] = resp.buf[sends[i].slot]
      BY <1>5, <1>7, <1>8 DEF Mine, SendTypes
    <3>2. resp'.buf[e.slot] = e.what
      BY <1>1, <1>8, <2>4
    <3> QED
      BY <2>3, <2>5, <2>6, <3>1, <3>2 DEF RespPart, ResponsesIntact
  <2>10. ResponsesIntact'
    BY <2>7, <2>8, <2>9 DEF ResponsesIntact
  <2>11. SendsOrdered'
    <3>1. \A i \in DOMAIN sends' : sends'[i].gen <= cl'.generation
      BY SMTT(20), <1>5, <2>3, <2>4 DEF RespPart, SendsOrdered, Generations
    <3>2. ASSUME NEW i \in DOMAIN sends', NEW j \in DOMAIN sends', i < j
          PROVE  /\ sends'[i].state = "prepared" => sends'[j].state = "prepared"
                 /\ sends'[j].state = "sent" => sends'[i].state = "sent"
      <4>1. i \in DOMAIN sends /\ sends'[i] = sends[i]
        BY <1>5, <2>3, <3>2
      <4>2. CASE j = n + 1
        BY <2>3, <2>4, <4>2
      <4>3. CASE j # n + 1
        <5>1. j \in DOMAIN sends /\ sends'[j] = sends[j]
          BY <1>5, <2>3, <4>3
        <5> QED
          BY <3>2, <4>1, <5>1 DEF RespPart, SendsOrdered
      <4> QED
        BY <4>2, <4>3
    <3> QED
      BY <3>1, <3>2 DEF SendsOrdered
  <2>12. Unsent' = Unsent \cup {n + 1}
    BY <2>3, <2>4, <2>5, <2>6 DEF Unsent
  <2>13. \A i \in Unsent : i \in 1 .. n /\ sends'[i] = sends[i]
    BY <2>6 DEF Unsent
  <2>14. ASSUME NEW type, NEW id
         PROVE  /\ Waiting(type, id)' => Waiting(type, id) \/ (r.type = type /\ r.id = id)
                /\ Has(outbox', type, id) <=> Has(outbox, type, id)
    BY <1>3, <2>3, <2>4, <2>12, <2>13 DEF Waiting
  <2>15. ASSUME NEW type, NEW id
         PROVE  ToCome(type, id)' => ToCome(type, id) \/ (r.type = type /\ r.id = id)
    BY <2>14 DEF ToCome
  <2>16. ASSUME NEW type, NEW after, NEW id, ToComeBefore(type, after, id)'
         PROVE  \/ ToComeBefore(type, after, id)
                \/ ToCome(type, id) /\ r.type = after /\ r.id = id
    <3>1. CASE Before(outbox', type, after, id)
      BY <1>3, <3>1 DEF ToComeBefore
    <3>2. CASE Has(outbox', type, id) /\ Waiting(after, id)'
      BY <1>3, <2>14, <3>2 DEF ToComeBefore, ToCome
    <3>3. ASSUME NEW i \in Unsent', NEW j \in Unsent', i < j,
                 sends'[i].what.type = type, sends'[i].what.id = id,
                 sends'[j].what.type = after, sends'[j].what.id = id
          PROVE  \/ ToComeBefore(type, after, id)
                 \/ ToCome(type, id) /\ r.type = after /\ r.id = id
      <4>1. i \in Unsent /\ sends'[i] = sends[i]
        BY <1>5, <2>12, <2>13, <3>3
      <4>2. CASE j = n + 1
        BY <2>3, <2>4, <3>3, <4>1, <4>2 DEF ToCome, Waiting
      <4>3. CASE j # n + 1
        <5>1. j \in Unsent /\ sends'[j] = sends[j]
          BY <2>12, <2>13, <4>3
        <5> QED
          BY <3>3, <4>1, <5>1 DEF ToComeBefore
      <4> QED
        BY <4>2, <4>3
    <3> QED
      BY <2>16, <3>1, <3>2, <3>3 DEF ToComeBefore
  <2> QED
    BY <1>3, <1>6, <2>3, <2>10, <2>11, <2>15, <2>16 DEF RespPart, SendsLast
<1> QED
  BY <1>9, <1>10

LEMMA SendRespStep ==
  ASSUME RespPart, cl.generation \in Generations, cl'.generation = cl.generation,
         NEW r \in Responses, NEW room \in BOOLEAN, SendResp(r, room)
  PROVE  RespPart' /\ (~overtaken' => ~overtaken /\ SendsLast(r))
<1>1. CASE Idle # {}
  <2>1. FillSlot(r, room)
    BY <1>1 DEF SendResp
  <2>2. RespPart' /\ SendsLast(r)
    BY <1>1, <2>1, FillSlotStep
  <2>3. overtaken' = overtaken
    BY <2>1 DEF FillSlot
  <2> QED
    BY <2>2, <2>3
<1>2. CASE Idle = {}
  <2>1. /\ outbox' = IF Submitted = {} /\ Len(outbox) < MaxOutbox
                     THEN Append(outbox, r) ELSE outbox
        /\ overtaken' = (overtaken \/ \E i \in DOMAIN sends : sends[i].state = "prepared")
        /\ resp' = resp /\ sends' = sends
    BY <1>2 DEF SendResp
  <2>2. Mine' = Mine /\ Unsent' = Unsent
    BY <2>1 DEF Mine, Unsent
  <2>3. outbox \in Seq(Responses)
    BY DEF RespPart
  <2>4. outbox' \in Seq(Responses)
    BY <2>1, <2>3, AtEnd
  <2>5. overtaken' \in BOOLEAN
    BY <2>1 DEF RespPart
  <2>6. ResponsesIntact' /\ SendsOrdered'
    BY <2>1, <2>2 DEF RespPart, ResponsesIntact, SendsOrdered
  <2>7. RespPart'
    BY <2>1, <2>4, <2>5, <2>6 DEF RespPart
  <2>8. ASSUME ~overtaken' PROVE ~overtaken /\ SendsLast(r)
    <3>1. ~overtaken /\ ~\E i \in DOMAIN sends : sends[i].state = "prepared"
      BY <2>1, <2>8
    <3>2. CASE outbox' = outbox
      BY <2>1, <2>2, <3>1, <3>2
         DEF SendsLast, ToCome, ToComeBefore, Waiting, Has, Before
    <3>3. CASE outbox' # outbox
      <4>1. Submitted = {} /\ outbox' = Append(outbox, r)
        BY <2>1, <3>3
      <4>2. \A i \in DOMAIN sends : sends[i].state \in {"prepared", "submitted", "sent"}
        BY SendParts DEF SendTypes
      <4>3. Unsent = {}
        BY <3>1, <4>1, <4>2 DEF Unsent, Mine, Submitted
      <4>4. \A type, id : ~Waiting(type, id) /\ ~Waiting(type, id)'
        BY <2>2, <4>3 DEF Waiting
      <4>5. \A type, after, id :
              /\ Has(outbox', type, id) <=> Has(outbox, type, id) \/ (r.type = type /\ r.id = id)
              /\ Before(outbox', type, after, id)
                   <=> \/ Before(outbox, type, after, id)
                       \/ Has(outbox, type, id) /\ r.type = after /\ r.id = id
        BY <2>3, <4>1, HasAppend
      <4>6. \A type, after, id :
              /\ ToCome(type, id) <=> Has(outbox, type, id)
              /\ ToCome(type, id)' <=> Has(outbox', type, id)
              /\ ToComeBefore(type, after, id) <=> Before(outbox, type, after, id)
              /\ ToComeBefore(type, after, id)' <=> Before(outbox', type, after, id)
        BY <2>2, <4>3, <4>4 DEF ToCome, ToComeBefore
      <4> QED
        BY <3>1, <4>5, <4>6 DEF SendsLast
    <3> QED
      BY <3>2, <3>3
  <2> QED
    BY <2>7, <2>8
<1> QED
  BY <1>1, <1>2

(* The publisher reads the oldest response.                                    *)
LEMMA ReadStep ==
  ASSUME RespPart, outbox # << >>, outbox' = Tail(outbox),
         UNCHANGED <<resp, sends, overtaken>>, cl'.generation = cl.generation,
         NEW type, NEW id, Head(outbox).type = type, Head(outbox).id = id
  PROVE  /\ RespPart' /\ SendsNothing
         /\ Head(outbox) \in Responses
         /\ ToCome(type, id)
         /\ \A after : ToCome(after, id)' => ToComeBefore(type, after, id)
<1>1. outbox \in Seq(Responses)
  BY DEF RespPart
<1>2. outbox' \in Seq(Responses) /\ Head(outbox) \in Responses
  BY <1>1, AtFront
<1>3. Mine' = Mine /\ Unsent' = Unsent
  BY DEF Mine, Unsent
<1>4. ResponsesIntact' /\ SendsOrdered'
  BY <1>3 DEF RespPart, ResponsesIntact, SendsOrdered
<1>5. RespPart'
  BY <1>2, <1>4 DEF RespPart
<1>6. \A t, after, x :
        /\ Has(outbox, t, x)
             <=> (Head(outbox).type = t /\ Head(outbox).id = x) \/ Has(outbox', t, x)
        /\ Before(outbox', t, after, x) => Before(outbox, t, after, x)
        /\ Head(outbox).type = t /\ Head(outbox).id = x /\ Has(outbox', after, x)
             => Before(outbox, t, after, x)
  BY <1>1, HasTail
<1>7. \A t, x : Waiting(t, x)' <=> Waiting(t, x)
  BY <1>3 DEF Waiting
<1>8. SendsNothing
  BY <1>3, <1>6, <1>7 DEF SendsNothing, ToCome, ToComeBefore
<1>9. Has(outbox, type, id) /\ ToCome(type, id)
  BY <1>6 DEF ToCome
<1>10. ASSUME NEW after, ToCome(after, id)'
       PROVE  ToComeBefore(type, after, id)
  <2>1. CASE Has(outbox', after, id)
    BY <1>6, <2>1 DEF ToComeBefore
  <2>2. CASE Waiting(after, id)'
    BY <1>7, <1>9, <2>2 DEF ToComeBefore
  <2> QED
    BY <1>10, <2>1, <2>2 DEF ToCome
<1> QED
  BY <1>2, <1>5, <1>8, <1>9, <1>10

LEMMA KernelSendsStep ==
  ASSUME RespPart, KernelSends
  PROVE  RespPart' /\ SendsNothing
<1> DEFINE n == Len(sends)
<1>1. PICK i \in Submitted :
        /\ \A j \in Submitted : i <= j
        /\ sends' = [sends EXCEPT ![i].state = "sent"]
        /\ outbox' = IF sends[i].gen = cl.generation /\ resp.buf[sends[i].slot] # PingResp
                     THEN Append(outbox, resp.buf[sends[i].slot]) ELSE outbox
  BY DEF KernelSends
<1> DEFINE s == sends[i]
           r == resp.buf[s.slot]
<1>2. UNCHANGED <<cl, resp, overtaken>>
  BY DEF KernelSends
<1>3. n \in Nat /\ DOMAIN sends = 1 .. n /\ \A j \in DOMAIN sends : sends[j] \in SendTypes
  BY SendParts
<1>4. i \in 1 .. n /\ s.state = "submitted" /\ s \in SendTypes
  BY <1>1, <1>3 DEF Submitted
<1>5. [s EXCEPT !.state = "sent"] \in SendTypes
  BY <1>4 DEF SendTypes
<1>6. /\ sends' \in Seq(SendTypes) /\ DOMAIN sends' = 1 .. n
      /\ \A j \in 1 .. n : j # i => sends'[j] = sends[j]
      /\ sends'[i] = [s EXCEPT !.state = "sent"]
  <2>1. sends \in [1 .. n -> SendTypes]
    BY LenProperties DEF RespPart
  <2>2. sends' \in [1 .. n -> SendTypes]
    BY <1>1, <1>4, <1>5, <2>1
  <2>3. \A f \in [1 .. n -> SendTypes] : f \in Seq(SendTypes)
    BY <1>3
  <2> QED
    BY <1>1, <1>4, <2>1, <2>2, <2>3
<1>7. \A j \in 1 .. n : /\ sends'[j].slot = sends[j].slot /\ sends'[j].gen = sends[j].gen
                        /\ sends'[j].what = sends[j].what
                        /\ sends'[j].state = IF j = i THEN "sent" ELSE sends[j].state
  BY <1>4, <1>6 DEF SendTypes
<1>8. r \in Responses
  BY <1>4 DEF RespPart, SendTypes
<1>9. outbox' \in Seq(Responses)
  BY <1>1, <1>8, AtEnd DEF RespPart
<1>10. Mine' = Mine /\ Mine \subseteq 1 .. n
  BY <1>2, <1>3, <1>6, <1>7 DEF Mine
<1>11. Unsent' = Unsent \ {i} /\ Unsent \subseteq 1 .. n
  BY <1>7, <1>10 DEF Unsent
<1>12. ResponsesIntact'
  <2>1. resp'.in_flight = {sends'[j].slot : j \in Mine'}
    BY <1>2, <1>7, <1>10 DEF RespPart, ResponsesIntact
  <2>2. \A j, k \in Mine' : j # k => sends'[j].slot # sends'[k].slot
    BY <1>7, <1>10 DEF RespPart, ResponsesIntact
  <2>3. \A j \in Mine' : sends'[j].state = "sent" \/ resp'.buf[sends'[j].slot] = sends'[j].what
    BY <1>2, <1>7, <1>10 DEF RespPart, ResponsesIntact
  <2> QED
    BY <2>1, <2>2, <2>3 DEF ResponsesIntact
<1>13. \A j \in 1 .. n : j < i => sends[j].state = "sent"
  <2> SUFFICES ASSUME NEW j \in 1 .. n, j < i PROVE sends[j].state = "sent"
    OBVIOUS
  <2>1. j \notin Submitted
    BY <1>1, <1>4
  <2>2. sends[j].state # "submitted" /\ sends[j].state # "prepared"
    BY <1>3, <1>4, <2>1 DEF Submitted, RespPart, SendsOrdered
  <2>3. sends[j].state \in {"prepared", "submitted", "sent"}
    BY <1>3 DEF SendTypes
  <2> QED
    BY <2>2, <2>3
<1>14. SendsOrdered'
  <2>1. \A j \in DOMAIN sends' : sends'[j].gen <= cl'.generation
    BY <1>2, <1>3, <1>6, <1>7 DEF RespPart, SendsOrdered
  <2>2. ASSUME NEW j \in 1 .. n, NEW k \in 1 .. n, j < k
        PROVE  /\ sends'[j].state = "prepared" => sends'[k].state = "prepared"
               /\ sends'[k].state = "sent" => sends'[j].state = "sent"
    <3>1. /\ sends[j].state = "prepared" => sends[k].state = "prepared"
          /\ sends[k].state = "sent" => sends[j].state = "sent"
      BY <1>3, <2>2 DEF RespPart, SendsOrdered
    <3> QED
      BY <1>4, <1>7, <1>13, <2>2, <3>1
  <2> QED
    BY <1>6, <2>1, <2>2 DEF SendsOrdered
<1>15. RespPart'
  BY <1>2, <1>6, <1>9, <1>12, <1>14 DEF RespPart
<1>16. \A j \in Unsent : j # i /\ i \in Unsent => i < j
  BY <1>3, <1>4, <1>11, <1>13 DEF Unsent
<1>17. ASSUME NEW type, NEW id
       PROVE  /\ Waiting(type, id)' => Waiting(type, id)
              /\ Waiting(type, id)' /\ i \in Unsent
                   => \E j \in Unsent : i < j /\ sends[j].what.type = type /\ sends[j].what.id = id
  BY <1>7, <1>11, <1>16 DEF Waiting
<1>18. ASSUME NEW type, NEW after, NEW id,
              \E j, k \in Unsent' : /\ j < k
                                    /\ sends'[j].what.type = type /\ sends'[j].what.id = id
                                    /\ sends'[k].what.type = after /\ sends'[k].what.id = id
       PROVE  ToComeBefore(type, after, id)
  BY <1>7, <1>11, <1>18 DEF ToComeBefore
<1>19. CASE outbox' = outbox
  BY <1>15, <1>17, <1>18, <1>19 DEF SendsNothing, ToCome, ToComeBefore
<1>20. CASE outbox' # outbox
  <2>1. outbox' = Append(outbox, r) /\ i \in Mine
    BY <1>1, <1>3, <1>4, <1>20 DEF Mine
  <2>2. i \in Unsent
    BY <1>4, <2>1 DEF Unsent
  <2>3. r = s.what
    BY <1>4, <2>1 DEF RespPart, ResponsesIntact
  <2> HIDE DEF r
  <2> outbox \in Seq(Responses)
    BY DEF RespPart
  <2>4. \A type, after, id :
          /\ Has(outbox', type, id) <=> Has(outbox, type, id) \/ (r.type = type /\ r.id = id)
          /\ Before(outbox', type, after, id)
               <=> \/ Before(outbox, type, after, id)
                   \/ Has(outbox, type, id) /\ r.type = after /\ r.id = id
    BY <1>8, <2>1, HasAppend
  <2>5. ASSUME NEW type, NEW id, r.type = type, r.id = id
        PROVE  Waiting(type, id)
    BY <2>2, <2>3, <2>5 DEF Waiting
  <2>6. ASSUME NEW type, NEW id, ToCome(type, id)' PROVE ToCome(type, id)
    BY <1>17, <2>4, <2>5, <2>6 DEF ToCome
  <2>7. ASSUME NEW type, NEW after, NEW id, ToComeBefore(type, after, id)'
        PROVE  ToComeBefore(type, after, id)
    <3>1. CASE Before(outbox', type, after, id)
      BY <2>4, <2>5, <3>1 DEF ToComeBefore
    <3>2. CASE Has(outbox', type, id) /\ Waiting(after, id)'
      <4>1. CASE Has(outbox, type, id)
        BY <1>17, <3>2, <4>1 DEF ToComeBefore
      <4>2. CASE r.type = type /\ r.id = id
        BY <1>17, <2>2, <2>3, <3>2, <4>2 DEF ToComeBefore
      <4> QED
        BY <2>4, <3>2, <4>1, <4>2
    <3> QED
      BY <1>18, <2>7, <3>1, <3>2 DEF ToComeBefore
  <2> QED
    BY <1>15, <2>6, <2>7 DEF SendsNothing
<1> QED
  BY <1>15, <1>19, <1>20

(* The sends prepared so far are submitted.                                    *)
LEMMA SubmitStep ==
  ASSUME RespPart, sends' = AllSubmitted, UNCHANGED <<cl, resp, outbox, overtaken>>
  PROVE  RespPart' /\ SendsNothing
<1> DEFINE n == Len(sends)
<1>1. n \in Nat /\ DOMAIN sends = 1 .. n /\ \A j \in DOMAIN sends : sends[j] \in SendTypes
  BY SendParts
<1>2. \A j \in 1 .. n : sends'[j] = [sends[j] EXCEPT !.state = IF @ = "prepared"
                                                               THEN "submitted" ELSE @]
  BY <1>1 DEF AllSubmitted
<1>3. \A j \in 1 .. n : /\ sends'[j] \in SendTypes
                        /\ sends'[j].slot = sends[j].slot /\ sends'[j].gen = sends[j].gen
                        /\ sends'[j].what = sends[j].what
                        /\ sends'[j].state = "sent" <=> sends[j].state = "sent"
                        /\ sends'[j].state # "prepared"
  BY ZenonT(40), <1>1, <1>2 DEF SendTypes
<1>4. DOMAIN sends' = 1 .. n /\ sends' \in Seq(SendTypes)
  <2>1. sends' = [j \in 1 .. n |-> sends'[j]]
    BY <1>1 DEF AllSubmitted
  <2>2. sends' \in [1 .. n -> SendTypes]
    BY <1>3, <2>1
  <2>3. \A f \in [1 .. n -> SendTypes] : f \in Seq(SendTypes)
    BY <1>1
  <2> QED
    BY <2>1, <2>2, <2>3
<1>5. Mine' = Mine /\ Mine \subseteq 1 .. n
  BY <1>1, <1>3, <1>4 DEF Mine
<1>6. Unsent' = Unsent /\ Unsent \subseteq 1 .. n
  BY <1>3, <1>5 DEF Unsent
<1>7. ResponsesIntact'
  <2>1. resp'.in_flight = {sends'[j].slot : j \in Mine'}
    BY <1>3, <1>5 DEF RespPart, ResponsesIntact
  <2>2. \A j, k \in Mine' : j # k => sends'[j].slot # sends'[k].slot
    BY <1>3, <1>5 DEF RespPart, ResponsesIntact
  <2>3. \A j \in Mine' : sends'[j].state = "sent" \/ resp'.buf[sends'[j].slot] = sends'[j].what
    BY <1>3, <1>5 DEF RespPart, ResponsesIntact
  <2> QED
    BY <2>1, <2>2, <2>3 DEF ResponsesIntact
<1>8. SendsOrdered'
  BY ZenonT(40), <1>1, <1>3, <1>4 DEF RespPart, SendsOrdered
<1>9. \A type, id : Waiting(type, id)' <=> Waiting(type, id)
  BY <1>3, <1>6 DEF Waiting
<1>10. SendsNothing
  BY <1>3, <1>6, <1>9 DEF SendsNothing, ToCome, ToComeBefore
<1> QED
  BY <1>4, <1>7, <1>8, <1>10 DEF RespPart

(* The oldest send is completed.                                               *)
LEMMA SendRespCqeStep ==
  ASSUME RespPart, SendRespCqe
  PROVE  RespPart' /\ SendsNothing
<1> DEFINE n == Len(sends)
           e == Head(sends)
<1>1. sends \in Seq(SendTypes) /\ sends # << >> /\ sends' = Tail(sends)
  BY DEF RespPart, SendRespCqe
<1>2. /\ sends' \in Seq(SendTypes) /\ n \in Nat \ {0}
      /\ DOMAIN sends = 1 .. n /\ DOMAIN sends' = 1 .. n - 1
      /\ \A j \in 1 .. n - 1 : sends'[j] = sends[j + 1]
      /\ e = sends[1]
  BY <1>1, AtFront
<1>3. /\ e.state = "sent"
      /\ resp' = IF e.gen = cl.generation
                 THEN [resp EXCEPT !.in_flight = @ \ {e.slot}] ELSE resp
      /\ UNCHANGED <<cl, outbox, overtaken>>
  BY DEF SendRespCqe
<1>4. e \in SendTypes
  BY <1>1, AtFront
<1> HIDE DEF e, n
<1>5. \A j \in DOMAIN sends' : j + 1 \in DOMAIN sends /\ sends'[j] = sends[j + 1] /\ j + 1 # 1
  BY <1>2
<1>6. \A j \in DOMAIN sends : j # 1 => j - 1 \in DOMAIN sends' /\ sends'[j - 1] = sends[j]
  BY <1>2
<1>7. \A j : j \in Mine' <=> j \in DOMAIN sends' /\ j + 1 \in Mine
  BY <1>3, <1>5 DEF Mine
<1>8. \A j : j \in Unsent' <=> j \in DOMAIN sends' /\ j + 1 \in Unsent
  BY <1>5, <1>7 DEF Unsent
<1>9. /\ resp' \in [next : RespIdx, in_flight : SUBSET RespIdx, buf : [RespIdx -> Responses]]
      /\ resp'.buf = resp.buf
      /\ resp'.in_flight = IF e.gen = cl.generation THEN resp.in_flight \ {e.slot}
                                                    ELSE resp.in_flight
  BY <1>3 DEF RespPart
<1>10. 1 \in DOMAIN sends /\ (1 \in Mine <=> e.gen = cl.generation)
  BY <1>2 DEF Mine
<1>11. ResponsesIntact'
  <2>1. ASSUME NEW k \in resp'.in_flight PROVE \E j \in Mine' : sends'[j].slot = k
    <3>1. PICK j \in Mine : sends[j].slot = k
      BY <1>9, <2>1 DEF RespPart, ResponsesIntact
    <3>2. j # 1
      BY <1>2, <1>9, <1>10, <2>1, <3>1
    <3>3. j \in DOMAIN sends /\ j \in Int
      BY <1>2, <3>1 DEF Mine
    <3>4. j - 1 \in DOMAIN sends' /\ sends'[j - 1] = sends[j] /\ j - 1 + 1 = j
      BY <1>6, <3>2, <3>3
    <3>5. j - 1 \in Mine'
      BY <1>7, <3>1, <3>4
    <3> QED
      BY <3>1, <3>4, <3>5
  <2>2. ASSUME NEW j \in Mine' PROVE sends'[j].slot \in resp'.in_flight
    <3>1. j + 1 \in Mine /\ sends'[j] = sends[j + 1] /\ j + 1 # 1
      BY <1>5, <1>7, <2>2
    <3>2. sends[j + 1].slot \in resp.in_flight
      BY <3>1 DEF RespPart, ResponsesIntact
    <3>3. 1 \in Mine => sends[j + 1].slot # sends[1].slot
      BY <3>1 DEF RespPart, ResponsesIntact
    <3> QED
      BY <1>2, <1>9, <1>10, <3>1, <3>2, <3>3
  <2>3. resp'.in_flight = {sends'[j].slot : j \in Mine'}
    BY <2>1, <2>2
  <2>4. \A j, k \in Mine' : j # k => sends'[j].slot # sends'[k].slot
    <3> SUFFICES ASSUME NEW j \in Mine', NEW k \in Mine', j # k
                 PROVE  sends'[j].slot # sends'[k].slot
      OBVIOUS
    <3>1. /\ j + 1 \in Mine /\ sends'[j] = sends[j + 1]
          /\ k + 1 \in Mine /\ sends'[k] = sends[k + 1]
          /\ j \in Int /\ k \in Int
      BY <1>2, <1>5, <1>7
    <3>2. j + 1 # k + 1
      BY <3>1
    <3> QED
      BY <3>1, <3>2 DEF RespPart, ResponsesIntact
  <2>5. \A j \in Mine' : sends'[j].state = "sent" \/ resp'.buf[sends'[j].slot] = sends'[j].what
    BY <1>5, <1>7, <1>9 DEF RespPart, ResponsesIntact
  <2> QED
    BY <2>3, <2>4, <2>5 DEF ResponsesIntact
<1>12. SendsOrdered'
  <2>1. \A j \in DOMAIN sends' : sends'[j].gen <= cl'.generation
    BY <1>3, <1>5 DEF RespPart, SendsOrdered
  <2>2. ASSUME NEW j \in DOMAIN sends', NEW k \in DOMAIN sends', j < k
        PROVE  /\ sends'[j].state = "prepared" => sends'[k].state = "prepared"
               /\ sends'[k].state = "sent" => sends'[j].state = "sent"
    <3>1. j + 1 < k + 1
      BY <1>2, <2>2
    <3> QED
      BY <1>5, <3>1 DEF RespPart, SendsOrdered
  <2> QED
    BY <2>1, <2>2 DEF SendsOrdered
<1>13. RespPart'
  BY <1>2, <1>3, <1>9, <1>11, <1>12 DEF RespPart
<1>14. \A j \in Unsent' : j + 1 \in Unsent /\ sends'[j] = sends[j + 1] /\ j \in Int
  BY <1>2, <1>5, <1>8
<1>15. \A type, id : Waiting(type, id)' => Waiting(type, id)
  BY <1>14 DEF Waiting
<1>16. ASSUME NEW type, NEW after, NEW id, ToComeBefore(type, after, id)'
       PROVE  ToComeBefore(type, after, id)
  <2>1. CASE Before(outbox', type, after, id) \/ (Has(outbox', type, id) /\ Waiting(after, id)')
    BY <1>3, <1>15, <2>1 DEF ToComeBefore
  <2>2. ASSUME NEW j \in Unsent', NEW k \in Unsent', j < k,
               sends'[j].what.type = type, sends'[j].what.id = id,
               sends'[k].what.type = after, sends'[k].what.id = id
        PROVE  ToComeBefore(type, after, id)
    <3>1. j + 1 < k + 1
      BY <1>14, <2>2
    <3> QED
      BY <1>14, <2>2, <3>1 DEF ToComeBefore
  <2> QED
    BY <1>16, <2>1, <2>2 DEF ToComeBefore
<1>17. SendsNothing
  BY <1>3, <1>15, <1>16 DEF SendsNothing, ToCome
<1> QED
  BY <1>13, <1>17

-------------------------------------------------------------------------------
(* A message is let through once.                                              *)

(* The packets of one id arrive in the order they were first sent in: the      *)
(* PUBLISHes of a message before its PUBRELs, and those before the next one.   *)
Rank(p) == 2 * p.message + (IF p.type = "PUBREL" THEN 1 ELSE 0)
PubRank(id) == 2 * publisher[id].message + (IF publisher[id].state = "published" THEN 0 ELSE 1)
InOrder ==
  /\ \A i, j \in DOMAIN inbox :
       i < j /\ inbox[i].id = inbox[j].id => Rank(inbox[i]) <= Rank(inbox[j])
  /\ \A i \in DOMAIN inbox : Rank(inbox[i]) <= PubRank(inbox[i].id)

(* As long as a PUBLISH of a message that was let through may arrive, its id   *)
(* is known, and no PUBREL that would make it forgotten arrives before.        *)
RelFree(i, id) ==
  \A j \in DOMAIN inbox : j < i => ~(inbox[j].type = "PUBREL" /\ inbox[j].id = id)
OnceId(id) ==
  /\ \A n \in 1 .. MaxMessages : /\ forwarded[<<id, n>>] \in {0, 1}
                                 /\ n > publisher[id].message => forwarded[<<id, n>>] = 0
  /\ \A i \in DOMAIN inbox :
       /\ inbox[i].id = id /\ inbox[i].type = "PUBLISH"
       /\ forwarded[<<id, inbox[i].message>>] = 1
       => Known(cl, id) /\ RelFree(i, id)
  /\ publisher[id].state = "published" /\ forwarded[<<id, publisher[id].message>>] = 1
       => Known(cl, id) /\ ~Has(inbox, "PUBREL", id)
Order == InOrder /\ \A id \in Ids : OnceId(id)

(* What a step leaves alone for id. *)
SameId(id) == /\ publisher'[id] = publisher[id]
              /\ \A n : forwarded'[<<id, n>>] = forwarded[<<id, n>>]
              /\ Known(cl', id) <=> Known(cl, id)

LEMMA InboxParts ==
  ASSUME InPart
  PROVE  /\ Len(inbox) \in Nat /\ DOMAIN inbox = 1 .. Len(inbox)
         /\ \A i \in DOMAIN inbox : /\ inbox[i] \in Packets /\ inbox[i].id \in Ids
                                    /\ inbox[i].message \in 1 .. MaxMessages
                                    /\ inbox[i].type \in {"PUBLISH", "PUBREL"}
<1>1. /\ Len(inbox) \in Nat /\ DOMAIN inbox = 1 .. Len(inbox)
      /\ \A i \in DOMAIN inbox : inbox[i] \in Packets
  BY LenProperties, ElementOfSeq DEF InPart
<1> QED
  BY <1>1 DEF Packets

(* A packet is taken from the inbox.                                           *)
LEMMA TakeParts ==
  ASSUME InPart, batch > 0, inbox' = Tail(inbox), batch' = batch - 1
  PROVE  /\ InPart' /\ inbox # << >> /\ Len(inbox) \in Nat \ {0}
         /\ DOMAIN inbox' = 1 .. Len(inbox) - 1
         /\ \A i \in DOMAIN inbox' : /\ i + 1 \in DOMAIN inbox /\ inbox'[i] = inbox[i + 1]
                                     /\ i + 1 > 1 /\ i \in Int
         /\ Head(inbox) = inbox[1] /\ 1 \in DOMAIN inbox /\ Head(inbox) \in Packets
         /\ Head(inbox).id \in Ids /\ Head(inbox).message \in 1 .. MaxMessages
<1>1. inbox \in Seq(Packets) /\ batch \in Int /\ batch <= Len(inbox) /\ Len(inbox) \in Nat
  BY LenProperties DEF InPart
<1>2. inbox # << >>
  BY <1>1, EmptySeq
<1>3. /\ inbox' \in Seq(Packets) /\ Len(inbox) \in Nat \ {0}
      /\ DOMAIN inbox = 1 .. Len(inbox)
      /\ DOMAIN inbox' = 1 .. Len(inbox) - 1 /\ Len(inbox') = Len(inbox) - 1
      /\ \A i \in 1 .. Len(inbox) - 1 : inbox'[i] = inbox[i + 1]
      /\ Head(inbox) = inbox[1] /\ Head(inbox) \in Packets
  BY <1>1, <1>2, AtFront
<1>4. InPart'
  BY <1>1, <1>3 DEF InPart
<1>5. Head(inbox).id \in Ids /\ Head(inbox).message \in 1 .. MaxMessages
  BY <1>3 DEF Packets
<1>6. \A i \in DOMAIN inbox' : /\ i + 1 \in DOMAIN inbox /\ inbox'[i] = inbox[i + 1]
                               /\ i + 1 > 1 /\ i \in Int
  BY <1>3
<1> QED
  BY <1>2, <1>3, <1>4, <1>5, <1>6

LEMMA RankIs ==
  ASSUME NEW p \in Packets
  PROVE  /\ p.type = "PUBLISH" => Rank(p) = 2 * p.message
         /\ p.type = "PUBREL" => Rank(p) = 2 * p.message + 1
         /\ p.message \in Nat /\ Rank(p) \in Nat
<1>1. p.message \in Nat /\ p.type \in {"PUBLISH", "PUBREL"}
  BY BoundsAssumption DEF Packets
<1> QED
  BY <1>1 DEF Rank

LEMMA TakeOrder ==
  ASSUME InPart, InOrder, batch > 0, inbox' = Tail(inbox), batch' = batch - 1,
         UNCHANGED publisher
  PROVE  InOrder'
<1>1. \A i \in DOMAIN inbox' : i + 1 \in DOMAIN inbox /\ inbox'[i] = inbox[i + 1] /\ i \in Int
  BY TakeParts
<1>2. /\ \A i \in DOMAIN inbox' : Rank(inbox'[i]) <= PubRank(inbox'[i].id)
      /\ \A id : PubRank(id)' = PubRank(id)
  BY <1>1 DEF InOrder, PubRank
<1>3. \A i, j \in DOMAIN inbox' :
        i < j /\ inbox'[i].id = inbox'[j].id => Rank(inbox'[i]) <= Rank(inbox'[j])
  <2> SUFFICES ASSUME NEW i \in DOMAIN inbox', NEW j \in DOMAIN inbox', i < j,
                      inbox'[i].id = inbox'[j].id
               PROVE  Rank(inbox'[i]) <= Rank(inbox'[j])
    OBVIOUS
  <2>1. i + 1 < j + 1
    BY <1>1
  <2> QED
    BY <1>1, <2>1 DEF InOrder
<1> QED
  BY <1>2, <1>3 DEF InOrder

LEMMA TakeOnce ==
  ASSUME InPart, batch > 0, inbox' = Tail(inbox), batch' = batch - 1,
         NEW id \in Ids, OnceId(id), SameId(id)
  PROVE  OnceId(id)'
<1>1. \A i \in DOMAIN inbox' : i + 1 \in DOMAIN inbox /\ inbox'[i] = inbox[i + 1] /\ i \in Int
  BY TakeParts
<1>2. ASSUME NEW i \in DOMAIN inbox', RelFree(i + 1, id) PROVE RelFree(i, id)'
  <2> SUFFICES ASSUME NEW j \in DOMAIN inbox', j < i
               PROVE  ~(inbox'[j].type = "PUBREL" /\ inbox'[j].id = id)
    BY DEF RelFree
  <2>1. j + 1 < i + 1
    BY <1>1
  <2> QED
    BY <1>1, <1>2, <2>1 DEF RelFree
<1>3. \A i \in DOMAIN inbox' :
        /\ inbox'[i].id = id /\ inbox'[i].type = "PUBLISH"
        /\ forwarded'[<<id, inbox'[i].message>>] = 1
        => Known(cl', id) /\ RelFree(i, id)'
  BY <1>1, <1>2 DEF OnceId, SameId
<1>4. Has(inbox', "PUBREL", id) => Has(inbox, "PUBREL", id)
  BY <1>1 DEF Has
<1> QED
  BY <1>3, <1>4 DEF OnceId, SameId, Known, Incoming, Used

(* A packet is added to the inbox, by its id's publisher.                      *)
LEMMA AddParts ==
  ASSUME InPart, NEW p \in Packets, inbox' = Append(inbox, p), batch' = batch
  PROVE  /\ InPart' /\ Len(inbox) \in Nat /\ DOMAIN inbox = 1 .. Len(inbox)
         /\ DOMAIN inbox' = 1 .. Len(inbox) + 1
         /\ \A i \in DOMAIN inbox : inbox'[i] = inbox[i] /\ i < Len(inbox) + 1
         /\ inbox'[Len(inbox) + 1] = p
<1>1. inbox \in Seq(Packets) /\ batch \in 0 .. Len(inbox)
  BY DEF InPart
<1>2. /\ inbox' \in Seq(Packets) /\ Len(inbox) \in Nat
      /\ DOMAIN inbox = 1 .. Len(inbox)
      /\ DOMAIN inbox' = 1 .. Len(inbox) + 1
      /\ Len(inbox') = Len(inbox) + 1
      /\ \A i \in 1 .. Len(inbox) : inbox'[i] = inbox[i]
      /\ inbox'[Len(inbox) + 1] = p
  BY <1>1, AtEnd
<1>3. batch' \in 0 .. Len(inbox')
  BY <1>1, <1>2
<1> QED
  BY <1>2, <1>3 DEF InPart

LEMMA AddOrder ==
  ASSUME InPart, InOrder, NEW p \in Packets, inbox' = Append(inbox, p), batch' = batch,
         \A id \in Ids : PubRank(id) \in Int /\ PubRank(id)' \in Int,
         \A id \in Ids : PubRank(id) <= PubRank(id)',
         \A id \in Ids : id = p.id => Rank(p) = PubRank(id)'
  PROVE  InOrder'
<1> DEFINE n == Len(inbox)
<1>1. /\ n \in Nat /\ DOMAIN inbox = 1 .. n /\ DOMAIN inbox' = 1 .. n + 1
      /\ \A i \in DOMAIN inbox : inbox'[i] = inbox[i]
      /\ inbox'[n + 1] = p
  BY AddParts
<1>2. \A i \in DOMAIN inbox : inbox[i] \in Packets /\ inbox[i].id \in Ids
  BY InboxParts
<1>3. p.id \in Ids
  BY DEF Packets
<1>4. \A i \in DOMAIN inbox : Rank(inbox[i]) \in Int /\ Rank(p) \in Int
  BY <1>2, RankIs
<1> HIDE DEF n
<1>5. ASSUME NEW i \in DOMAIN inbox', NEW id \in Ids, inbox'[i].id = id
      PROVE  Rank(inbox'[i]) <= PubRank(id)'
  <2>1. CASE i = n + 1
    BY <1>1, <1>3, <1>4, <1>5, <2>1
  <2>2. CASE i # n + 1
    <3>1. i \in DOMAIN inbox /\ inbox'[i] = inbox[i]
      BY <1>1, <2>2
    <3>2. Rank(inbox[i]) <= PubRank(id)
      BY <1>5, <3>1 DEF InOrder
    <3>3. Rank(inbox[i]) \in Int /\ PubRank(id) \in Int /\ PubRank(id)' \in Int
          /\ PubRank(id) <= PubRank(id)'
      BY <1>4, <3>1
    <3> HIDE DEF PubRank, Rank
    <3> QED
      BY <3>1, <3>2, <3>3
  <2> QED
    BY <2>1, <2>2
<1>6. ASSUME NEW i \in DOMAIN inbox', NEW j \in DOMAIN inbox', i < j,
             inbox'[i].id = inbox'[j].id
      PROVE  Rank(inbox'[i]) <= Rank(inbox'[j])
  <2>1. i \in DOMAIN inbox /\ inbox'[i] = inbox[i]
    BY <1>1, <1>6
  <2>2. CASE j = n + 1
    <3>1. p.id = inbox[i].id /\ inbox'[j] = p
      BY <1>1, <1>6, <2>1, <2>2
    <3>2. Rank(inbox[i]) <= PubRank(p.id) /\ PubRank(p.id) <= Rank(p)
          /\ PubRank(p.id) \in Int /\ Rank(inbox[i]) \in Int /\ Rank(p) \in Int
      <4>1. Rank(inbox[i]) <= PubRank(p.id)
        BY <2>1, <3>1 DEF InOrder
      <4>2. PubRank(p.id) <= Rank(p) /\ PubRank(p.id) \in Int
        BY <1>3
      <4> QED
        BY <1>4, <2>1, <4>1, <4>2
    <3> QED
      BY <2>1, <3>1, <3>2
  <2>3. CASE j # n + 1
    <3>1. j \in DOMAIN inbox /\ inbox'[j] = inbox[j]
      BY <1>1, <2>3
    <3> QED
      BY <1>6, <2>1, <3>1 DEF InOrder
  <2> QED
    BY <2>2, <2>3
<1>7. \A i \in DOMAIN inbox' : inbox'[i].id \in Ids
  BY <1>1, <1>2, <1>3
<1> QED
  BY <1>5, <1>6, <1>7 DEF InOrder

LEMMA AddOnce ==
  ASSUME InPart, NEW p \in Packets, inbox' = Append(inbox, p), batch' = batch,
         NEW id \in Ids, OnceId(id),
         publisher[id].message \in Int, publisher'[id].message \in Int,
         publisher[id].message <= publisher'[id].message,
         UNCHANGED <<forwarded, cl>>,
         p.id = id /\ p.type = "PUBLISH" /\ forwarded[<<id, p.message>>] = 1
           => Known(cl, id) /\ ~Has(inbox, "PUBREL", id),
         publisher'[id].state = "published" /\ forwarded[<<id, publisher'[id].message>>] = 1
           => Known(cl, id) /\ ~Has(inbox, "PUBREL", id) /\ ~(p.id = id /\ p.type = "PUBREL")
  PROVE  OnceId(id)'
<1> DEFINE n == Len(inbox)
<1>1. /\ n \in Nat /\ DOMAIN inbox = 1 .. n /\ DOMAIN inbox' = 1 .. n + 1
      /\ \A i \in DOMAIN inbox : inbox'[i] = inbox[i]
      /\ inbox'[n + 1] = p
  BY AddParts
<1>2. Has(inbox', "PUBREL", id) <=> Has(inbox, "PUBREL", id) \/ (p.type = "PUBREL" /\ p.id = id)
  BY HasAppend DEF InPart
<1> HIDE DEF n
<1>3. ASSUME NEW m \in 1 .. MaxMessages
      PROVE  /\ forwarded[<<id, m>>] \in {0, 1}
             /\ m > publisher'[id].message => forwarded[<<id, m>>] = 0
  <2>1. m \in Int
    OBVIOUS
  <2> QED
    BY <1>3, <2>1 DEF OnceId
<1>4. ASSUME NEW i \in DOMAIN inbox', inbox'[i].id = id, inbox'[i].type = "PUBLISH",
             forwarded[<<id, inbox'[i].message>>] = 1
      PROVE  Known(cl, id) /\ RelFree(i, id)'
  <2>1. CASE i = n + 1
    <3>1. Known(cl, id) /\ ~Has(inbox, "PUBREL", id)
      BY <1>1, <1>4, <2>1
    <3> QED
      BY <1>1, <2>1, <3>1 DEF Has, RelFree
  <2>2. CASE i # n + 1
    <3>1. i \in DOMAIN inbox /\ inbox'[i] = inbox[i]
      BY <1>1, <2>2
    <3>2. Known(cl, id) /\ RelFree(i, id)
      BY <1>4, <3>1 DEF OnceId
    <3>3. \A j \in DOMAIN inbox' : j < i => j \in DOMAIN inbox /\ inbox'[j] = inbox[j]
      BY <1>1, <3>1
    <3> QED
      BY <3>2, <3>3 DEF RelFree
  <2> QED
    BY <2>1, <2>2
<1>5. forwarded' = forwarded /\ (Known(cl', id) <=> Known(cl, id))
  OBVIOUS
<1>6. publisher'[id].state = "published" /\ forwarded[<<id, publisher'[id].message>>] = 1
        => Known(cl, id) /\ ~Has(inbox', "PUBREL", id)
  BY <1>2
<1> QED
  BY <1>3, <1>4, <1>5, <1>6 DEF OnceId

(* PUBLISH lets a message through whose id is not known.                       *)
LEMMA NewOnce ==
  ASSUME InPart, PubPart, InOrder, batch > 0, inbox' = Tail(inbox), batch' = batch - 1,
         UNCHANGED publisher,
         NEW id \in Ids, OnceId(id), Head(inbox).id = id, Head(inbox).type = "PUBLISH",
         ~Known(cl, id), Known(cl', id),
         forwarded' = [forwarded EXCEPT ![<<id, Head(inbox).message>>] = @ + 1]
  PROVE  /\ OnceId(id)'
         /\ forwarded[<<id, Head(inbox).message>>] = 0
         /\ Head(inbox).message <= publisher[id].message
<1> DEFINE n == Head(inbox).message
           m == publisher[id].message
<1>1. /\ Head(inbox) = inbox[1] /\ 1 \in DOMAIN inbox /\ n \in 1 .. MaxMessages
      /\ \A i \in DOMAIN inbox' : /\ i + 1 \in DOMAIN inbox /\ inbox'[i] = inbox[i + 1]
                                  /\ i + 1 > 1 /\ i \in Int
  BY TakeParts
<1>2. m \in Nat /\ MaxMessages \in Nat
  BY BoundsAssumption DEF PubPart
<1>3. \A i \in DOMAIN inbox : inbox[i] \in Packets
  BY InboxParts
<1>4. Rank(inbox[1]) = 2 * n /\ 2 * n <= PubRank(id)
  BY <1>1, <1>3, RankIs DEF InOrder
<1>5. n <= m
  BY <1>1, <1>2, <1>4 DEF PubRank
<1>6. forwarded[<<id, n>>] = 0
  BY <1>1 DEF OnceId
<1>7. /\ forwarded'[<<id, n>>] = 1
      /\ \A k \in 1 .. MaxMessages : k # n => forwarded'[<<id, k>>] = forwarded[<<id, k>>]
  BY <1>1, <1>6 DEF PubPart, Messages
<1>8. \A i \in DOMAIN inbox' : inbox'[i].id = id /\ inbox'[i].type = "PUBREL"
                                 => inbox'[i].message >= n
  <2> SUFFICES ASSUME NEW i \in DOMAIN inbox', inbox'[i].id = id, inbox'[i].type = "PUBREL"
               PROVE  inbox'[i].message >= n
    OBVIOUS
  <2>1. Rank(inbox[1]) <= Rank(inbox[i + 1])
    BY <1>1 DEF InOrder
  <2>2. /\ Rank(inbox[i + 1]) = 2 * inbox[i + 1].message + 1
        /\ inbox[i + 1].message \in Nat
    BY <1>1, <1>3, RankIs
  <2> QED
    BY <1>1, <1>4, <2>1, <2>2
<1> HIDE DEF n, m
<1>9. ASSUME NEW k \in 1 .. MaxMessages
      PROVE  forwarded'[<<id, k>>] \in {0, 1} /\ (k > m => forwarded'[<<id, k>>] = 0)
  <2>1. CASE k = n
    BY <1>1, <1>2, <1>5, <1>7, <2>1
  <2>2. CASE k # n
    BY <1>7, <2>2 DEF OnceId, m
  <2> QED
    BY <2>1, <2>2
<1>10. \A k \in 1 .. MaxMessages : forwarded'[<<id, k>>] = 1 /\ k # n => forwarded[<<id, k>>] = 1
  BY <1>7
<1>11. ASSUME NEW i \in DOMAIN inbox', inbox'[i].id = id, inbox'[i].type = "PUBLISH",
              forwarded'[<<id, inbox'[i].message>>] = 1
       PROVE  RelFree(i, id)'
  <2>1. i + 1 \in DOMAIN inbox /\ inbox'[i] = inbox[i + 1]
        /\ inbox'[i] \in Packets /\ inbox'[i].message \in 1 .. MaxMessages
    BY <1>1, <1>3 DEF Packets
  <2>2. inbox'[i].message = n
    <3> SUFFICES ASSUME inbox'[i].message # n PROVE FALSE
      OBVIOUS
    <3>1. forwarded[<<id, inbox[i + 1].message>>] = 1
      BY <1>10, <1>11, <2>1
    <3> QED
      BY <1>11, <2>1, <3>1 DEF OnceId
  <2>3. Rank(inbox'[i]) = 2 * n
    BY <1>11, <2>1, <2>2, RankIs
  <2> SUFFICES ASSUME NEW j \in DOMAIN inbox', j < i,
                      inbox'[j].type = "PUBREL", inbox'[j].id = id
               PROVE  FALSE
    BY DEF RelFree
  <2>4. j + 1 \in DOMAIN inbox /\ inbox'[j] = inbox[j + 1] /\ j + 1 < i + 1
        /\ inbox'[j] \in Packets
    BY <1>1, <1>3
  <2>5. Rank(inbox'[j]) <= Rank(inbox'[i])
    BY <1>11, <2>1, <2>4 DEF InOrder
  <2>6. Rank(inbox'[j]) = 2 * inbox'[j].message + 1 /\ inbox'[j].message \in Nat
    BY <2>4, RankIs
  <2> QED
    BY <1>1, <1>8, <2>3, <2>5, <2>6
<1>12. ASSUME publisher[id].state = "published", forwarded'[<<id, m>>] = 1,
              Has(inbox', "PUBREL", id)
       PROVE  FALSE
  <2>1. PICK i \in DOMAIN inbox' : inbox'[i].type = "PUBREL" /\ inbox'[i].id = id
    BY <1>12 DEF Has
  <2>2. i + 1 \in DOMAIN inbox /\ inbox'[i] = inbox[i + 1] /\ inbox'[i] \in Packets
    BY <1>1, <1>3
  <2>3. Rank(inbox'[i]) <= PubRank(id)
    BY <2>1, <2>2 DEF InOrder
  <2>4. Rank(inbox'[i]) = 2 * inbox'[i].message + 1 /\ inbox'[i].message \in Nat
    BY <2>1, <2>2, RankIs
  <2>5. PubRank(id) = 2 * m
    BY <1>2, <1>12 DEF PubRank, m
  <2>6. m # n /\ m \in 1 .. MaxMessages
    BY <1>1, <1>2, <1>5, <1>8, <2>1, <2>3, <2>4, <2>5 DEF PubPart, m
  <2>7. forwarded[<<id, m>>] = 1
    BY <1>10, <1>12, <2>6
  <2> QED
    BY <1>12, <2>7 DEF OnceId, m
<1> QED
  BY <1>5, <1>6, <1>9, <1>11, <1>12 DEF OnceId, n, m

(* PUBREL makes an id forgotten that no PUBLISH to come depends on.            *)
LEMMA RelOnce ==
  ASSUME InPart, batch > 0, inbox' = Tail(inbox), batch' = batch - 1,
         UNCHANGED <<publisher, forwarded>>,
         NEW id \in Ids, OnceId(id), Head(inbox).id = id, Head(inbox).type = "PUBREL"
  PROVE  OnceId(id)'
<1>1. /\ Head(inbox) = inbox[1] /\ 1 \in DOMAIN inbox
      /\ \A i \in DOMAIN inbox' : /\ i + 1 \in DOMAIN inbox /\ inbox'[i] = inbox[i + 1]
                                  /\ i + 1 > 1
  BY TakeParts
<1>2. ASSUME NEW i \in DOMAIN inbox', inbox'[i].id = id, inbox'[i].type = "PUBLISH",
             forwarded[<<id, inbox'[i].message>>] = 1
      PROVE  FALSE
  <2>1. RelFree(i + 1, id)
    BY <1>1, <1>2 DEF OnceId
  <2> QED
    BY <1>1, <2>1 DEF RelFree
<1>3. Has(inbox, "PUBREL", id)
  BY <1>1 DEF Has
<1> QED
  BY <1>2, <1>3 DEF OnceId

-------------------------------------------------------------------------------
(* A message is acknowledged only when it was let through.                     *)

(* A PUBLISH of id that is not of message n. *)
Stray(q, id, n) ==
  \E i \in DOMAIN q : q[i].type = "PUBLISH" /\ q[i].id = id /\ q[i].message # n

(* What may be under way to the publisher, and what the broker knows of it, in *)
(* each of its states.                                                         *)
AckIdle(id) == ~Known(cl, id) /\ ~Has(inbox, "PUBLISH", id) /\ ~ToCome("PUBREC", id)
AckPublished(id) ==
  /\ forwarded[<<id, publisher[id].message>>] = 0 => ~Known(cl, id) /\ ~ToCome("PUBREC", id)
  /\ ~ToComeBefore("PUBREC", "PUBCOMP", id)
  /\ ~Stray(inbox, id, publisher[id].message)
AckReleased(id) ==
  /\ forwarded[<<id, publisher[id].message>>] = 1
  /\ ~Before(inbox, "PUBREL", "PUBLISH", id)
  /\ ToCome("PUBCOMP", id) => ~Known(cl, id)
  /\ ~Known(cl, id) => ~Has(inbox, "PUBLISH", id)
  /\ ~ToComeBefore("PUBCOMP", "PUBREC", id)
AckId(id) ==
  /\ publisher[id].state = "idle" => AckIdle(id)
  /\ publisher[id].state = "published" => AckPublished(id)
  /\ publisher[id].state = "released" => AckReleased(id)
Acks == (\A id \in Ids : AckId(id)) /\ (\A m \in acked : forwarded[m] = 1)

(* The inbox, and the responses to come, have no more of id than before.       *)
FewerPackets(id) ==
  /\ \A type : Has(inbox', type, id) => Has(inbox, type, id)
  /\ \A type, after : Before(inbox', type, after, id) => Before(inbox, type, after, id)
  /\ \A n : Stray(inbox', id, n) => Stray(inbox, id, n)
FewerResponses(id) ==
  /\ \A type : ToCome(type, id)' => ToCome(type, id)
  /\ \A type, after : ToComeBefore(type, after, id)' => ToComeBefore(type, after, id)

LEMMA BeforeBoth ==
  ASSUME NEW type, NEW after, NEW id, ToComeBefore(type, after, id)
  PROVE  ToCome(type, id) /\ ToCome(after, id)
BY DEF ToComeBefore, ToCome, Waiting, Before, Has

LEMMA AckMono ==
  ASSUME NEW id, AckId(id), SameId(id), FewerPackets(id), FewerResponses(id)
  PROVE  AckId(id)'
<1>1. Known(cl, id)' <=> Known(cl, id)
  BY DEF SameId
<1>2. /\ publisher'[id] = publisher[id]
      /\ forwarded'[<<id, publisher[id].message>>] = forwarded[<<id, publisher[id].message>>]
  BY DEF SameId
<1>3. AckIdle(id) => AckIdle(id)'
  BY <1>1 DEF AckIdle, FewerPackets, FewerResponses
<1>4. AckPublished(id) => AckPublished(id)'
  BY <1>1, <1>2 DEF AckPublished, FewerPackets, FewerResponses
<1>5. AckReleased(id) => AckReleased(id)'
  BY <1>1, <1>2 DEF AckReleased, FewerPackets, FewerResponses
<1> QED
  BY <1>2, <1>3, <1>4, <1>5 DEF AckId

LEMMA TakeFewer ==
  ASSUME InPart, batch > 0, inbox' = Tail(inbox), batch' = batch - 1
  PROVE  /\ \A id : FewerPackets(id)
         /\ \A type, after : /\ Has(inbox, Head(inbox).type, Head(inbox).id)
                             /\ Has(inbox', after, Head(inbox).id)
                                  => Before(inbox, Head(inbox).type, after, Head(inbox).id)
<1>1. inbox \in Seq(Packets) /\ inbox # << >>
  BY TakeParts DEF InPart
<1>2. \A type, after, id :
        /\ Has(inbox, type, id)
             <=> (Head(inbox).type = type /\ Head(inbox).id = id) \/ Has(inbox', type, id)
        /\ Before(inbox', type, after, id) => Before(inbox, type, after, id)
        /\ Head(inbox).type = type /\ Head(inbox).id = id /\ Has(inbox', after, id)
             => Before(inbox, type, after, id)
  BY <1>1, HasTail
<1>3. \A i \in DOMAIN inbox' : i + 1 \in DOMAIN inbox /\ inbox'[i] = inbox[i + 1]
  BY TakeParts
<1>4. \A id, n : Stray(inbox', id, n) => Stray(inbox, id, n)
  BY <1>3 DEF Stray
<1> QED
  BY <1>2, <1>4 DEF FewerPackets

LEMMA AddFewer ==
  ASSUME InPart, NEW p \in Packets, inbox' = Append(inbox, p), batch' = batch
  PROVE  \A id, type, after, n :
           /\ Has(inbox', type, id) <=> Has(inbox, type, id) \/ (p.type = type /\ p.id = id)
           /\ Before(inbox', type, after, id)
                <=> \/ Before(inbox, type, after, id)
                    \/ Has(inbox, type, id) /\ p.type = after /\ p.id = id
           /\ Stray(inbox', id, n)
                => \/ Stray(inbox, id, n)
                   \/ p.type = "PUBLISH" /\ p.id = id /\ p.message # n
           /\ p.id # id => FewerPackets(id)
<1>1. inbox \in Seq(Packets)
  BY DEF InPart
<1>2. \A id, type, after :
        /\ Has(inbox', type, id) <=> Has(inbox, type, id) \/ (p.type = type /\ p.id = id)
        /\ Before(inbox', type, after, id)
             <=> \/ Before(inbox, type, after, id)
                 \/ Has(inbox, type, id) /\ p.type = after /\ p.id = id
  BY <1>1, HasAppend
<1>3. /\ Len(inbox) \in Nat /\ DOMAIN inbox = 1 .. Len(inbox)
      /\ DOMAIN inbox' = 1 .. Len(inbox) + 1
      /\ \A i \in DOMAIN inbox : inbox'[i] = inbox[i]
      /\ inbox'[Len(inbox) + 1] = p
  BY AddParts
<1>4. ASSUME NEW id, NEW n, Stray(inbox', id, n)
      PROVE  \/ Stray(inbox, id, n)
             \/ p.type = "PUBLISH" /\ p.id = id /\ p.message # n
  <2>1. PICK i \in DOMAIN inbox' :
          inbox'[i].type = "PUBLISH" /\ inbox'[i].id = id /\ inbox'[i].message # n
    BY <1>4 DEF Stray
  <2>2. CASE i = Len(inbox) + 1
    BY <1>3, <2>1, <2>2
  <2>3. CASE i # Len(inbox) + 1
    <3>1. i \in DOMAIN inbox /\ inbox'[i] = inbox[i]
      BY <1>3, <2>3
    <3> QED
      BY <2>1, <3>1 DEF Stray
  <2> QED
    BY <2>2, <2>3
<1>5. ASSUME NEW id, p.id # id PROVE FewerPackets(id)
  BY <1>2, <1>4, <1>5 DEF FewerPackets
<1> QED
  BY <1>2, <1>4, <1>5

(* The steps for the packet id they are about.                                 *)
LEMMA OnceValue ==
  ASSUME PubPart, NEW id \in Ids, OnceId(id), publisher[id].state # "idle"
  PROVE  /\ publisher[id].message \in 1 .. MaxMessages
         /\ forwarded[<<id, publisher[id].message>>] \in {0, 1}
<1>1. publisher[id].message \in 1 .. MaxMessages
  BY BoundsAssumption DEF PubPart
<1> QED
  BY <1>1 DEF OnceId

LEMMA AckDuplicate ==
  ASSUME PubPart, NEW id \in Ids, AckId(id), OnceId(id), SameId(id), FewerPackets(id),
         Known(cl, id), SendsLast(Response("PUBREC", id))
  PROVE  AckId(id)'
<1>1. /\ \A type : ToCome(type, id)' => ToCome(type, id) \/ type = "PUBREC"
      /\ \A type, after : ToComeBefore(type, after, id)'
                            => ToComeBefore(type, after, id) \/ (ToCome(type, id) /\ after = "PUBREC")
  BY DEF SendsLast, Response
<1>2. Known(cl, id)' /\ publisher'[id] = publisher[id]
      /\ forwarded'[<<id, publisher[id].message>>] = forwarded[<<id, publisher[id].message>>]
  BY DEF SameId
<1>3. publisher[id].state # "idle"
  BY DEF AckId, AckIdle
<1>4. ASSUME AckPublished(id), publisher[id].state = "published" PROVE AckPublished(id)'
  <2>1. forwarded[<<id, publisher[id].message>>] # 0
    BY <1>4 DEF AckPublished
  <2>2. ~ToComeBefore("PUBREC", "PUBCOMP", id)'
    BY <1>1, <1>4 DEF AckPublished
  <2>3. ~Stray(inbox', id, publisher[id].message)
    BY <1>4 DEF AckPublished, FewerPackets
  <2> QED
    BY <1>2, <2>1, <2>2, <2>3 DEF AckPublished
<1>5. ASSUME AckReleased(id), publisher[id].state = "released" PROVE AckReleased(id)'
  <2>1. ~ToCome("PUBCOMP", id)
    BY <1>5 DEF AckReleased
  <2>2. ~ToCome("PUBCOMP", id)' /\ ~ToComeBefore("PUBCOMP", "PUBREC", id)'
    BY <1>1, <1>5, <2>1 DEF AckReleased
  <2>3. ~Before(inbox', "PUBREL", "PUBLISH", id)
    BY <1>5 DEF AckReleased, FewerPackets
  <2> QED
    BY <1>2, <1>5, <2>2, <2>3 DEF AckReleased
<1> QED
  BY <1>2, <1>3, <1>4, <1>5 DEF AckId

LEMMA AckNew ==
  ASSUME InPart, PubPart, InOrder,
         batch > 0, inbox' = Tail(inbox), batch' = batch - 1, UNCHANGED publisher,
         NEW id \in Ids, Head(inbox).id = id, Head(inbox).type = "PUBLISH",
         AckId(id), OnceId(id), ~Known(cl, id), Known(cl', id),
         forwarded' = [forwarded EXCEPT ![<<id, Head(inbox).message>>] = @ + 1],
         SendsLast(Response("PUBREC", id))
  PROVE  AckId(id)'
<1>1. \A type, after : ToComeBefore(type, after, id)'
                         => ToComeBefore(type, after, id) \/ (ToCome(type, id) /\ after = "PUBREC")
  BY DEF SendsLast, Response
<1>2. /\ Head(inbox) = inbox[1] /\ 1 \in DOMAIN inbox /\ Head(inbox).message \in 1 .. MaxMessages
      /\ FewerPackets(id)
  BY TakeParts, TakeFewer
<1>3. Has(inbox, "PUBLISH", id)
  BY <1>2 DEF Has
<1>4. publisher[id].state \notin {"idle", "released"}
  BY <1>3 DEF AckId, AckIdle, AckReleased
<1>5. publisher[id].state = "published" /\ AckPublished(id)
  BY <1>4 DEF AckId, PubPart
<1>6. Head(inbox).message = publisher[id].message
  BY <1>2, <1>5 DEF AckPublished, Stray
<1>7. forwarded[<<id, Head(inbox).message>>] = 0
  BY <1>2 DEF OnceId
<1>8. forwarded'[<<id, publisher[id].message>>] = 1
  BY <1>2, <1>6, <1>7 DEF PubPart, Messages
<1>9. ~ToComeBefore("PUBREC", "PUBCOMP", id)'
  BY <1>1, <1>5 DEF AckPublished
<1>10. ~Stray(inbox', id, publisher[id].message)
  BY <1>2, <1>5 DEF AckPublished, FewerPackets
<1> QED
  BY <1>5, <1>8, <1>9, <1>10 DEF AckId, AckPublished

LEMMA AckPubrel ==
  ASSUME InPart, PubPart,
         batch > 0, inbox' = Tail(inbox), batch' = batch - 1, UNCHANGED <<publisher, forwarded>>,
         NEW id \in Ids, Head(inbox).id = id, Head(inbox).type = "PUBREL",
         AckId(id), OnceId(id), ~Known(cl', id), SendsLast(Response("PUBCOMP", id))
  PROVE  AckId(id)'
<1>1. /\ \A type : ToCome(type, id)' => ToCome(type, id) \/ type = "PUBCOMP"
      /\ \A type, after : ToComeBefore(type, after, id)'
                            => ToComeBefore(type, after, id) \/ (ToCome(type, id) /\ after = "PUBCOMP")
  BY DEF SendsLast, Response
<1>2. /\ Head(inbox) = inbox[1] /\ 1 \in DOMAIN inbox
      /\ FewerPackets(id)
  BY TakeParts, TakeFewer
<1>3. Has(inbox, "PUBREL", id)
  BY <1>2 DEF Has
<1>4. ~Known(cl, id)'
  OBVIOUS
<1>5. AckIdle(id) => AckIdle(id)'
  BY <1>1, <1>2, <1>4 DEF AckIdle, FewerPackets
<1>6. ASSUME publisher[id].state = "published", AckPublished(id) PROVE AckPublished(id)'
  <2>1. forwarded[<<id, publisher[id].message>>] = 0
    BY <1>3, <1>6, OnceValue DEF OnceId
  <2>2. ~ToCome("PUBREC", id)
    BY <1>6, <2>1 DEF AckPublished
  <2>3. ~ToCome("PUBREC", id)' /\ ~ToComeBefore("PUBREC", "PUBCOMP", id)'
    BY <1>1, <1>6, <2>2 DEF AckPublished
  <2>4. ~Stray(inbox', id, publisher[id].message)
    BY <1>2, <1>6 DEF AckPublished, FewerPackets
  <2> QED
    BY <1>4, <2>3, <2>4 DEF AckPublished
<1>7. ASSUME publisher[id].state = "released", AckReleased(id) PROVE AckReleased(id)'
  <2>1. ~Has(inbox', "PUBLISH", id)
    BY <1>3, <1>7, TakeFewer DEF AckReleased
  <2>2. ~Before(inbox', "PUBREL", "PUBLISH", id)
    BY <1>2, <1>7 DEF AckReleased, FewerPackets
  <2>3. ~ToComeBefore("PUBCOMP", "PUBREC", id)'
    BY <1>1, <1>7 DEF AckReleased
  <2> QED
    BY <1>4, <1>7, <2>1, <2>2, <2>3 DEF AckReleased
<1> QED
  BY <1>5, <1>6, <1>7 DEF AckId

LEMMA AckRelease ==
  ASSUME InPart, PubPart, NEW id \in Ids, AckId(id), OnceId(id),
         publisher[id].state # "idle", publisher'[id].state = "released",
         publisher'[id].message = publisher[id].message,
         inbox' = Append(inbox, [type |-> "PUBREL", id |-> id,
                                 message |-> publisher[id].message]),
         UNCHANGED <<batch, forwarded, cl>>,
         ToCome("PUBREC", id), SendsNothing,
         \A after : ToCome(after, id)' => ToComeBefore("PUBREC", after, id)
  PROVE  AckId(id)'
<1> DEFINE p == [type |-> "PUBREL", id |-> id, message |-> publisher[id].message]
           n == publisher[id].message
<1>1. p \in Packets /\ p.type = "PUBREL" /\ p.id = id
  BY OnceValue DEF Packets
<1>2. inbox' = Append(inbox, p)
  OBVIOUS
<1> HIDE DEF p
<1>3. /\ Has(inbox', "PUBLISH", id) <=> Has(inbox, "PUBLISH", id)
      /\ Before(inbox', "PUBREL", "PUBLISH", id) <=> Before(inbox, "PUBREL", "PUBLISH", id)
  BY <1>1, <1>2, AddFewer
<1>4. Known(cl, id)' <=> Known(cl, id)
  OBVIOUS
<1>5. publisher'[id].message = n /\ forwarded' = forwarded
  OBVIOUS
<1> HIDE DEF n
<1>6. CASE publisher[id].state = "published"
  <2>1. AckPublished(id)
    BY <1>6 DEF AckId
  <2>2. forwarded[<<id, n>>] = 1
    BY <2>1, OnceValue DEF AckPublished, n
  <2>3. Known(cl, id) /\ ~Has(inbox, "PUBREL", id)
    BY <1>6, <2>2 DEF OnceId, n
  <2>4. ~Before(inbox, "PUBREL", "PUBLISH", id)
    BY <2>3 DEF Before, Has
  <2>5. ~ToCome("PUBCOMP", id)'
    BY <2>1 DEF AckPublished
  <2>6. ~ToComeBefore("PUBCOMP", "PUBREC", id)'
    <3>1. (ToComeBefore("PUBCOMP", "PUBREC", id) => ToCome("PUBCOMP", id))'
      BY DEF ToComeBefore, ToCome, Waiting, Before, Has
    <3> QED
      BY <2>5, <3>1
  <2>7. AckReleased(id)'
    BY <1>3, <1>4, <1>5, <2>2, <2>3, <2>4, <2>5, <2>6 DEF AckReleased
  <2> QED
    BY <2>7 DEF AckId
<1>7. CASE publisher[id].state = "released"
  <2>1. AckReleased(id)
    BY <1>7 DEF AckId
  <2>2. AckReleased(id)'
    BY <1>3, <1>4, <1>5, <2>1 DEF AckReleased, SendsNothing, n
  <2> QED
    BY <2>2 DEF AckId
<1> QED
  BY <1>6, <1>7 DEF PubPart

LEMMA AckComplete ==
  ASSUME NEW id \in Ids, AckId(id),
         publisher[id].state = "released", publisher'[id].state = "idle",
         UNCHANGED <<inbox, forwarded, cl>>,
         ToCome("PUBCOMP", id),
         \A after : ToCome(after, id)' => ToComeBefore("PUBCOMP", after, id)
  PROVE  AckId(id)'
<1>1. AckReleased(id)
  BY DEF AckId
<1>2. ~Known(cl, id) /\ ~Has(inbox, "PUBLISH", id)
  BY <1>1 DEF AckReleased
<1>3. ~ToCome("PUBREC", id)'
  BY <1>1 DEF AckReleased
<1>4. AckIdle(id)'
  BY <1>2, <1>3 DEF AckIdle
<1> QED
  BY <1>4 DEF AckId

LEMMA AckPublish ==
  ASSUME InPart, PubPart, NEW id \in Ids, AckId(id), OnceId(id),
         publisher[id].state = "idle", publisher'[id].state = "published",
         publisher'[id].message = publisher[id].message + 1,
         publisher[id].message + 1 \in 1 .. MaxMessages,
         inbox' = Append(inbox, [type |-> "PUBLISH", id |-> id,
                                 message |-> publisher[id].message + 1]),
         UNCHANGED <<batch, forwarded, cl>>, SendsNothing
  PROVE  AckId(id)'
<1> DEFINE n == publisher[id].message + 1
           p == [type |-> "PUBLISH", id |-> id, message |-> n]
<1>1. p \in Packets /\ p.type = "PUBLISH" /\ p.id = id /\ p.message = n
  BY DEF Packets
<1>2. inbox' = Append(inbox, p) /\ publisher'[id].message = n
  OBVIOUS
<1> HIDE DEF p, n
<1>3. AckIdle(id)
  BY DEF AckId
<1>4. Stray(inbox', id, n) => Stray(inbox, id, n)
  BY <1>1, <1>2, AddFewer
<1>5. ~Stray(inbox', id, n)
  BY <1>3, <1>4 DEF AckIdle, Stray, Has
<1>6. ~Known(cl, id)' /\ ~ToCome("PUBREC", id)'
  BY <1>3 DEF AckIdle, SendsNothing
<1>7. ~ToComeBefore("PUBREC", "PUBCOMP", id)'
  BY <1>3, BeforeBoth DEF AckIdle, SendsNothing
<1>8. AckPublished(id)'
  BY <1>2, <1>5, <1>6, <1>7 DEF AckPublished
<1> QED
  BY <1>8 DEF AckId

LEMMA AckResend ==
  ASSUME InPart, PubPart, NEW id \in Ids, AckId(id), OnceId(id),
         publisher[id].state # "idle",
         inbox' = Append(inbox, [type |-> IF publisher[id].state = "published"
                                          THEN "PUBLISH" ELSE "PUBREL",
                                 id |-> id, message |-> publisher[id].message]),
         UNCHANGED <<batch, publisher, forwarded, cl>>, SendsNothing
  PROVE  AckId(id)'
<1> DEFINE n == publisher[id].message
           type == IF publisher[id].state = "published" THEN "PUBLISH" ELSE "PUBREL"
           p == [type |-> type, id |-> id, message |-> n]
<1>1. p \in Packets /\ p.type = type /\ p.id = id /\ p.message = n
  BY OnceValue DEF Packets
<1>2. inbox' = Append(inbox, p) /\ publisher'[id].message = n
  OBVIOUS
<1> HIDE DEF p, n
<1>3. Known(cl, id)' <=> Known(cl, id)
  OBVIOUS
<1>4. CASE publisher[id].state = "published"
  <2>1. AckPublished(id)
    BY <1>4 DEF AckId
  <2>2. Stray(inbox', id, n) => Stray(inbox, id, n)
    BY <1>1, <1>2, AddFewer
  <2>3. AckPublished(id)'
    BY <1>2, <1>3, <2>1, <2>2 DEF AckPublished, SendsNothing, n
  <2> QED
    BY <1>4, <2>3 DEF AckId
<1>5. CASE publisher[id].state = "released"
  <2>1. AckReleased(id)
    BY <1>5 DEF AckId
  <2>2. /\ Has(inbox', "PUBLISH", id) <=> Has(inbox, "PUBLISH", id)
        /\ Before(inbox', "PUBREL", "PUBLISH", id) <=> Before(inbox, "PUBREL", "PUBLISH", id)
    BY <1>1, <1>2, <1>5, AddFewer
  <2>3. AckReleased(id)'
    BY <1>2, <1>3, <2>1, <2>2 DEF AckReleased, SendsNothing, n
  <2> QED
    BY <1>5, <2>3 DEF AckId
<1> QED
  BY <1>4, <1>5 DEF PubPart

-------------------------------------------------------------------------------
(* The invariant.                                                              *)
CInv == Core /\ Order /\ (~overtaken => Acks)

LEMMA Fewer ==
  /\ SendsNothing => \A id : FewerResponses(id)
  /\ \A r, id : SendsLast(r) /\ id # r.id => FewerResponses(id)
BY DEF SendsNothing, SendsLast, FewerResponses

LEMMA QuietStep ==
  ASSUME RespPart, UNCHANGED <<resp, sends, outbox, overtaken>>,
         cl'.generation = cl.generation
  PROVE  RespPart' /\ SendsNothing
<1>1. Mine' = Mine /\ Unsent' = Unsent
  BY DEF Mine, Unsent
<1>2. ResponsesIntact' /\ SendsOrdered'
  BY <1>1 DEF RespPart, ResponsesIntact, SendsOrdered
<1>3. SendsNothing
  BY <1>1 DEF SendsNothing, ToCome, ToComeBefore, Waiting, Has, Before
<1> QED
  BY <1>2, <1>3 DEF RespPart

LEMMA CoreGeneration == Core => cl.generation \in Generations
BY DEF Core, TableHolds, ClientOK, Client

(* A packet is handled and answered: what remains to be shown is about its id. *)
LEMMA AnswerStep ==
  ASSUME CInv, batch > 0, inbox' = Tail(inbox), batch' = batch - 1,
         UNCHANGED <<publisher, pings, acked>>,
         NEW id \in Ids, NEW type \in {"PUBREC", "PUBCOMP"}, NEW room \in BOOLEAN,
         SendResp(Response(type, id), room),
         TableHolds(cl'), cl'.generation = cl.generation,
         \A j \in Ids : j # id => SameId(j),
         OnceId(id)',
         ~overtaken /\ SendsLast(Response(type, id)) /\ AckId(id) => AckId(id)',
         forwarded' \in [Messages -> Nat],
         \A m \in Messages : forwarded[m] = 1 => forwarded'[m] = 1
  PROVE  CInv'
<1>1. Core /\ Order /\ RespPart /\ InPart /\ PubPart /\ cl.generation \in Generations
  BY CoreGeneration DEF CInv, Core
<1>2. Response(type, id) \in Responses /\ Response(type, id).id = id
  BY DEF Response, Responses
<1>3. RespPart' /\ (~overtaken' => ~overtaken /\ SendsLast(Response(type, id)))
  BY <1>1, <1>2, SendRespStep
<1>4. InPart' /\ InOrder' /\ \A j : FewerPackets(j)
  BY <1>1, TakeParts, TakeOrder, TakeFewer DEF Order
<1>5. PubPart'
  BY <1>1 DEF PubPart
<1>6. \A j \in Ids : OnceId(j)'
  <2> SUFFICES ASSUME NEW j \in Ids, j # id PROVE OnceId(j)'
    OBVIOUS
  <2>1. SameId(j) /\ OnceId(j)
    BY <1>1 DEF Order
  <2> QED
    BY <1>1, <2>1, TakeOnce
<1>7. ASSUME ~overtaken' PROVE Acks'
  <2>1. Acks /\ ~overtaken /\ SendsLast(Response(type, id))
    BY <1>3, <1>7 DEF CInv
  <2>2. \A m \in acked' : forwarded'[m] = 1
    BY <1>1, <2>1 DEF Acks, PubPart
  <2>3. \A j \in Ids : AckId(j)'
    <3> SUFFICES ASSUME NEW j \in Ids PROVE AckId(j)'
      OBVIOUS
    <3>1. CASE j = id
      <4>1. AckId(id)
        BY <2>1 DEF Acks
      <4>2. AckId(id)'
        BY <2>1, <4>1
      <4> QED
        BY <3>1, <4>2
    <3>2. CASE j # id
      <4>1. SameId(j) /\ FewerResponses(j) /\ FewerPackets(j) /\ AckId(j)
        BY <1>2, <1>4, <2>1, <3>2, Fewer DEF Acks
      <4> QED
        BY <4>1, AckMono
    <3> QED
      BY <3>1, <3>2
  <2> QED
    BY <2>2, <2>3 DEF Acks
<1>8. Core'
  BY <1>3, <1>4, <1>5 DEF Core
<1>9. Order'
  BY <1>4, <1>6 DEF Order
<1> QED
  BY <1>7, <1>8, <1>9 DEF CInv

(* The publisher sends a packet: what remains is about its id.                 *)
LEMMA TransmitStep ==
  ASSUME CInv, NEW id \in Ids, NEW p \in Packets, p.id = id,
         inbox' = Append(inbox, p),
         UNCHANGED <<cl, batch, forwarded, overtaken>>,
         RespPart', SendsNothing, PubPart',
         \A j \in Ids : j # id => publisher'[j] = publisher[j],
         publisher[id].message <= publisher'[id].message,
         PubRank(id) <= PubRank(id)', Rank(p) = PubRank(id)',
         OnceId(id)', ~overtaken => AckId(id)',
         ~overtaken => \A m \in acked' : forwarded[m] = 1
  PROVE  CInv'
<1>1. Core /\ Order /\ InPart /\ InOrder /\ PubPart
  BY DEF CInv, Core, Order
<1>2. InPart'
  BY <1>1, AddParts
<1>3. InOrder'
  <2>1. \A j \in Ids : PubRank(j) \in Int /\ PubRank(j)' \in Int
    BY <1>1, BoundsAssumption DEF PubPart, PubRank
  <2>2. \A j \in Ids : j # id => PubRank(j)' = PubRank(j)
    BY DEF PubRank
  <2>3. \A j \in Ids : PubRank(j) <= PubRank(j)'
    <3> SUFFICES ASSUME NEW j \in Ids PROVE PubRank(j) <= PubRank(j)'
      OBVIOUS
    <3>1. CASE j = id
      BY <3>1
    <3>2. CASE j # id
      <4>1. PubRank(j)' = PubRank(j) /\ PubRank(j) \in Int
        BY <2>1, <2>2, <3>2
      <4> HIDE DEF PubRank
      <4> QED
        BY <4>1
    <3> QED
      BY <3>1, <3>2
  <2>4. \A j \in Ids : j = p.id => Rank(p) = PubRank(j)'
    OBVIOUS
  <2> QED
    BY <1>1, <2>1, <2>3, <2>4, AddOrder
<1>4. \A j \in Ids : j # id => SameId(j) /\ FewerPackets(j)
  BY <1>1, AddFewer DEF SameId
<1>5. \A j \in Ids : OnceId(j)'
  <2> SUFFICES ASSUME NEW j \in Ids, j # id PROVE OnceId(j)'
    OBVIOUS
  <2>1. OnceId(j) /\ publisher'[j] = publisher[j] /\ publisher[j].message \in Int
    BY <1>1 DEF Order, PubPart
  <2>2. publisher[j].message <= publisher'[j].message
    BY <2>1
  <2>3. publisher'[j].state = "published" /\ forwarded[<<j, publisher'[j].message>>] = 1
          => Known(cl, j) /\ ~Has(inbox, "PUBREL", j)
    BY <2>1 DEF OnceId
  <2>4. publisher[j].message \in Int /\ publisher'[j].message \in Int /\ p.id # j
        /\ batch' = batch /\ UNCHANGED <<forwarded, cl>>
    BY <2>1
  <2> QED
    BY <1>1, <2>1, <2>2, <2>3, <2>4, AddOnce
<1>6. ASSUME ~overtaken' PROVE Acks'
  <2>1. Acks /\ ~overtaken
    BY <1>6 DEF CInv
  <2>2. \A j \in Ids : AckId(j)'
    <3> SUFFICES ASSUME NEW j \in Ids, j # id PROVE AckId(j)'
      BY <2>1
    <3>1. SameId(j) /\ FewerResponses(j) /\ FewerPackets(j) /\ AckId(j)
      BY <1>4, <2>1, Fewer DEF Acks
    <3> QED
      BY <3>1, AckMono
  <2> QED
    BY <2>1, <2>2 DEF Acks
<1> QED
  BY <1>1, <1>2, <1>3, <1>5, <1>6 DEF CInv, Core, Order

(* A step that concerns no packet and no publisher.                            *)
LEMMA OtherStep ==
  ASSUME CInv, UNCHANGED <<cl, inbox, publisher, forwarded, acked>>,
         RespPart', InPart', pings' \in 0 .. MaxPings,
         ~overtaken' => ~overtaken /\ \A id \in Ids : FewerResponses(id)
  PROVE  CInv'
<1>1. Core /\ Order
  BY DEF CInv
<1>2. Core'
  BY <1>1 DEF Core, PubPart
<1>3. Order'
  BY <1>1 DEF Order, InOrder, OnceId, RelFree, PubRank, Known, Incoming, Used
<1>4. ASSUME ~overtaken' PROVE Acks'
  <2>1. Acks /\ \A id \in Ids : FewerResponses(id)
    BY <1>4 DEF CInv
  <2>2. \A id \in Ids : SameId(id) /\ FewerPackets(id)
    BY DEF SameId, FewerPackets
  <2>3. \A id \in Ids : AckId(id)'
    BY <2>1, <2>2, AckMono DEF Acks
  <2> QED
    BY <2>1, <2>3 DEF Acks
<1> QED
  BY <1>2, <1>3, <1>4 DEF CInv

LEMMA DuplicateKnown ==
  ASSUME TableHolds(cl), NEW id \in Ids
  PROVE  Duplicate(id) <=> Known(cl, id)
BY TableFind DEF Duplicate, Known

(* What a handler finds: the oldest packet, of an id of the publisher's.       *)
LEMMA ArrivedParts ==
  ASSUME CInv, NEW type, Arrived(type)
  PROVE  /\ batch > 0 /\ inbox' = Tail(inbox) /\ batch' = batch - 1
         /\ Head(inbox).type = type /\ PacketId \in Ids
         /\ Head(inbox).message \in 1 .. MaxMessages
         /\ <<PacketId, Head(inbox).message>> \in Messages
         /\ OnceId(PacketId) /\ InPart /\ PubPart /\ RespPart /\ InOrder
         /\ TableHolds(cl) /\ cl.generation \in Generations
<1>1. Core /\ Order /\ InPart /\ cl.generation \in Generations
  BY CoreGeneration DEF CInv, Core
<1>2. batch > 0 /\ inbox' = Tail(inbox) /\ batch' = batch - 1 /\ Head(inbox).type = type
  BY DEF Arrived
<1>3. PacketId \in Ids /\ Head(inbox).message \in 1 .. MaxMessages
  BY <1>1, <1>2, TakeParts DEF PacketId
<1> QED
  BY <1>1, <1>2, <1>3 DEF Core, Order, Messages

LEMMA DuplicateStep ==
  ASSUME CInv, NEW room \in BOOLEAN, PublishDuplicate(room)
  PROVE  CInv'
<1> DEFINE id == PacketId
<1>1. /\ Arrived("PUBLISH") /\ Duplicate(id)
      /\ SendResp(Response("PUBREC", id), room)
      /\ UNCHANGED <<cl, publisher, pings, forwarded, acked>>
  BY DEF PublishDuplicate
<1>2. /\ batch > 0 /\ inbox' = Tail(inbox) /\ batch' = batch - 1
      /\ id \in Ids /\ OnceId(id) /\ InPart /\ PubPart /\ TableHolds(cl)
  BY <1>1, ArrivedParts
<1>3. PICK x \in Ids : x = id
  BY <1>2
<1>4. Known(cl, x) /\ FewerPackets(x)
  BY <1>1, <1>2, <1>3, DuplicateKnown, TakeFewer
<1>5. \A j \in Ids : SameId(j)
  BY <1>1 DEF SameId
<1>6. OnceId(x)'
  BY <1>2, <1>3, <1>5, TakeOnce
<1>7. SendsLast(Response("PUBREC", x)) /\ AckId(x) => AckId(x)'
  BY <1>2, <1>3, <1>4, <1>5, AckDuplicate
<1>8. TableHolds(cl') /\ cl'.generation = cl.generation
  BY <1>1, <1>2
<1>9. /\ forwarded' \in [Messages -> Nat]
      /\ \A m \in Messages : forwarded[m] = 1 => forwarded'[m] = 1
  BY <1>1, <1>2 DEF PubPart
<1>10. SendResp(Response("PUBREC", x), room)
  BY <1>1, <1>3
<1> HIDE DEF id
<1> QED
  BY <1>1, <1>2, <1>5, <1>6, <1>7, <1>8, <1>9, <1>10, AnswerStep

LEMMA UntrackedStep ==
  ASSUME CInv, PublishUntracked
  PROVE  CInv'
<1>1. /\ Arrived("PUBLISH")
      /\ UNCHANGED <<cl, resp, sends, outbox, publisher, pings, forwarded, acked, overtaken>>
  BY DEF PublishUntracked
<1>2. /\ batch > 0 /\ inbox' = Tail(inbox) /\ batch' = batch - 1
      /\ InPart /\ PubPart /\ RespPart /\ InOrder /\ TableHolds(cl)
  BY <1>1, ArrivedParts
<1>3. RespPart' /\ SendsNothing
  BY <1>1, <1>2, QuietStep
<1>4. InPart' /\ InOrder' /\ \A j : FewerPackets(j)
  BY <1>1, <1>2, TakeParts, TakeOrder, TakeFewer
<1>5. \A j \in Ids : SameId(j) /\ OnceId(j)
  BY <1>1 DEF SameId, CInv, Order
<1>6. \A j \in Ids : OnceId(j)'
  BY <1>2, <1>5, TakeOnce
<1>7. PubPart' /\ TableHolds(cl)'
  BY <1>1, <1>2 DEF PubPart, TableHolds
<1>8. ASSUME ~overtaken' PROVE Acks'
  <2>1. Acks
    BY <1>1, <1>8 DEF CInv
  <2>2. \A j \in Ids : AckId(j)'
    BY <1>3, <1>4, <1>5, <2>1, AckMono, Fewer DEF Acks
  <2> QED
    BY <1>1, <2>1, <2>2 DEF Acks
<1> QED
  BY <1>3, <1>4, <1>6, <1>7, <1>8 DEF CInv, Core, Order

(* What PUBLISH does if it lets its message through.                           *)
LEMMA NewParts ==
  ASSUME CInv, NEW room \in BOOLEAN, PublishNew(room), NEW id, id = PacketId
  PROVE  /\ id \in Ids /\ <<id, Head(inbox).message>> \in Messages
         /\ Changes(cl, cl', id, TRUE) /\ ~Known(cl, id)
         /\ OnceId(id)' /\ forwarded[<<id, Head(inbox).message>>] = 0
         /\ Head(inbox).message <= publisher[id].message
<1>1. /\ Arrived("PUBLISH") /\ ~Duplicate(id) /\ ~TrackRejects(id)
      /\ cl' = TrackIncoming(cl, id)
      /\ forwarded' = [forwarded EXCEPT ![<<id, Head(inbox).message>>] = @ + 1]
      /\ UNCHANGED publisher
  BY DEF PublishNew
<1>2. /\ batch > 0 /\ inbox' = Tail(inbox) /\ batch' = batch - 1
      /\ id \in Ids /\ OnceId(id) /\ InPart /\ PubPart /\ InOrder /\ TableHolds(cl)
      /\ <<id, Head(inbox).message>> \in Messages
      /\ Head(inbox).type = "PUBLISH" /\ Head(inbox).id = id
  BY <1>1, ArrivedParts DEF PacketId
<1>3. ~Known(cl, id)
  BY <1>1, <1>2, DuplicateKnown
<1>4. ~TrackFails(cl)
  BY <1>1, <1>3 DEF TrackRejects, TrackFails, Known
<1>5. Changes(cl, cl', id, TRUE)
  BY <1>1, <1>2, <1>3, <1>4, TableTrack
<1>6. Known(cl', id)
  BY <1>5 DEF Changes
<1>7. OnceId(id)' /\ forwarded[<<id, Head(inbox).message>>] = 0
      /\ Head(inbox).message <= publisher[id].message
  BY <1>1, <1>2, <1>3, <1>6, NewOnce
<1> QED
  BY <1>2, <1>3, <1>5, <1>7

LEMMA NewStep ==
  ASSUME CInv, NEW room \in BOOLEAN, PublishNew(room)
  PROVE  CInv'
<1>1. PICK id : id = PacketId
  OBVIOUS
<1>2. /\ Arrived("PUBLISH")
      /\ SendResp(Response("PUBREC", id), room)
      /\ forwarded' = [forwarded EXCEPT ![<<id, Head(inbox).message>>] = @ + 1]
      /\ UNCHANGED <<publisher, pings, acked>>
  BY <1>1 DEF PublishNew
<1>3. /\ batch > 0 /\ inbox' = Tail(inbox) /\ batch' = batch - 1
      /\ OnceId(id) /\ InPart /\ PubPart /\ InOrder /\ TableHolds(cl)
      /\ Head(inbox).type = "PUBLISH" /\ Head(inbox).id = id
  BY <1>1, <1>2, ArrivedParts DEF PacketId
<1>4. /\ id \in Ids /\ <<id, Head(inbox).message>> \in Messages
      /\ Changes(cl, cl', id, TRUE) /\ ~Known(cl, id)
      /\ OnceId(id)' /\ forwarded[<<id, Head(inbox).message>>] = 0
  BY <1>1, NewParts
<1>5. TableHolds(cl') /\ cl'.generation = cl.generation /\ Known(cl', id)
  BY <1>4 DEF Changes
<1>6. /\ forwarded' \in [Messages -> Nat]
      /\ \A m \in Messages : m # <<id, Head(inbox).message>> => forwarded'[m] = forwarded[m]
  BY <1>2, <1>3, <1>4 DEF PubPart
<1>7. \A m \in Messages : forwarded[m] = 1 => forwarded'[m] = 1
  BY <1>4, <1>6
<1>8. \A j \in Ids : j # id => SameId(j)
  <2> SUFFICES ASSUME NEW j \in Ids, j # id PROVE SameId(j)
    OBVIOUS
  <2>1. Known(cl', j) <=> Known(cl, j)
    BY <1>4 DEF Changes
  <2>2. \A n : forwarded'[<<j, n>>] = forwarded[<<j, n>>]
    BY <1>2, <1>3 DEF PubPart
  <2> QED
    BY <1>2, <2>1, <2>2 DEF SameId
<1>9. SendsLast(Response("PUBREC", id)) /\ AckId(id) => AckId(id)'
  BY <1>2, <1>3, <1>4, <1>5, AckNew
<1> QED
  BY <1>2, <1>3, <1>4, <1>5, <1>6, <1>7, <1>8, <1>9, AnswerStep

LEMMA PubrelStep ==
  ASSUME CInv, NEW room \in BOOLEAN, Pubrel(room)
  PROVE  CInv'
<1>1. PICK id : id = PacketId
  OBVIOUS
<1>2. /\ Arrived("PUBREL")
      /\ cl' = Completed(cl, id)
      /\ SendResp(Response("PUBCOMP", id), room)
      /\ UNCHANGED <<publisher, pings, forwarded, acked>>
  BY <1>1 DEF Pubrel
<1>3. /\ batch > 0 /\ inbox' = Tail(inbox) /\ batch' = batch - 1
      /\ id \in Ids /\ OnceId(id) /\ InPart /\ PubPart /\ InOrder /\ TableHolds(cl)
      /\ Head(inbox).type = "PUBREL" /\ Head(inbox).id = id
  BY <1>1, <1>2, ArrivedParts DEF PacketId
<1>4. Changes(cl, cl', id, FALSE)
  BY <1>2, <1>3, TableCompleted
<1>5. TableHolds(cl') /\ cl'.generation = cl.generation /\ ~Known(cl', id)
  BY <1>4 DEF Changes
<1>6. OnceId(id)'
  BY <1>2, <1>3, RelOnce
<1>7. \A j \in Ids : j # id => SameId(j)
  BY <1>2, <1>4 DEF Changes, SameId
<1>8. SendsLast(Response("PUBCOMP", id)) /\ AckId(id) => AckId(id)'
  BY <1>2, <1>3, <1>5, AckPubrel
<1>9. /\ forwarded' \in [Messages -> Nat]
      /\ \A m \in Messages : forwarded[m] = 1 => forwarded'[m] = 1
  BY <1>2, <1>3 DEF PubPart
<1> QED
  BY <1>2, <1>3, <1>5, <1>6, <1>7, <1>8, <1>9, AnswerStep

LEMMA PingStep ==
  ASSUME CInv, NEW room \in BOOLEAN, Ping(room)
  PROVE  CInv'
<1>1. /\ UNCHANGED <<cl, inbox, batch, publisher, forwarded, acked>>
      /\ pings < MaxPings /\ pings' = pings + 1
  BY DEF Ping
<1>2. RespPart /\ InPart /\ PubPart /\ cl.generation \in Generations
  BY CoreGeneration DEF CInv, Core
<1>3. pings' \in 0 .. MaxPings /\ InPart'
  BY <1>1, <1>2, BoundsAssumption DEF PubPart, InPart
<1>4. CASE Idle # {}
  <2>1. FillSlot(PingResp, room)
    BY <1>4 DEF Ping
  <2>2. PingResp \in Responses /\ PingResp.id = 0 /\ 0 \notin Ids
    BY IdsAssumption DEF PingResp, Responses
  <2>3. RespPart' /\ SendsLast(PingResp) /\ overtaken' = overtaken
    BY <1>1, <1>2, <1>4, <2>1, <2>2, FillSlotStep DEF FillSlot
  <2>4. \A id \in Ids : FewerResponses(id)
    <3> HIDE DEF PingResp
    <3> QED
      BY <2>2, <2>3, Fewer
  <2> QED
    BY <1>1, <1>3, <2>3, <2>4, OtherStep
<1>5. CASE Idle = {}
  <2>1. UNCHANGED <<resp, sends, outbox, overtaken>>
    BY <1>5 DEF Ping
  <2>2. RespPart' /\ SendsNothing
    BY <1>1, <1>2, <2>1, QuietStep
  <2> QED
    BY <1>1, <1>3, <2>1, <2>2, Fewer, OtherStep
<1> QED
  BY <1>4, <1>5

LEMMA ReceiveStep ==
  ASSUME CInv, Receive
  PROVE  CInv'
<1>1. /\ batch' = Len(inbox) /\ sends' = AllSubmitted
      /\ UNCHANGED <<cl, resp, inbox, outbox, publisher, pings, forwarded, acked, overtaken>>
  BY DEF Receive
<1>2. RespPart /\ InPart /\ PubPart
  BY DEF CInv, Core
<1>3. RespPart' /\ SendsNothing
  BY <1>1, <1>2, SubmitStep
<1>4. InPart'
  BY <1>1, <1>2, InboxParts DEF InPart
<1>5. pings' \in 0 .. MaxPings
  BY <1>1, <1>2 DEF PubPart
<1> QED
  BY <1>1, <1>3, <1>4, <1>5, Fewer, OtherStep

LEMMA SendStep ==
  ASSUME CInv, KernelSends \/ SendRespCqe
  PROVE  CInv'
<1>1. UNCHANGED <<cl, inbox, batch, publisher, pings, forwarded, acked, overtaken>>
  BY DEF KernelSends, SendRespCqe
<1>2. RespPart /\ InPart /\ PubPart
  BY DEF CInv, Core
<1>3. RespPart' /\ SendsNothing
  BY <1>2, KernelSendsStep, SendRespCqeStep
<1>4. InPart' /\ pings' \in 0 .. MaxPings
  BY <1>1, <1>2 DEF PubPart, InPart
<1> QED
  BY <1>1, <1>3, <1>4, Fewer, OtherStep

(* The sends the kernel holds are no longer of this connection.                *)
LEMMA ReconnectStep ==
  ASSUME CInv, Reconnect
  PROVE  CInv'
<1>1. /\ cl.generation < MaxGen /\ cl' = ClientInit(cl)
      /\ resp' = [resp EXCEPT !.next = 0, !.in_flight = {}]
      /\ inbox' = << >> /\ batch' = 0 /\ outbox' = << >>
      /\ publisher' = [id \in Ids |-> [publisher[id] EXCEPT !.state = "idle"]]
      /\ UNCHANGED <<sends, pings, forwarded, acked, overtaken>>
  BY DEF Reconnect
<1>2. RespPart /\ InPart /\ PubPart /\ cl \in Client /\ cl.generation \in Generations
      /\ \A id \in Ids : OnceId(id)
  BY CoreGeneration DEF CInv, Core, Order, TableHolds, ClientOK
<1>3. /\ TableHolds(cl') /\ \A id : ~Known(cl', id)
      /\ cl'.generation = cl.generation + 1
  BY <1>1, <1>2, TableInit
<1>4. \A i \in DOMAIN sends : sends[i] \in SendTypes /\ sends[i].gen <= cl.generation
  BY <1>2, SendParts DEF RespPart, SendsOrdered
<1>5. \A i \in DOMAIN sends : sends[i].gen < cl'.generation /\ sends[i].gen <= cl'.generation
                              /\ sends[i].gen # cl'.generation
  BY <1>2, <1>3, <1>4 DEF SendTypes, Generations
<1>6. Mine' = {} /\ Unsent' = {}
  BY <1>1, <1>5 DEF Mine, Unsent
<1>7. /\ resp' \in [next : RespIdx, in_flight : SUBSET RespIdx, buf : [RespIdx -> Responses]]
      /\ resp'.in_flight = {}
  <2>1. 0 \in RespIdx
    BY RespAssumption DEF RespIdx
  <2> QED
    BY <1>1, <1>2, <2>1 DEF RespPart
<1>8. ResponsesIntact' /\ SendsOrdered'
  BY <1>1, <1>2, <1>5, <1>6, <1>7 DEF ResponsesIntact, SendsOrdered, RespPart
<1>9. inbox' \in Seq(Packets) /\ outbox' \in Seq(Responses) /\ Len(inbox') = 0
      /\ DOMAIN inbox' = {} /\ DOMAIN outbox' = {}
  BY <1>1, EmptySeq
<1>10. RespPart' /\ InPart'
  BY <1>1, <1>2, <1>7, <1>8, <1>9 DEF RespPart, InPart
<1>11. \A id \in Ids : /\ publisher'[id].state = "idle"
                       /\ publisher'[id].message = publisher[id].message
                       /\ publisher'[id] \in [state : {"idle", "published", "released"},
                                              message : 0 .. MaxMessages]
  BY <1>1, <1>2 DEF PubPart
<1>12. PubPart'
  BY <1>1, <1>2, <1>11 DEF PubPart
<1>13. InOrder'
  BY <1>9 DEF InOrder
<1>14. \A id \in Ids : OnceId(id)'
  BY <1>1, <1>2, <1>9, <1>11 DEF OnceId
<1>15. ASSUME NEW id \in Ids PROVE AckId(id)'
  <2>1. ~Known(cl, id)' /\ ~Has(inbox, "PUBLISH", id)' /\ ~ToCome("PUBREC", id)'
    BY <1>3, <1>6, <1>9 DEF Has, ToCome, Waiting
  <2> QED
    BY <1>11, <2>1 DEF AckId, AckIdle
<1>16. ~overtaken' => Acks'
  BY <1>1, <1>15 DEF CInv, Acks
<1> QED
  BY <1>3, <1>10, <1>12, <1>13, <1>14, <1>16 DEF CInv, Core, Order

-------------------------------------------------------------------------------
(* The publisher's steps.                                                      *)

LEMMA PublisherParts ==
  ASSUME CInv, NEW id \in Ids
  PROVE  /\ RespPart /\ InPart /\ PubPart /\ OnceId(id)
         /\ publisher[id].message \in 0 .. MaxMessages /\ MaxMessages \in Nat
         /\ publisher[id].message \in Nat
         /\ publisher[id] = [state |-> publisher[id].state, message |-> publisher[id].message]
         /\ publisher[id].state \in {"idle", "published", "released"}
         /\ ~overtaken => AckId(id) /\ \A m \in acked : forwarded[m] = 1
BY BoundsAssumption DEF CInv, Core, Order, PubPart, Acks

(* Less than MaxMessages sent in all is less than that for each packet id.     *)
LEMMA PublishBound ==
  ASSUME CInv, NEW id \in Ids, Cardinality(sent) < MaxMessages
  PROVE  publisher[id].message + 1 \in 1 .. MaxMessages
<1>1. publisher[id].message \in 0 .. MaxMessages /\ MaxMessages \in Nat
  BY PublisherParts
<1> SUFFICES ASSUME publisher[id].message = MaxMessages PROVE FALSE
  BY <1>1
<1> DEFINE all == {id} \X (1 .. MaxMessages)
<1>2. /\ IsFiniteSet(1 .. MaxMessages) /\ Cardinality(1 .. MaxMessages) = MaxMessages
      /\ IsFiniteSet({id}) /\ Cardinality({id}) = 1 /\ IsFiniteSet(Ids)
  <2>1. /\ IsFiniteSet(1 .. MaxMessages)
        /\ Cardinality(1 .. MaxMessages) = IF 1 > MaxMessages THEN 0 ELSE MaxMessages - 1 + 1
    BY <1>1, FS_Interval
  <2>2. Cardinality(1 .. MaxMessages) = MaxMessages
    BY <1>1, <2>1
  <2> QED
    BY <2>1, <2>2, FS_Singleton, IdsAssumption
<1>3. IsFiniteSet(Messages)
  BY <1>2, FS_Product DEF Messages
<1>4. sent \subseteq Messages
  BY DEF sent
<1>5. IsFiniteSet(sent)
  BY <1>3, <1>4, FS_Subset
<1>6. all \subseteq sent
  BY <1>1 DEF sent, Messages
<1>7. Cardinality(all) = 1 * MaxMessages
  BY <1>2, FS_Product
<1>8. Cardinality(all) <= Cardinality(sent)
  BY <1>5, <1>6, FS_Subset
<1>9. Cardinality(sent) \in Nat
  BY <1>5, FS_CardinalityType
<1> HIDE DEF all
<1> QED
  BY <1>1, <1>7, <1>8, <1>9

LEMMA PublishStep ==
  ASSUME CInv, NEW id \in Ids, Publish(id)
  PROVE  CInv'
<1> DEFINE n == publisher[id].message
           p == [type |-> "PUBLISH", id |-> id, message |-> n + 1]
<1>1. /\ publisher[id].state = "idle"
      /\ publisher' = [publisher EXCEPT ![id] = [state |-> "published", message |-> n + 1]]
      /\ inbox' = Append(inbox, p)
      /\ UNCHANGED <<cl, resp, sends, batch, pings, forwarded, overtaken, outbox, acked>>
  BY DEF Publish, Transmit
<1>2. n + 1 \in 1 .. MaxMessages
  BY PublishBound DEF Publish
<1>3. /\ RespPart /\ InPart /\ PubPart /\ OnceId(id)
      /\ n \in Nat /\ MaxMessages \in Nat
      /\ ~overtaken => AckId(id) /\ \A m \in acked : forwarded[m] = 1
  BY PublisherParts
<1>4. /\ publisher'[id].state = "published" /\ publisher'[id].message = n + 1
      /\ \A j \in Ids : j # id => publisher'[j] = publisher[j]
  BY <1>1, <1>3 DEF PubPart
<1>5. PubPart'
  <2>1. [state |-> "published", message |-> n + 1]
          \in [state : {"idle", "published", "released"}, message : 0 .. MaxMessages]
    BY <1>2
  <2>2. publisher' \in [Ids -> [state : {"idle", "published", "released"},
                                message : 0 .. MaxMessages]]
    BY <1>1, <1>3, <2>1 DEF PubPart
  <2>3. \A j \in Ids : publisher'[j].state # "idle" => publisher'[j].message # 0
    BY <1>2, <1>3, <1>4 DEF PubPart
  <2> QED
    BY <1>1, <1>3, <2>2, <2>3 DEF PubPart
<1>6. RespPart' /\ SendsNothing
  BY <1>1, <1>3, QuietStep
<1>7. p \in Packets /\ p.id = id /\ p.type = "PUBLISH" /\ p.message = n + 1
  BY <1>2 DEF Packets
<1>8. /\ Rank(p) = 2 * (n + 1)
      /\ PubRank(id) = 2 * n + 1 /\ PubRank(id)' = 2 * (n + 1)
      /\ PubRank(id) <= PubRank(id)'
  <2>1. Rank(p) = 2 * p.message
    BY <1>7, RankIs
  <2>2. PubRank(id) = 2 * n + 1 /\ PubRank(id)' = 2 * publisher'[id].message + 0
    BY <1>1, <1>4 DEF PubRank
  <2>3. PubRank(id)' = 2 * (n + 1)
    BY <1>3, <1>4, <2>2
  <2>4. 2 * n + 1 <= 2 * (n + 1)
    BY <1>3
  <2> HIDE DEF p, PubRank
  <2> QED
    BY <1>7, <2>1, <2>2, <2>3, <2>4
<1>9. forwarded[<<id, n + 1>>] = 0
  BY <1>2, <1>3 DEF OnceId
<1> HIDE DEF p
<1>10. OnceId(id)'
  <2>1. publisher[id].message \in Int /\ publisher'[id].message \in Int
        /\ publisher[id].message <= publisher'[id].message
    BY <1>3, <1>4
  <2>2. ~(p.id = id /\ p.type = "PUBLISH" /\ forwarded[<<id, p.message>>] = 1)
    BY <1>7, <1>9
  <2>3. ~(forwarded[<<id, publisher'[id].message>>] = 1)
    BY <1>4, <1>9
  <2> QED
    BY <1>1, <1>3, <1>7, <2>1, <2>2, <2>3, AddOnce
<1>11. ~overtaken => AckId(id)'
  BY <1>1, <1>2, <1>3, <1>4, <1>6, AckPublish DEF p
<1>12. publisher[id].message <= publisher'[id].message
  BY <1>3, <1>4
<1>13. Rank(p) = PubRank(id)'
  BY <1>8
<1>14. ~overtaken => \A m \in acked' : forwarded[m] = 1
  BY <1>1, <1>3
<1> HIDE DEF n
<1> QED
  BY <1>1, <1>4, <1>5, <1>6, <1>7, <1>8, <1>10, <1>11, <1>12, <1>13, <1>14, TransmitStep

LEMMA ResendStep ==
  ASSUME CInv, NEW id \in Ids, Resend(id)
  PROVE  CInv'
<1> DEFINE n == publisher[id].message
           type == IF publisher[id].state = "published" THEN "PUBLISH" ELSE "PUBREL"
           p == [type |-> type, id |-> id, message |-> n]
<1>1. /\ publisher[id].state # "idle"
      /\ inbox' = Append(inbox, p)
      /\ UNCHANGED <<cl, resp, sends, batch, pings, forwarded, overtaken, outbox, publisher, acked>>
  BY DEF Resend, Transmit
<1>2. /\ RespPart /\ InPart /\ PubPart /\ OnceId(id)
      /\ n \in Nat /\ publisher[id].state \in {"idle", "published", "released"}
      /\ ~overtaken => AckId(id) /\ \A m \in acked : forwarded[m] = 1
  BY PublisherParts
<1>3. n \in 1 .. MaxMessages
  BY <1>1, <1>2, OnceValue
<1>4. p \in Packets /\ p.id = id /\ p.type = type /\ p.message = n
  BY <1>3 DEF Packets
<1>5. RespPart' /\ SendsNothing /\ PubPart'
  BY <1>1, <1>2, QuietStep DEF PubPart
<1>6. /\ PubRank(id)' = PubRank(id) /\ PubRank(id) <= PubRank(id)'
      /\ Rank(p) = PubRank(id)'
  <2>1. PubRank(id)' = PubRank(id)
    BY <1>1 DEF PubRank
  <2>2. Rank(p) = PubRank(id)
    BY <1>2, <1>4 DEF Rank, PubRank
  <2>3. PubRank(id) \in Int
    BY <1>2 DEF PubRank
  <2> HIDE DEF p, PubRank
  <2> QED
    BY <2>1, <2>2, <2>3
<1> HIDE DEF p
<1>7. OnceId(id)'
  <2>1. p.id = id /\ p.type = "PUBLISH" /\ forwarded[<<id, p.message>>] = 1
          => Known(cl, id) /\ ~Has(inbox, "PUBREL", id)
    BY <1>2, <1>4 DEF OnceId
  <2>2. publisher'[id].state = "published" /\ forwarded[<<id, publisher'[id].message>>] = 1
          => Known(cl, id) /\ ~Has(inbox, "PUBREL", id) /\ ~(p.id = id /\ p.type = "PUBREL")
    BY <1>1, <1>2, <1>4 DEF OnceId
  <2>3. publisher[id].message \in Int /\ publisher'[id].message \in Int
        /\ publisher[id].message <= publisher'[id].message
    BY <1>1, <1>2
  <2> QED
    BY <1>1, <1>2, <1>4, <2>1, <2>2, <2>3, AddOnce
<1>8. ~overtaken => AckId(id)'
  BY <1>1, <1>2, <1>5, AckResend DEF p
<1>9. publisher[id].message <= publisher'[id].message
  BY <1>1, <1>2
<1>10. /\ \A j \in Ids : j # id => publisher'[j] = publisher[j]
       /\ ~overtaken => \A m \in acked' : forwarded[m] = 1
  BY <1>1, <1>2
<1> HIDE DEF n, type
<1> QED
  BY <1>1, <1>4, <1>5, <1>6, <1>7, <1>8, <1>9, <1>10, TransmitStep

LEMMA ReadParts ==
  ASSUME CInv, NEW type \in {"PUBREC", "PUBCOMP"}, Reads(type), outbox' = Tail(outbox),
         UNCHANGED <<resp, sends, overtaken, cl>>, NEW id, id = ReadId
  PROVE  /\ id \in Ids /\ RespPart' /\ SendsNothing /\ ToCome(type, id)
         /\ \A after : ToCome(after, id)' => ToComeBefore(type, after, id)
<1>1. outbox # << >> /\ Head(outbox).type = type /\ Head(outbox).id = id /\ RespPart
  BY DEF Reads, ReadId, CInv, Core
<1>2. /\ RespPart' /\ SendsNothing /\ Head(outbox) \in Responses /\ ToCome(type, id)
      /\ \A after : ToCome(after, id)' => ToComeBefore(type, after, id)
  BY <1>1, ReadStep
<1>3. id \in Ids
  BY <1>1, <1>2 DEF Responses, NoResponse, PingResp
<1> QED
  BY <1>2, <1>3

(* PUBREC for a message that is under way was sent by a handler that knew it.  *)
LEMMA PubrecStep ==
  ASSUME CInv, ReadPubrec
  PROVE  CInv'
<1>1. PICK id : id = ReadId
  OBVIOUS
<1>2. Reads("PUBREC") /\ outbox' = Tail(outbox)
      /\ UNCHANGED <<resp, sends, overtaken, cl, batch, pings, forwarded>>
  BY DEF ReadPubrec, Transmit
<1>3. /\ id \in Ids /\ RespPart' /\ SendsNothing /\ ToCome("PUBREC", id)
      /\ \A after : ToCome(after, id)' => ToComeBefore("PUBREC", after, id)
  BY <1>1, <1>2, ReadParts
<1> DEFINE n == publisher[id].message
           p == [type |-> "PUBREL", id |-> id, message |-> n]
<1>4. /\ RespPart /\ InPart /\ PubPart /\ OnceId(id)
      /\ n \in Nat /\ publisher[id].state \in {"idle", "published", "released"}
      /\ publisher[id] = [state |-> publisher[id].state, message |-> n]
      /\ ~overtaken => AckId(id) /\ \A m \in acked : forwarded[m] = 1
  BY <1>3, PublisherParts
<1>5. CASE publisher[id].state = "idle"
  <2>1. UNCHANGED <<inbox, publisher, acked>>
    BY <1>1, <1>5 DEF ReadPubrec
  <2>2. InPart' /\ pings' \in 0 .. MaxPings
    BY <1>2, <1>4, <2>1 DEF InPart, PubPart
  <2> QED
    BY <1>2, <1>3, <2>1, <2>2, Fewer, OtherStep
<1>6. CASE publisher[id].state # "idle"
  <2>1. /\ publisher' = [publisher EXCEPT ![id].state = "released"]
        /\ acked' = acked \cup {<<id, n>>}
        /\ inbox' = Append(inbox, p)
    BY <1>1, <1>6 DEF ReadPubrec, Transmit
  <2>2. /\ publisher'[id].state = "released" /\ publisher'[id].message = n
        /\ publisher'[id] \in [state : {"idle", "published", "released"},
                               message : 0 .. MaxMessages]
        /\ \A j \in Ids : j # id => publisher'[j] = publisher[j]
    BY <1>3, <1>4, <2>1 DEF PubPart
  <2>3. n \in 1 .. MaxMessages /\ forwarded[<<id, n>>] \in {0, 1}
    BY <1>3, <1>4, <1>6, OnceValue
  <2>4. p \in Packets /\ p.id = id /\ p.type = "PUBREL" /\ p.message = n
    BY <1>3, <2>3 DEF Packets
  <2>5. PubPart'
    <3>1. publisher' \in [Ids -> [state : {"idle", "published", "released"},
                                  message : 0 .. MaxMessages]]
      BY <1>4, <2>1, <2>2 DEF PubPart
    <3>2. \A j \in Ids : publisher'[j].state # "idle" => publisher'[j].message # 0
      BY <1>4, <2>2, <2>3 DEF PubPart
    <3>3. acked' \subseteq Messages
      BY <1>3, <1>4, <2>1, <2>3 DEF PubPart, Messages
    <3> QED
      BY <1>2, <1>4, <3>1, <3>2, <3>3 DEF PubPart
  <2>6. /\ Rank(p) = PubRank(id)' /\ PubRank(id) <= PubRank(id)'
    <3>1. Rank(p) = 2 * n + 1
      BY <2>4, RankIs
    <3>2. PubRank(id)' = 2 * n + 1
      BY <2>2 DEF PubRank
    <3>3. PubRank(id) = 2 * n \/ PubRank(id) = 2 * n + 1
      BY <1>4 DEF PubRank
    <3>4. 2 * n <= 2 * n + 1 /\ 2 * n + 1 <= 2 * n + 1
      BY <1>4
    <3> HIDE DEF PubRank, p, n
    <3> QED
      BY <3>1, <3>2, <3>3, <3>4
  <2> HIDE DEF p
  <2>7. OnceId(id)'
    <3>1. publisher[id].message \in Int /\ publisher'[id].message \in Int
          /\ publisher[id].message <= publisher'[id].message
      BY <1>4, <2>2
    <3>2. p.type # "PUBLISH" /\ publisher'[id].state # "published"
      BY <2>2, <2>4
    <3> QED
      BY <1>2, <1>3, <1>4, <2>1, <2>4, <3>1, <3>2, AddOnce
  <2>8. ~overtaken => AckId(id)'
    BY <1>2, <1>3, <1>4, <1>6, <2>1, <2>2, AckRelease DEF p
  <2>9. ASSUME ~overtaken PROVE \A m \in acked' : forwarded[m] = 1
    <3>1. AckId(id) /\ \A m \in acked : forwarded[m] = 1
      BY <1>4, <2>9
    <3>2. forwarded[<<id, n>>] = 1
      BY <1>3, <1>4, <1>6, <2>3, <3>1 DEF AckId, AckPublished, AckReleased
    <3> QED
      BY <2>1, <3>1, <3>2
  <2>10. publisher[id].message <= publisher'[id].message
    BY <1>4, <2>2
  <2> HIDE DEF n
  <2> QED
    BY <1>2, <1>3, <2>1, <2>2, <2>4, <2>5, <2>6, <2>7, <2>8, <2>9, <2>10, TransmitStep
<1> QED
  BY <1>5, <1>6

LEMMA PubcompStep ==
  ASSUME CInv, ReadPubcomp
  PROVE  CInv'
<1>1. PICK id : id = ReadId
  OBVIOUS
<1>2. /\ Reads("PUBCOMP") /\ outbox' = Tail(outbox)
      /\ publisher' = [publisher EXCEPT ![id].state = IF @ = "released" THEN "idle" ELSE @]
      /\ UNCHANGED <<cl, resp, sends, inbox, batch, pings, forwarded, acked, overtaken>>
  BY <1>1 DEF ReadPubcomp
<1>3. /\ id \in Ids /\ RespPart' /\ SendsNothing /\ ToCome("PUBCOMP", id)
      /\ \A after : ToCome(after, id)' => ToComeBefore("PUBCOMP", after, id)
  BY <1>1, <1>2, ReadParts
<1>4. RespPart /\ InPart /\ PubPart /\ InOrder /\ TableHolds(cl) /\ \A j \in Ids : OnceId(j)
  BY DEF CInv, Core, Order
<1>5. /\ \A j \in Ids : /\ publisher'[j].message = publisher[j].message
                        /\ j # id \/ publisher[j].state # "released" => publisher'[j] = publisher[j]
                        /\ publisher'[j].state # publisher[j].state => publisher[j].state = "released"
                        /\ publisher'[j] \in [state : {"idle", "published", "released"},
                                              message : 0 .. MaxMessages]
      /\ publisher[id].state = "released" => publisher'[id].state = "idle"
  BY <1>2, <1>3, <1>4 DEF PubPart
<1>6. PubPart' /\ InPart' /\ TableHolds(cl)'
  <2>1. publisher' \in [Ids -> [state : {"idle", "published", "released"},
                                message : 0 .. MaxMessages]]
    BY <1>2, <1>4, <1>5 DEF PubPart
  <2>2. \A j \in Ids : publisher'[j].state # "idle" => publisher'[j].message # 0
    BY <1>4, <1>5 DEF PubPart
  <2> QED
    BY <1>2, <1>4, <2>1, <2>2 DEF PubPart, InPart
<1>7. InOrder'
  <2>1. \A j \in Ids : publisher'[j].message = publisher[j].message
                      /\ (publisher'[j].state = "published" <=> publisher[j].state = "published")
    BY <1>4, <1>5
  <2>2. \A i \in DOMAIN inbox : inbox[i].id \in Ids
    BY <1>4, InboxParts
  <2>3. (\A i \in DOMAIN inbox : Rank(inbox[i]) <= PubRank(inbox[i].id))'
    BY <1>2, <1>4, <2>1, <2>2 DEF InOrder, PubRank
  <2> QED
    BY <1>2, <1>4, <2>3 DEF InOrder
<1>8. ASSUME NEW j \in Ids PROVE OnceId(j)'
  <2>1. OnceId(j) /\ publisher'[j].message = publisher[j].message
        /\ (publisher'[j].state = "published" => publisher[j].state = "published")
    BY <1>4, <1>5
  <2> QED
    BY <1>2, <2>1 DEF OnceId, RelFree, Known, Incoming, Used
<1>9. ASSUME ~overtaken' PROVE Acks'
  <2>1. Acks
    BY <1>2, <1>9 DEF CInv
  <2>2. ASSUME NEW j \in Ids PROVE AckId(j)'
    <3>1. AckId(j) /\ FewerResponses(j) /\ FewerPackets(j)
      BY <1>2, <1>3, <2>1, Fewer DEF Acks, FewerPackets
    <3>2. CASE j = id /\ publisher[id].state = "released"
      BY <1>2, <1>3, <1>5, <3>1, <3>2, AckComplete
    <3>3. CASE ~(j = id /\ publisher[id].state = "released")
      <4>1. SameId(j)
        BY <1>2, <1>5, <3>3 DEF SameId
      <4> QED
        BY <3>1, <4>1, AckMono
    <3> QED
      BY <3>2, <3>3
  <2> QED
    BY <1>2, <2>1, <2>2 DEF Acks
<1> QED
  BY <1>3, <1>6, <1>7, <1>8, <1>9 DEF CInv, Core, Order

-------------------------------------------------------------------------------
(* What holds of every state.                                                  *)

LEMMA InitCInv == Init => CInv
<1> SUFFICES ASSUME Init PROVE CInv
  OBVIOUS
<1>1. /\ cl = ClientInit(UnusedClient)
      /\ resp = [next |-> 0, in_flight |-> {}, buf |-> [k \in RespIdx |-> NoResponse]]
      /\ sends = << >> /\ inbox = << >> /\ batch = 0 /\ outbox = << >>
      /\ publisher = [id \in Ids |-> [state |-> "idle", message |-> 0]]
      /\ pings = 0 /\ forwarded = [m \in Messages |-> 0] /\ acked = {} /\ overtaken = FALSE
  BY DEF Init
<1>2. /\ DOMAIN sends = {} /\ DOMAIN inbox = {} /\ DOMAIN outbox = {} /\ Len(inbox) = 0
      /\ sends \in Seq(SendTypes) /\ inbox \in Seq(Packets) /\ outbox \in Seq(Responses)
  BY <1>1, EmptySeq
<1>3. UnusedClient \in Client /\ UnusedClient.generation < MaxGen
  BY UnusedClientOK, GenAssumption DEF ClientOK, UnusedClient
<1>4. TableHolds(cl) /\ \A id : ~Known(cl, id)
  BY <1>1, <1>3, TableInit
<1>5. Mine = {} /\ Unsent = {}
  BY <1>2 DEF Mine, Unsent
<1>6. resp \in [next : RespIdx, in_flight : SUBSET RespIdx, buf : [RespIdx -> Responses]]
  <2>1. 0 \in RespIdx /\ NoResponse \in Responses
    BY RespAssumption DEF RespIdx, Responses
  <2> QED
    BY <1>1, <2>1
<1>7. ResponsesIntact /\ SendsOrdered
  BY <1>1, <1>2, <1>5 DEF ResponsesIntact, SendsOrdered
<1>8. RespPart /\ InPart
  BY <1>1, <1>2, <1>6, <1>7 DEF RespPart, InPart
<1>9. MaxMessages \in Nat /\ MaxPings \in Nat
  BY BoundsAssumption
<1>10. PubPart
  BY <1>1, <1>9 DEF PubPart
<1>11. InOrder /\ \A id \in Ids : OnceId(id)
  BY <1>1, <1>2 DEF InOrder, OnceId, Messages
<1>12. \A id \in Ids : AckId(id)
  BY <1>1, <1>2, <1>4, <1>5 DEF AckId, AckIdle, Has, ToCome, Waiting
<1> QED
  BY <1>1, <1>4, <1>8, <1>10, <1>11, <1>12 DEF CInv, Core, Order, Acks

LEMMA StutterCInv == CInv /\ UNCHANGED vars => CInv'
<1> SUFFICES ASSUME CInv, UNCHANGED vars PROVE CInv'
  OBVIOUS
<1>1. /\ UNCHANGED <<cl, resp, sends, inbox, batch, outbox, publisher, pings>>
      /\ UNCHANGED <<forwarded, acked, overtaken>>
  BY DEF vars
<1>2. RespPart /\ InPart /\ PubPart
  BY DEF CInv, Core
<1>3. RespPart' /\ SendsNothing /\ InPart' /\ pings' \in 0 .. MaxPings
  BY <1>1, <1>2, QuietStep DEF InPart, PubPart
<1> QED
  BY <1>1, <1>3, Fewer, OtherStep

(* The actions of Next, one by one.                                            *)
LEMMA NextCases ==
  ASSUME Next
  PROVE  \/ \E room \in BOOLEAN : PublishDuplicate(room)
         \/ \E room \in BOOLEAN : PublishNew(room)
         \/ \E room \in BOOLEAN : Pubrel(room)
         \/ PublishUntracked
         \/ \E room \in BOOLEAN : Ping(room)
         \/ Receive \/ KernelSends \/ SendRespCqe \/ Reconnect
         \/ \E id \in Ids : Publish(id)
         \/ \E id \in Ids : Resend(id)
         \/ ReadPubrec \/ ReadPubcomp
BY DEF Next, Broker, Answer, Read

LEMMA NextCInv == CInv /\ Next => CInv'
<1> SUFFICES ASSUME CInv, Next PROVE CInv'
  OBVIOUS
<1> QED
  BY NextCases, DuplicateStep, NewStep, PubrelStep, UntrackedStep, PingStep, ReceiveStep,
     SendStep, ReconnectStep, PublishStep, ResendStep, PubrecStep, PubcompStep

(* The inductive invariant of the ceremony holds in every state.                *)
THEOREM CInvAlways == Spec => []CInv
BY InitCInv, NextCInv, StutterCInv, PTL DEF Spec

(* Every variable keeps its shape, however long the queues grow.               *)
THEOREM TypeCorrect == Spec => []TypeOK
<1>1. CInv => TypeOK
  BY CoreTypes DEF CInv
<1> QED
  BY <1>1, CInvAlways, PTL

(* A slot of resp_buf is in flight while exactly one send of this connection   *)
(* reads it, and holds what was to be sent until the kernel has read it, for   *)
(* any number of slots and of connections on the same client slot.             *)
THEOREM ResponsesCorrect == Spec => []ResponsesIntact
<1>1. CInv => ResponsesIntact
  BY CoreTypes DEF CInv
<1> QED
  BY <1>1, CInvAlways, PTL

(* The publisher gets a PUBREC only for a message that was passed on, unless a *)
(* synchronous answer overtook a prepared one: lost answers, packets sent      *)
(* again, and a new connection on the slot do not break it.                    *)
THEOREM AckedCorrect == Spec => []AckedForwarded
<1>1. CInv => AckedForwarded
  BY DEF CInv, Acks, AckedForwarded
<1> QED
  BY <1>1, CInvAlways, PTL

-------------------------------------------------------------------------------
(* Every step is a step of PublishOnce, or none at all.                        *)

LEMMA SentSame ==
  ASSUME CInv, \A id \in Ids : publisher'[id].message = publisher[id].message
  PROVE  sent' = sent
BY DEF sent, Messages

LEMMA StutterOnce ==
  ASSUME UNCHANGED <<forwarded, acked>>, sent' = sent
  PROVE  UNCHANGED Once!once_vars
BY DEF Once!once_vars

LEMMA NewRefines ==
  ASSUME CInv, NEW room \in BOOLEAN, PublishNew(room)
  PROVE  Once!OnceNext
<1>1. PICK id : id = PacketId
  OBVIOUS
<1> DEFINE m == <<id, Head(inbox).message>>
<1>2. /\ id \in Ids /\ m \in Messages /\ forwarded[m] = 0
      /\ Head(inbox).message <= publisher[id].message
  BY <1>1, NewParts
<1>3. UNCHANGED <<publisher, acked>> /\ forwarded' = [forwarded EXCEPT ![m] = @ + 1]
  BY <1>1 DEF PublishNew
<1>4. forwarded' = [forwarded EXCEPT ![m] = 1]
  BY <1>2, <1>3
<1>5. Head(inbox).message \in Int /\ publisher[id].message \in Int
  <2>1. Head(inbox).message \in 1 .. MaxMessages
    BY ArrivedParts DEF PublishNew
  <2>2. publisher[id].message \in Nat
    BY <1>2, PublisherParts
  <2> QED
    BY <2>1, <2>2
<1>6. m \in sent /\ sent' = sent
  <2>1. publisher[m[1]].message >= m[2]
    BY <1>2, <1>5
  <2> QED
    BY <1>2, <1>3, <2>1 DEF sent
<1> HIDE DEF m
<1>7. Once!Forward(m)
  BY <1>2, <1>3, <1>4, <1>6 DEF Once!Forward
<1> QED
  BY <1>2, <1>7 DEF Once!OnceNext

LEMMA PublishRefines ==
  ASSUME CInv, NEW id \in Ids, Publish(id)
  PROVE  Once!OnceNext
<1> DEFINE n == publisher[id].message
           m == <<id, n + 1>>
<1>1. /\ publisher' = [publisher EXCEPT ![id] = [state |-> "published", message |-> n + 1]]
      /\ UNCHANGED <<forwarded, acked>>
  BY DEF Publish, Transmit
<1>2. n + 1 \in 1 .. MaxMessages /\ n \in Nat
  BY PublishBound, PublisherParts DEF Publish
<1>3. m \in Messages
  BY <1>2 DEF Messages
<1>4. \A j \in Ids : publisher'[j].message = IF j = id THEN n + 1 ELSE publisher[j].message
  BY <1>1 DEF CInv, Core, PubPart
<1>5. \A x \in Messages : x \in sent' <=> x \in sent \/ x = m
  <2> SUFFICES ASSUME NEW j \in Ids, NEW k \in 1 .. MaxMessages
               PROVE  <<j, k>> \in sent' <=> <<j, k>> \in sent \/ <<j, k>> = m
    BY DEF Messages
  <2>1. /\ <<j, k>> \in sent <=> publisher[j].message >= k
        /\ <<j, k>> \in sent' <=> publisher'[j].message >= k
    BY DEF sent, Messages
  <2>2. CASE j = id
    BY <1>2, <1>4, <2>1, <2>2
  <2>3. CASE j # id
    BY <1>4, <2>1, <2>3
  <2> QED
    BY <2>2, <2>3
<1>6. m \notin sent
  <2>1. ~(n >= n + 1)
    BY <1>2
  <2> QED
    BY <2>1 DEF sent
<1>7. sent' = sent \cup {m}
  <2>1. sent \subseteq Messages /\ sent' \subseteq Messages
    BY DEF sent, Messages
  <2> HIDE DEF m
  <2> QED
    BY <1>3, <1>5, <2>1
<1> HIDE DEF m
<1>8. Once!Send(m)
  BY <1>1, <1>6, <1>7 DEF Once!Send
<1> QED
  BY <1>3, <1>8 DEF Once!OnceNext

LEMMA PubrecRefines ==
  ASSUME CInv, ReadPubrec
  PROVE  Once!OnceNext \/ UNCHANGED Once!once_vars
<1>1. PICK id : id = ReadId
  OBVIOUS
<1>2. Reads("PUBREC") /\ outbox' = Tail(outbox)
      /\ UNCHANGED <<resp, sends, overtaken, cl, forwarded>>
  BY DEF ReadPubrec, Transmit
<1>3. id \in Ids
  BY <1>1, <1>2, ReadParts
<1> DEFINE m == <<id, publisher[id].message>>
<1>4. CASE publisher[id].state = "idle"
  <2>1. UNCHANGED <<publisher, acked>>
    BY <1>1, <1>4 DEF ReadPubrec
  <2> QED
    BY <1>2, <2>1, SentSame, StutterOnce
<1>5. CASE publisher[id].state # "idle"
  <2>1. /\ publisher' = [publisher EXCEPT ![id].state = "released"]
        /\ acked' = acked \cup {m}
    BY <1>1, <1>5 DEF ReadPubrec
  <2>2. \A j \in Ids : publisher'[j].message = publisher[j].message
    BY <2>1 DEF CInv, Core, PubPart
  <2>3. sent' = sent
    BY <2>2, SentSame
  <2>4. publisher[id].message \in 1 .. MaxMessages
    BY <1>3, <1>5, PublisherParts, OnceValue
  <2>5. m \in Messages /\ m \in sent
    BY <1>3, <2>4 DEF sent, Messages
  <2> HIDE DEF m
  <2>6. CASE m \in acked
    BY <1>2, <2>1, <2>3, <2>6, StutterOnce
  <2>7. CASE m \notin acked
    <3>1. Once!Acknowledge(m)
      BY <1>2, <2>1, <2>3, <2>5, <2>7 DEF Once!Acknowledge
    <3> QED
      BY <2>5, <3>1 DEF Once!OnceNext
  <2> QED
    BY <2>6, <2>7
<1> QED
  BY <1>4, <1>5

LEMMA OthersRefine ==
  ASSUME CInv,
         \/ \E room \in BOOLEAN : PublishDuplicate(room) \/ Pubrel(room) \/ Ping(room)
         \/ PublishUntracked \/ Receive \/ KernelSends \/ SendRespCqe \/ Reconnect
         \/ \E id \in Ids : Resend(id)
         \/ ReadPubcomp \/ UNCHANGED vars
  PROVE  UNCHANGED Once!once_vars
<1>1. UNCHANGED <<forwarded, acked>>
  BY DEF PublishDuplicate, Pubrel, Ping, PublishUntracked, Receive, KernelSends, SendRespCqe,
         Reconnect, Resend, Transmit, ReadPubcomp, vars
<1>2. \A id \in Ids : publisher'[id].message = publisher[id].message
  <2>1. CASE Reconnect
    BY <2>1 DEF Reconnect, CInv, Core, PubPart
  <2>2. CASE ReadPubcomp
    BY <2>2 DEF ReadPubcomp, CInv, Core, PubPart
  <2>3. CASE ~Reconnect /\ ~ReadPubcomp
    <3>1. UNCHANGED publisher
      BY <2>3 DEF PublishDuplicate, Pubrel, Ping, PublishUntracked, Receive, KernelSends,
                  SendRespCqe, Resend, Transmit, vars
    <3> QED
      BY <3>1
  <2> QED
    BY <2>1, <2>2, <2>3
<1> QED
  BY <1>1, <1>2, SentSame, StutterOnce

(* The ceremony implements PublishOnce: a message is passed on at most once,   *)
(* only after it was sent, and only messages that were sent are acknowledged,  *)
(* whatever is answered, lost, sent again or interrupted by a reconnect.       *)
THEOREM OnceCorrect == Spec => ImplementsPublishOnce
<1>1. Init => Once!OnceInit
  <2> SUFFICES ASSUME Init PROVE Once!OnceInit
    OBVIOUS
  <2>1. /\ publisher = [id \in Ids |-> [state |-> "idle", message |-> 0]]
        /\ forwarded = [m \in Messages |-> 0] /\ acked = {}
    BY DEF Init
  <2>2. sent = {}
    BY <2>1 DEF sent, Messages
  <2> QED
    BY <2>1, <2>2 DEF Once!OnceInit
<1>2. CInv /\ [Next]_vars => [Once!OnceNext]_(Once!once_vars)
  <2> SUFFICES ASSUME CInv, [Next]_vars PROVE Once!OnceNext \/ UNCHANGED Once!once_vars
    OBVIOUS
  <2>1. CASE UNCHANGED vars
    BY <2>1, OthersRefine
  <2>2. CASE Next
    BY <2>2, NextCases, NewRefines, PublishRefines, PubrecRefines, OthersRefine
  <2> QED
    BY <2>1, <2>2
<1> QED
  BY <1>1, <1>2, CInvAlways, PTL DEF Spec, ImplementsPublishOnce, Once!OnceSpec
===============================================================================
