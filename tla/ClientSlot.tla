------------------------------ MODULE ClientSlot ------------------------------
(***************************************************************************)
(* The delivery half of struct client_slot (src/broker/client.h): the      *)
(* inflight table that tracks QoS 1/2 messages, the egress ring of         *)
(* segments waiting to be written to the socket (src/broker/egress.h), and *)
(* the operations on them.  Everything here is a pure operator on one      *)
(* client record; module Delivery puts the records into a broker.          *)
(*                                                                         *)
(* Abstractions.  The ring is the sequence of its live segments.  The hot  *)
(* and cold arrays are one entry.  A freed entry, whose other fields the   *)
(* code leaves behind but never reads, is FreeEntry.  Deadlines are left   *)
(* out (the sweep chooses what is due), and so are wire lengths: a cursor  *)
(* is 0 when the segment was not touched and 1 when it was partly written. *)
(***************************************************************************)
EXTENDS Integers, Sequences, FiniteSets

CONSTANTS
  Msgs,         \* indices of the canonical message pool
  NoMsg,        \* MSG_POOL_INVALID
  MaxInflight,  \* entries of an inflight table, a power of two
  IdSpace,      \* number of packet identifiers, 2^16 in the code
  EgressCap,    \* segments an egress ring holds
  BatchMax,     \* EGRESS_BATCH_MAX, segments in one writev
  MaxGen        \* bound: connections served by one slot (u8 generation)

ASSUME InflightAssumption ==
  /\ MaxInflight \in Nat \ {0}
  /\ IdSpace \in Nat /\ IdSpace > MaxInflight   \* max_inflight is a u16
  /\ IdSpace % MaxInflight = 0
ASSUME EgressAssumption == EgressCap \in Nat \ {0} /\ BatchMax \in Nat \ {0}
ASSUME NoMsgAssumption == NoMsg \notin Msgs
ASSUME GenAssumption == MaxGen \in 1..255

(* The k-th smallest element of a set of integers. *)
Nth(S, k) == CHOOSE i \in S : Cardinality({j \in S : j <= i}) = k

InflightIdx == 0 .. MaxInflight - 1
PacketIds   == 0 .. IdSpace - 1
Generations == 0 .. MaxGen

Entry == [state      : {"FREE", "WAIT_PUBACK", "WAIT_PUBREC", "WAIT_PUBREL"},
          packet_id  : PacketIds,
          direction  : {"out", "in"},
          msg_idx    : Msgs \cup {NoMsg},
          qos        : 0..2,
          dup_count  : Nat]

FreeEntry == [state |-> "FREE", packet_id |-> 0, direction |-> "out",
              msg_idx |-> NoMsg, qos |-> 0, dup_count |-> 0]

Segment == [kind      : {"PUBLISH", "CTRL"},
            msg_idx   : Msgs \cup {NoMsg},
            packet_id : PacketIds,
            qos       : 0..2,
            dup       : BOOLEAN,
            slot_gen  : Generations,
            cursor    : {0, 1}]

Client == [state               : {"FREE", "ACTIVE", "DORMANT", "CLOSING"},
           generation          : Generations,
           egress              : Seq(Segment),
           egress_inflight     : BOOLEAN,
           egress_batch_count  : Nat,
           egress_retry_queued : BOOLEAN,
           inflight            : [InflightIdx -> Entry],
           inflight_count      : Nat,
           inflight_free_hint  : InflightIdx,
           inflight_generation : Nat]

EmptyTable == [s \in InflightIdx |-> FreeEntry]

(* A slot nobody has used yet. *)
UnusedClient ==
  [state |-> "FREE", generation |-> 0, egress |-> << >>,
   egress_inflight |-> FALSE, egress_batch_count |-> 0,
   egress_retry_queued |-> FALSE, inflight |-> EmptyTable,
   inflight_count |-> 0, inflight_free_hint |-> 0, inflight_generation |-> 0]

(* Fault: a new connection keeps the generation of the last one. *)
ClientInitSameGeneration(cl) ==
  [UnusedClient EXCEPT !.state = "ACTIVE", !.generation = cl.generation]

(* client_init: the generation survives the previous occupant, the rest does not. *)
ClientInit(cl) ==
  [UnusedClient EXCEPT !.state = "ACTIVE", !.generation = cl.generation + 1]

(* client_inflight_free_all: nothing to do when the count says the table is empty. *)
FreeAll(cl) ==
  IF cl.inflight_count = 0 THEN cl
  ELSE [cl EXCEPT !.inflight = EmptyTable, !.inflight_count = 0,
                  !.inflight_free_hint = 0]

(* client_free *)
ClientFree(cl) ==
  [cl EXCEPT !.state = "FREE", !.egress_inflight = FALSE,
             !.egress_retry_queued = FALSE]

(* client_go_dormant: the inflight table is kept as it is. *)
ClientGoDormant(cl) ==
  [cl EXCEPT !.state = "DORMANT", !.egress_inflight = FALSE,
             !.egress_retry_queued = FALSE]

-------------------------------------------------------------------------------
(* The inflight table.                                                         *)

Used(cl) == {s \in InflightIdx : cl.inflight[s].state # "FREE"}
Unused(cl) == InflightIdx \ Used(cl)
Outgoing(cl) == {s \in Used(cl) : cl.inflight[s].direction = "out"}

(* A search for a free slot starts at the hint and wraps.  FreePositions are    *)
(* the distances from the hint at which it finds one, SlotAt the k-th it finds. *)
SearchPos(cl, s) == (s - cl.inflight_free_hint) % MaxInflight
FreePositions(cl) == {SearchPos(cl, s) : s \in Unused(cl)}
SlotAt(cl, k) == (cl.inflight_free_hint + Nth(FreePositions(cl), k)) % MaxInflight

(* Faults: a packet id computed in 32 bits, and one that may be 0. *)
PacketIdOfWide(gen, s) == s + 1 + gen * MaxInflight
PacketIdOfZero(gen, s) == (s + 1 + gen * MaxInflight) % IdSpace

(* The packet id that makes (packet_id - 1) % max_inflight the slot.  It is  *)
(* a u16, and 0 is not a packet id.                                          *)
PacketIdOf(gen, s) ==
  LET id == (s + 1 + gen * MaxInflight) % IdSpace
  IN  IF id = 0 THEN s + 1 ELSE id

(* client_inflight_find_direct: the set holding the entry's slot, or {}. *)
FindDirect(cl, id) ==
  {s \in Used(cl) : id # 0 /\ s = (id - 1) % MaxInflight
                           /\ cl.inflight[s].packet_id = id}

(* client_inflight_find: the directly indexed entry of either direction, else *)
(* the incoming entry the packet-id hash leads to.                            *)
Incoming(cl, id) ==
  {s \in Used(cl) : cl.inflight[s].direction = "in" /\ cl.inflight[s].packet_id = id}

Find(cl, id) ==
  IF id = 0 THEN {}
  ELSE IF FindDirect(cl, id) # {} THEN FindDirect(cl, id)
  ELSE Incoming(cl, id)

(* client_inflight_free_slot *)
FreeSlot(cl, s) ==
  IF s \notin Used(cl) THEN cl
  ELSE [cl EXCEPT !.inflight[s] = FreeEntry,
                  !.inflight_count = IF @ > 0 THEN @ - 1 ELSE @]

(* Fault: the entry is taken but not counted. *)
TrackIncomingUncounted(cl, id) ==
  IF Unused(cl) = {} \/ Incoming(cl, id) # {} THEN cl
  ELSE [cl EXCEPT !.inflight[SlotAt(cl, 1)] =
                    [state |-> "WAIT_PUBREL", packet_id |-> id, direction |-> "in",
                     msg_idx |-> NoMsg, qos |-> 2, dup_count |-> 0]]

(* client_inflight_track_incoming: a packet id already tracked is left alone,  *)
(* otherwise the first free slot from the hint records it.                     *)
TrackFails(cl) == cl.inflight_count >= MaxInflight \/ Unused(cl) = {}
TrackIncoming(cl, id) ==
  IF TrackFails(cl) \/ Incoming(cl, id) # {} THEN cl
  ELSE LET s == SlotAt(cl, 1)
       IN  [cl EXCEPT !.inflight[s] =
                        [state |-> "WAIT_PUBREL", packet_id |-> id,
                         direction |-> "in", msg_idx |-> NoMsg, qos |-> 2,
                         dup_count |-> 0],
                      !.inflight_count = @ + 1,
                      !.inflight_free_hint = (s + 1) % MaxInflight]

-------------------------------------------------------------------------------
(* The egress queue.                                                           *)

(* Fault: the ring takes one segment too many. *)
EgressFullLate(cl) == Len(cl.egress) > EgressCap

EgressFull(cl) == Len(cl.egress) >= EgressCap

PublishSeg(cl, m, qos, id, dup) ==
  [kind |-> "PUBLISH", msg_idx |-> m, packet_id |-> id, qos |-> qos,
   dup |-> dup, slot_gen |-> cl.generation, cursor |-> 0]

(* The PUBREL that enqueue_pubrel builds; its packet id sits in the inline data. *)
CtrlSeg(cl) ==
  [kind |-> "CTRL", msg_idx |-> NoMsg, packet_id |-> 0, qos |-> 0,
   dup |-> FALSE, slot_gen |-> cl.generation, cursor |-> 0]

Push(cl, seg) == [cl EXCEPT !.egress = Append(@, seg)]

(* Egress owns the reference of a PUBLISH until a packet id is assigned to it. *)
OwnsRef(seg) == seg.kind = "PUBLISH" /\ seg.packet_id = 0

(* First transmission of a QoS 1/2 message: the flush has to allocate an entry. *)
NeedsId(seg) == OwnsRef(seg) /\ seg.qos > 0

NeedsIdUpTo(cl, n) == {i \in 1..n : i \in DOMAIN cl.egress /\ NeedsId(cl.egress[i])}

(* buf_pool_get gives NULL for the buffer of the segment's message.  bare are    *)
(* the messages whose buf_idx is MSG_POOL_INVALID.                               *)
Bare(seg, bare) == seg.kind = "PUBLISH" /\ seg.msg_idx \in bare

(* The segments egress_flush puts into one writev: it stops at EGRESS_BATCH_MAX, *)
(* at a PUBLISH without a buffer, at a segment that needs an entry when none is  *)
(* left, and at a partly written segment that is not the first.                  *)
Batches(cl, bare) ==
  {n \in 0 .. Len(cl.egress) :
     /\ n <= BatchMax
     /\ \A i \in 1..n : ~Bare(cl.egress[i], bare)
     /\ Cardinality(NeedsIdUpTo(cl, n)) <= MaxInflight - cl.inflight_count
     /\ \A i \in 2..n : cl.egress[i].cursor = 0}
BatchLen(cl, bare) == CHOOSE n \in Batches(cl, bare) : \A k \in Batches(cl, bare) : k <= n

(* client_inflight_alloc for every segment of the batch that needs it, in order: *)
(* the k-th takes the k-th free slot of the search, and the generation advances  *)
(* each time slot 0 is taken.  Packet ids depend on the generation modulo        *)
(* IdSpace / MaxInflight only.                                                   *)
Fresh(cl, bare) == NeedsIdUpTo(cl, BatchLen(cl, bare))
SlotOf(cl, i) == SlotAt(cl, Cardinality(NeedsIdUpTo(cl, i)))
Taken(cl, bare) == {SlotOf(cl, i) : i \in Fresh(cl, bare)}
SegOf(cl, bare, s) == cl.egress[CHOOSE i \in Fresh(cl, bare) : SlotOf(cl, i) = s]
IdOf(cl, bare, s) ==
  LET wrapped == 0 \in Taken(cl, bare) /\ SearchPos(cl, 0) < SearchPos(cl, s)
  IN  PacketIdOf(cl.inflight_generation + (IF wrapped THEN 1 ELSE 0), s)

NewEntry(seg, id) ==
  [state |-> IF seg.qos = 1 THEN "WAIT_PUBACK" ELSE "WAIT_PUBREC", packet_id |-> id,
   direction |-> "out", msg_idx |-> seg.msg_idx, qos |-> seg.qos, dup_count |-> 0]

Assign(cl, bare) ==
  LET fresh == Fresh(cl, bare)
      taken == Taken(cl, bare)
  IN  [cl EXCEPT
         !.egress = [i \in DOMAIN @ |->
                       IF i \in fresh
                       THEN [@[i] EXCEPT !.packet_id = IdOf(cl, bare, SlotOf(cl, i))]
                       ELSE @[i]],
         !.inflight = [s \in InflightIdx |->
                         IF s \in taken THEN NewEntry(SegOf(cl, bare, s), IdOf(cl, bare, s))
                         ELSE @[s]],
         !.inflight_count = @ + Cardinality(fresh),
         !.inflight_free_hint =
            IF fresh = {} THEN @ ELSE (SlotAt(cl, Cardinality(fresh)) + 1) % MaxInflight,
         !.inflight_generation =
            IF 0 \in taken THEN (@ + 1) % (IdSpace \div MaxInflight) ELSE @]

(* Faults: a second writev while one is under way, and a full inflight table   *)
(* that holds back segments which need no entry.                               *)
FlushNoopNotInflight(cl, bare) ==
  cl.egress = << >> \/ cl.state # "ACTIVE" \/ BatchLen(cl, bare) = 0
FlushNoopTableFull(cl, bare) ==
  \/ cl.egress_inflight \/ cl.egress = << >> \/ cl.state # "ACTIVE"
  \/ BatchLen(cl, bare) = 0 \/ cl.inflight_count >= MaxInflight

(* egress_flush returns EGRESS_FLUSH_NOOP; the batch is empty when the head needs *)
(* an entry and none is left, and when it has no buffer.  The pre-clean loop,    *)
(* which drops leading segments of an earlier generation or already complete,    *)
(* has no counterpart: QueueShape (module Delivery) shows there are none.        *)
FlushNoop(cl, bare) ==
  \/ cl.egress_inflight
  \/ cl.egress = << >>
  \/ cl.state # "ACTIVE"
  \/ BatchLen(cl, bare) = 0

(* EGRESS_FLUSH_SUBMITTED: packet ids are assigned before the SQE is asked for. *)
Submit(cl, bare) ==
  [Assign(cl, bare) EXCEPT !.egress_inflight = TRUE,
                           !.egress_batch_count = BatchLen(cl, bare)]

(* Drop the first n segments (egress_pop, n times). *)
Drop(cl, n) == [cl EXCEPT !.egress = SubSeq(@, n + 1, Len(@))]
===============================================================================
