------------------------------- MODULE Ceremony -------------------------------
(***************************************************************************)
(* The QoS 2 ceremony of a publisher (fsm_pub_received and                 *)
(* fsm_pub_pubrel_received in src/broker/mqtt_fsm.h), and the responses it *)
(* is answered with: the slots of resp_buf, each of which one send may be  *)
(* reading (src/broker/loop.h).  The inflight table is that of ClientSlot. *)
(*                                                                         *)
(* The publisher is external: it numbers its messages, has one message per *)
(* packet id under way, and sends a packet again as long as it is not      *)
(* answered.  What it sends arrives in order, and is handled in the        *)
(* batches that receives bring.  Sends are prepared while a batch is       *)
(* handled and submitted, at the latest, before the next.  The kernel      *)
(* performs a connection's sends in order.  A synchronous write overtakes  *)
(* the prepared ones; it is taken only if the kernel holds none.           *)
(*                                                                         *)
(* Abstractions.  forwarded counts the messages let through to the fan-out *)
(* (module Delivery).  Whether the SQ has room is chosen.  SharedSpec adds *)
(* the messages that the same connection is sent as a subscriber, whose    *)
(* entries share the table.                                                *)
(***************************************************************************)
EXTENDS ClientSlot

CONSTANTS
  Ids,          \* packet ids the publisher uses
  MaxMessages,  \* bound: messages published
  MaxPings,     \* bound: PINGREQs
  MaxInbox,     \* bound: packets that lie unread in the socket
  MaxOutbox,    \* bound: and responses, on the other side
  RespSlots     \* RESP_SLOTS

ASSUME IdsAssumption == Ids \subseteq PacketIds \ {0} /\ IsFiniteSet(Ids)
ASSUME BoundsAssumption == MaxMessages \in Nat /\ MaxPings \in Nat /\ {MaxInbox, MaxOutbox} \subseteq Nat \ {0}
ASSUME RespAssumption == RespSlots \in Nat \ {0}

VARIABLES
  cl,         \* the client slot
  resp,       \* its response slots: next to try, in flight, contents
  sends,      \* OP_SEND_RESP requests whose CQE is not dispatched, oldest first
  inbox,      \* packets the publisher sent and the broker has not processed
  batch,      \* how many of them were received
  outbox,     \* responses the kernel sent and the publisher has not read
  publisher,  \* the publisher's state for each packet id
  pings,      \* PINGREQs it has sent
  forwarded,  \* how often each message was let through to the fan-out
  acked,      \* messages the publisher got a PUBREC for
  overtaken   \* a synchronous write has overtaken a prepared send

vars == <<cl, resp, sends, inbox, batch, outbox, publisher, pings, forwarded, acked, overtaken>>

Messages == Ids \X (1 .. MaxMessages)
RespIdx  == 0 .. RespSlots - 1

NoResponse == [type |-> "none", id |-> 0]
PingResp   == [type |-> "PINGRESP", id |-> 0]
Response(type, id) == [type |-> type, id |-> id]
Responses  == {NoResponse, PingResp} \cup [type : {"PUBREC", "PUBCOMP"}, id : Ids]

Init ==
  /\ cl = ClientInit(UnusedClient)
  /\ resp = [next |-> 0, in_flight |-> {}, buf |-> [k \in RespIdx |-> NoResponse]]
  /\ sends = << >>
  /\ inbox = << >> /\ batch = 0 /\ outbox = << >>
  /\ publisher = [id \in Ids |-> [state |-> "idle", message |-> 0]]
  /\ pings = 0
  /\ forwarded = [m \in Messages |-> 0]
  /\ acked = {} /\ overtaken = FALSE

-------------------------------------------------------------------------------
(* Responses.                                                                  *)

Idle == RespIdx \ resp.in_flight
(* client_get_resp_slot: the first slot from "next" that no send is reading. *)
FromNext(k) == (k - resp.next) % RespSlots
RespSlot == CHOOSE k \in Idle : \A j \in Idle : FromNext(k) <= FromNext(j)

Submitted == {i \in DOMAIN sends : sends[i].state = "submitted"}

(* Fault: the counter does not wrap. *)
FillSlotNoWrap(r, room) ==
  /\ resp' = [next |-> RespSlot + 1,
              in_flight |-> IF room THEN resp.in_flight \cup {RespSlot} ELSE resp.in_flight,
              buf |-> [resp.buf EXCEPT ![RespSlot] = r]]
  /\ UNCHANGED <<sends, outbox, overtaken>>

(* The slot is filled, and read by a send if the SQ has room for it. *)
FillSlot(r, room) ==
  /\ resp' = [next |-> (RespSlot + 1) % RespSlots,
              in_flight |-> IF room THEN resp.in_flight \cup {RespSlot} ELSE resp.in_flight,
              buf |-> [resp.buf EXCEPT ![RespSlot] = r]]
  /\ sends' = IF room
              THEN Append(sends, [slot |-> RespSlot, gen |-> cl.generation,
                                  what |-> r, state |-> "prepared"])
              ELSE sends
  /\ UNCHANGED <<outbox, overtaken>>

(* send_resp: with every slot in flight the response is written at once, or     *)
(* lost if the socket does not take it.                                         *)
SendResp(r, room) ==
  IF Idle # {} THEN FillSlot(r, room)
  ELSE /\ outbox' = IF Submitted = {} /\ Len(outbox) < MaxOutbox
                    THEN Append(outbox, r) ELSE outbox
       /\ overtaken' = (overtaken \/ \E i \in DOMAIN sends : sends[i].state = "prepared")
       /\ UNCHANGED <<resp, sends>>

(* PINGREQ is answered by send_static: with every slot in flight, not at all.   *)
Ping(room) ==
  /\ pings < MaxPings
  /\ pings' = pings + 1
  /\ IF Idle # {} THEN FillSlot(PingResp, room)
     ELSE UNCHANGED <<resp, sends, outbox, overtaken>>
  /\ UNCHANGED <<cl, inbox, batch, publisher, forwarded, acked>>

(* The SQ is submitted; then the kernel performs the oldest send that is not    *)
(* performed, if the socket has room: it reads the response slot now.  What     *)
(* goes to the peer of an earlier connection is of no interest.                 *)
AllSubmitted ==
  [i \in DOMAIN sends |-> [sends[i] EXCEPT !.state = IF @ = "prepared" THEN "submitted" ELSE @]]
KernelSends ==
  /\ Len(outbox) < MaxOutbox
  /\ \E i \in Submitted :
       /\ \A j \in Submitted : i <= j
       /\ sends' = [sends EXCEPT ![i].state = "sent"]
       /\ LET r == resp.buf[sends[i].slot]
          IN  outbox' = IF sends[i].gen = cl.generation /\ r # PingResp
                        THEN Append(outbox, r) ELSE outbox
  /\ UNCHANGED <<cl, resp, inbox, batch, publisher, pings, forwarded, acked, overtaken>>

(* The event loop comes round: it submits, and receives what has arrived. *)
Receive ==
  /\ batch = 0
  /\ inbox # << >> \/ sends # AllSubmitted
  /\ batch' = Len(inbox)
  /\ sends' = AllSubmitted
  /\ UNCHANGED <<cl, resp, inbox, outbox, publisher, pings, forwarded, acked, overtaken>>

(* Fault: the completion of an earlier connection frees a slot of this one. *)
SendRespCqeAnyGen ==
  /\ sends # << >> /\ Head(sends).state = "sent"
  /\ sends' = Tail(sends)
  /\ resp' = [resp EXCEPT !.in_flight = @ \ {Head(sends).slot}]
  /\ UNCHANGED <<cl, inbox, batch, outbox, publisher, pings, forwarded, acked, overtaken>>

(* dispatch_cqe, OP_SEND_RESP *)
SendRespCqe ==
  /\ sends # << >> /\ Head(sends).state = "sent"
  /\ sends' = Tail(sends)
  /\ resp' = IF Head(sends).gen = cl.generation
             THEN [resp EXCEPT !.in_flight = @ \ {Head(sends).slot}] ELSE resp
  /\ UNCHANGED <<cl, inbox, batch, outbox, publisher, pings, forwarded, acked, overtaken>>

-------------------------------------------------------------------------------
(* The ceremony.                                                               *)
Arrived(type) == /\ batch > 0 /\ Head(inbox).type = type
                 /\ inbox' = Tail(inbox) /\ batch' = batch - 1
PacketId == Head(inbox).id

(* fsm_pub_received: the packet id is looked up in the whole table. *)
Duplicate(id) == \E s \in Find(cl, id) : cl.inflight[s].direction = "in"
(* client_inflight_track_incoming returns -1. *)
TrackRejects(id) == cl.inflight_count >= MaxInflight
                    \/ (Incoming(cl, id) = {} /\ Unused(cl) = {})

(* Faults: a duplicate is not answered; a message that cannot be tracked is. *)
PublishDuplicateSilent(room) ==
  /\ Arrived("PUBLISH") /\ Duplicate(PacketId)
  /\ UNCHANGED <<cl, resp, sends, outbox, publisher, pings, forwarded, acked, overtaken>>
PublishUntrackedAnswered ==
  /\ Arrived("PUBLISH") /\ ~Duplicate(PacketId) /\ TrackRejects(PacketId)
  /\ SendResp(Response("PUBREC", PacketId), TRUE)
  /\ UNCHANGED <<cl, publisher, pings, forwarded, acked>>

PublishDuplicate(room) ==
  /\ Arrived("PUBLISH") /\ Duplicate(PacketId)
  /\ SendResp(Response("PUBREC", PacketId), room)
  /\ UNCHANGED <<cl, publisher, pings, forwarded, acked>>

PublishUntracked ==
  /\ Arrived("PUBLISH") /\ ~Duplicate(PacketId) /\ TrackRejects(PacketId)
  /\ UNCHANGED <<cl, resp, sends, outbox, publisher, pings, forwarded, acked, overtaken>>

PublishNew(room) ==
  /\ Arrived("PUBLISH") /\ ~Duplicate(PacketId) /\ ~TrackRejects(PacketId)
  /\ cl' = TrackIncoming(cl, PacketId)
  /\ SendResp(Response("PUBREC", PacketId), room)
  /\ forwarded' = [forwarded EXCEPT ![<<PacketId, Head(inbox).message>>] = @ + 1]
  /\ UNCHANGED <<publisher, pings, acked>>

(* Fault: the packet id found at the direct index is not compared. *)
CompletedAnyId(table, id) ==
  LET found == {s \in InflightIdx : /\ table.inflight[s].state = "WAIT_PUBREL"
                                     /\ table.inflight[s].direction = "in"}
  IN  IF found = {} THEN table ELSE FreeSlot(table, CHOOSE s \in found : TRUE)

(* fsm_pub_pubrel_received *)
Completed(table, id) ==
  LET found == {s \in Find(table, id) : /\ table.inflight[s].state = "WAIT_PUBREL"
                                        /\ table.inflight[s].direction = "in"}
  IN  IF found = {} THEN table ELSE FreeSlot(table, CHOOSE s \in found : TRUE)

Pubrel(room) ==
  /\ Arrived("PUBREL")
  /\ cl' = Completed(cl, PacketId)
  /\ SendResp(Response("PUBCOMP", PacketId), room)
  /\ UNCHANGED <<publisher, pings, forwarded, acked>>

(* A message to the same client takes an entry (client_inflight_alloc), and is  *)
(* acknowledged.                                                                *)
Deliver ==
  /\ Unused(cl) # {}
  /\ cl' = Drop(Assign(Push(cl, PublishSeg(cl, NoMsg, 1, 0, FALSE)), {}), 1)
  /\ UNCHANGED <<resp, sends, inbox, batch, outbox, publisher, pings, forwarded, acked, overtaken>>

Delivered(s) ==
  /\ s \in Outgoing(cl)
  /\ cl' = FreeSlot(cl, s)
  /\ UNCHANGED <<resp, sends, inbox, batch, outbox, publisher, pings, forwarded, acked, overtaken>>

(* The connection ends and the slot serves another: client_init.  What the old  *)
(* one had in its sockets is gone, the sends the kernel holds are not.          *)
Reconnect ==
  /\ cl.generation < MaxGen
  /\ cl' = ClientInit(cl)
  /\ resp' = [resp EXCEPT !.next = 0, !.in_flight = {}]
  /\ inbox' = << >> /\ batch' = 0 /\ outbox' = << >>
  /\ publisher' = [id \in Ids |-> [publisher[id] EXCEPT !.state = "idle"]]
  /\ UNCHANGED <<sends, pings, forwarded, acked, overtaken>>

-------------------------------------------------------------------------------
(* The publisher.                                                              *)
sent == {m \in Messages : publisher[m[1]].message >= m[2]}

Transmit(type, id, message) ==
  /\ Len(inbox) < MaxInbox
  /\ inbox' = Append(inbox, [type |-> type, id |-> id, message |-> message])
  /\ UNCHANGED <<cl, resp, sends, batch, pings, forwarded, overtaken>>

Publish(id) ==
  /\ publisher[id].state = "idle" /\ Cardinality(sent) < MaxMessages
  /\ publisher' = [publisher EXCEPT ![id] = [state |-> "published", message |-> @.message + 1]]
  /\ Transmit("PUBLISH", id, publisher[id].message + 1)
  /\ UNCHANGED <<outbox, acked>>

(* Unanswered packets are sent again. *)
Resend(id) ==
  /\ publisher[id].state # "idle"
  /\ Transmit(IF publisher[id].state = "published" THEN "PUBLISH" ELSE "PUBREL",
              id, publisher[id].message)
  /\ UNCHANGED <<outbox, publisher, acked>>

Reads(type) == outbox # << >> /\ Head(outbox).type = type
ReadId == Head(outbox).id

(* A PUBREC is answered by PUBREL, one for a message that is done is dropped. *)
ReadPubrec ==
  /\ Reads("PUBREC")
  /\ outbox' = Tail(outbox)
  /\ IF publisher[ReadId].state = "idle"
     THEN UNCHANGED <<cl, resp, sends, inbox, batch, publisher, pings, forwarded, acked, overtaken>>
     ELSE /\ publisher' = [publisher EXCEPT ![ReadId].state = "released"]
          /\ acked' = acked \cup {<<ReadId, publisher[ReadId].message>>}
          /\ Transmit("PUBREL", ReadId, publisher[ReadId].message)

ReadPubcomp ==
  /\ Reads("PUBCOMP")
  /\ outbox' = Tail(outbox)
  /\ publisher' = [publisher EXCEPT ![ReadId].state =
                     IF @ = "released" THEN "idle" ELSE @]
  /\ UNCHANGED <<cl, resp, sends, inbox, batch, pings, forwarded, acked, overtaken>>

-------------------------------------------------------------------------------
Answer(room) == PublishDuplicate(room) \/ PublishNew(room) \/ Pubrel(room)
Broker == (\E room \in BOOLEAN : Answer(room)) \/ PublishUntracked
Read == ReadPubrec \/ ReadPubcomp

Next ==
  \/ Broker
  \/ \E room \in BOOLEAN : Ping(room)
  \/ Receive \/ KernelSends \/ SendRespCqe
  \/ Reconnect
  \/ \E id \in Ids : Publish(id) \/ Resend(id)
  \/ Read

Spec == Init /\ [][Next]_vars

SharedNext == Next \/ Deliver \/ \E s \in InflightIdx : Delivered(s)
SharedSpec == Init /\ [][SharedNext]_vars

(* Handlers run, the kernel and the peer go on, the publisher's timer rings,    *)
(* and not every answer to a packet id is lost.                                 *)
Answered(id) == /\ Answer(TRUE) /\ PacketId = id
                /\ sends' # sends \/ outbox' # outbox
Fairness ==
  /\ WF_vars(Broker) /\ WF_vars(Receive) /\ WF_vars(KernelSends) /\ WF_vars(SendRespCqe)
  /\ SF_vars(Read)
  /\ \A id \in Ids : /\ SF_vars(Resend(id))
                     /\ SF_vars(Answered(id))
FairSpec == Spec /\ Fairness

-------------------------------------------------------------------------------
(* Properties.                                                                 *)

Packets == [type : {"PUBLISH", "PUBREL"}, id : Ids, message : 1 .. MaxMessages]

(* The shape of the state. *)
TypeOK ==
  /\ cl.inflight \in [InflightIdx -> Entry] /\ cl.inflight_count \in 0 .. MaxInflight
  /\ cl.egress = << >> /\ cl.generation \in Generations
  /\ resp \in [next : RespIdx, in_flight : SUBSET RespIdx, buf : [RespIdx -> Responses]]
  /\ sends \in Seq([slot : RespIdx, gen : Generations, what : Responses, 
                     state : {"prepared", "submitted", "sent"}])
  /\ inbox \in Seq(Packets) /\ batch \in 0 .. Len(inbox) /\ outbox \in Seq(Responses)
  /\ publisher \in [Ids -> [state : {"idle", "published", "released"},
                            message : 0 .. MaxMessages]]
  /\ pings \in 0 .. MaxPings
  /\ forwarded \in [Messages -> Nat] /\ overtaken \in BOOLEAN /\ acked \subseteq Messages

(* A response slot is in flight exactly while one send of this connection has   *)
(* not been completed, and until the kernel has performed it the slot holds     *)
(* what was to be sent: no completion of an earlier connection frees it.        *)
Mine == {i \in DOMAIN sends : sends[i].gen = cl.generation}
ResponsesIntact ==
  /\ resp.in_flight = {sends[i].slot : i \in Mine}
  /\ \A i, j \in Mine : i # j => sends[i].slot # sends[j].slot
  /\ \A i \in Mine : sends[i].state = "sent" \/ resp.buf[sends[i].slot] = sends[i].what

(* The ceremony implements PublishOnce. *)
Once == INSTANCE PublishOnce
ImplementsPublishOnce == Once!OnceSpec

(* The publisher is told that a message arrived only after it was passed on, as *)
(* long as no synchronous answer overtook one that was prepared before it.      *)
AckedForwarded == ~overtaken => \A m \in acked : forwarded[m] = 1

(* A message let through twice: "false if duplicate (QoS 2)" (mqtt_fsm.h:46). *)
DuplicateDropped == \A m \in Messages : forwarded[m] <= 1

(* However answers get lost, a publisher that keeps trying gets its message     *)
(* completed, unless its connection ends.                                       *)
PublishCompletes == \A id \in Ids :
  publisher[id].state = "published" ~> publisher[id].state = "idle"
================================================================================
