-------------------------------- MODULE Receive --------------------------------
(***************************************************************************)
(* How the packets of one connection come out of its byte stream: the      *)
(* receive buffer with its compaction and the loop over the packets in it  *)
(* (src/broker/loop.h), the fixed header (src/mqtt/packet.h), and the      *)
(* buffer a PUBLISH steals (src/broker/handler.h).                         *)
(*                                                                         *)
(* The kernel delivers the stream in pieces of any size, into the room the *)
(* last receive offered.  A stolen buffer stays with its message until it  *)
(* is released; the connection goes on in another one, to which the rest   *)
(* of the data is copied.                                                  *)
(*                                                                         *)
(* Abstractions.  A byte knows the packet it was sent in ("of"); those of  *)
(* a packet's body are alike.  The contents of packets are valid.  The     *)
(* digits of a remaining length are in base VbiBase, 2^7 in the code.      *)
(* Whether a PUBLISH is fanned out, and to whom, is chosen; a full SQ only *)
(* delays the next receive.                                                *)
(***************************************************************************)
EXTENDS Integers, Sequences, FiniteSetsExt

CONSTANTS
  Bufs,          \* receive buffers
  BufSize,       \* recv_buf_size
  VbiBase,       \* values of a digit of the remaining length, 2^7
  VbiMaxBytes,   \* MQTT_VBI_MAX_BYTES
  Packets,       \* bound: the packets the peer may send, type and remaining length
  MaxPackets     \* bound: how many

Types == {"CONNECT", "PUBLISH", "ACK", "PINGREQ", "DISCONNECT"}

ASSUME BufsAssumption == IsFiniteSet(Bufs) /\ Bufs # {} /\ "none" \notin Bufs
ASSUME BufSizeAssumption == BufSize \in Nat /\ BufSize >= 4
ASSUME VbiAssumption == VbiBase \in Nat /\ VbiBase > 2 /\ VbiMaxBytes \in Nat \ {0}
ASSUME PacketsAssumption == Packets \subseteq [type : Types, len : Nat] /\ MaxPackets \in Nat

VARIABLES
  sent,        \* packets the peer sent
  wire,        \* bytes that are not received yet
  mem,         \* contents of the buffers
  free,        \* the receive pool
  client,      \* the client slot
  request,     \* the receive the kernel holds or has completed
  processing,  \* inside process_recv_buffer
  kept,        \* published messages: where they lie, and the packet they are
  handled      \* what was handed to the handlers, as bytes

vars == <<sent, wire, mem, free, client, request, processing, kept, handled>>

Byte == [type : Types \cup {"body"}, value : 0 .. VbiBase - 1, more : BOOLEAN,
         of : 0 .. MaxPackets]
Blank == [type |-> "body", value |-> 0, more |-> FALSE, of |-> 0]
Addresses == 0 .. BufSize - 1
NoRequest == [buf |-> "none", at |-> 0, space |-> 0, res |-> 0]

Init ==
  /\ sent = << >> /\ wire = << >>
  /\ mem = [b \in Bufs |-> [a \in Addresses |-> Blank]]
  /\ \E b \in Bufs :
       /\ free = Bufs \ {b}
       /\ client = [state |-> "ACTIVE", connected |-> FALSE, buf |-> b, start |-> 0, len |-> 0]
  /\ request = NoRequest
  /\ processing = FALSE
  /\ kept = {}
  /\ handled = << >>

-------------------------------------------------------------------------------
(* The encoding of packets.                                                    *)

(* mqtt_encode_remaining_len: what is left of the length after k digits, the    *)
(* lowest first, and how many digits it takes.                                  *)
Rest(len) ==
  LET rest[k \in 0 .. VbiMaxBytes + 1] == IF k = 0 THEN len ELSE rest[k - 1] \div VbiBase
  IN  rest
VbiLen(len) ==
  LET ends == {k \in 1 .. VbiMaxBytes : Rest(len)[k] = 0}
  IN  IF ends = {} THEN VbiMaxBytes + 1 ELSE Min(ends)
TooLong(len) == VbiLen(len) > VbiMaxBytes

(* mqtt_encode_fixed_header, and the body. *)
EncodeFixedHeader(p, i) ==
  <<[Blank EXCEPT !.type = p.type, !.of = i]>>
    \o [k \in 1 .. VbiLen(p.len) |->
          [Blank EXCEPT !.value = Rest(p.len)[k - 1] % VbiBase,
                        !.more = Rest(p.len)[k] # 0, !.of = i]]
Encode(p, i) == EncodeFixedHeader(p, i) \o [k \in 1 .. p.len |-> [Blank EXCEPT !.of = i]]
TotalLen(p) == Len(Encode(p, 0))

(* A packet whose length takes too many digits is sent as far as one too many. *)
OnWire(p, i) == IF TooLong(p.len) THEN EncodeFixedHeader(p, i) ELSE Encode(p, i)

(* The value of n digits. *)
DigitAdded(sum, digit) == [value |-> sum.value + digit * sum.multiplier,
                           multiplier |-> sum.multiplier * VbiBase]
Decoded(at, n) ==
  LET sum[k \in 0..n] == IF k = 0 THEN [value |-> 0, multiplier |-> 1]
                         ELSE DigitAdded(sum[k - 1], at[k].value)
  IN  sum[n].value

(* Fault: too many digits are taken for too few bytes. *)
FixedHeaderPatient(at, len) ==
  LET ends == {k \in 1 .. len - 1 : k <= VbiMaxBytes /\ ~at[k].more}
  IN  IF ends = {} THEN [result |-> "INCOMPLETE"]
      ELSE [result |-> "OK", header_len |-> Min(ends) + 1, type |-> at[0].type,
            remaining_len |-> Decoded(at, Min(ends))]

(* mqtt_parse_fixed_header of the len bytes at[0], at[1], ... *)
FixedHeader(at, len) ==
  LET ends == {k \in 1 .. len - 1 : k <= VbiMaxBytes /\ ~at[k].more}
  IN  IF len < 2 THEN [result |-> "INCOMPLETE"]
      ELSE IF ends # {}
      THEN [result |-> "OK", header_len |-> Min(ends) + 1, type |-> at[0].type,
            remaining_len |-> Decoded(at, Min(ends))]
      ELSE [result |-> IF len > VbiMaxBytes + 1 THEN "MALFORMED" ELSE "INCOMPLETE"]

-------------------------------------------------------------------------------
(* The peer, and the kernel.                                                   *)
Send(p) ==
  /\ Len(sent) < MaxPackets
  /\ sent' = Append(sent, p)
  /\ wire' = wire \o OnWire(p, Len(sent) + 1)
  /\ UNCHANGED <<mem, free, client, request, processing, kept, handled>>

(* A receive completes with n bytes. *)
KernelRecv(n) ==
  /\ request # NoRequest /\ request.res = 0
  /\ n <= request.space /\ n <= Len(wire)
  /\ mem' = [mem EXCEPT ![request.buf] =
               [a \in Addresses |-> IF a \in request.at .. request.at + n - 1
                                    THEN wire[a - request.at + 1] ELSE @[a]]]
  /\ wire' = SubSeq(wire, n + 1, Len(wire))
  /\ request' = [request EXCEPT !.res = n]
  /\ UNCHANGED <<sent, free, client, processing, kept, handled>>

-------------------------------------------------------------------------------
(* Receiving.                                                                  *)

(* maybe_compact_recv_buf: more than half of the buffer is behind the data, or  *)
(* less than a quarter is left after it.                                        *)
SpaceFromZero(cl) == BufSize - cl.len                 \* Fault: the start is forgotten.
Space(cl) == BufSize - cl.start - cl.len
NeedsCompactHalf(cl) == cl.start > BufSize \div 2     \* Fault: only the first reason.
NeedsCompact(cl) == cl.start > BufSize \div 2 \/ Space(cl) < BufSize \div 4
Moved(bytes, from, n) == [a \in Addresses |-> IF a < n THEN bytes[from + a] ELSE bytes[a]]

CompactedData(cl) ==
  IF cl.len # 0 /\ NeedsCompact(cl)
  THEN [mem EXCEPT ![cl.buf] = Moved(@, cl.start, cl.len)] ELSE mem
Compacted(cl) == IF cl.len = 0 \/ NeedsCompact(cl) THEN [cl EXCEPT !.start = 0] ELSE cl

(* submit_recv_internal: with no room even after compaction it closes. *)
SubmitRecv ==
  /\ client.state = "ACTIVE" /\ ~processing /\ request = NoRequest
  /\ mem' = CompactedData(client)
  /\ LET cl == Compacted(client)
     IN  IF Space(cl) = 0
         THEN client' = [cl EXCEPT !.state = "CLOSING"] /\ UNCHANGED request
         ELSE /\ client' = cl
              /\ request' = [buf |-> cl.buf, at |-> cl.start + cl.len, space |-> Space(cl),
                             res |-> 0]
  /\ UNCHANGED <<sent, wire, free, processing, kept, handled>>

(* handle_recv *)
RecvData ==
  /\ request # NoRequest /\ request.res > 0
  /\ client' = [client EXCEPT !.len = @ + request.res]
  /\ request' = NoRequest
  /\ processing' = TRUE
  /\ UNCHANGED <<sent, wire, mem, free, kept, handled>>

-------------------------------------------------------------------------------
(* process_recv_buffer, a packet at a time.                                    *)
Data(cl) == [k \in 0 .. cl.len - 1 |-> mem[cl.buf][cl.start + k]]

(* The fast path: four bytes of an acknowledgement, without the full parser. *)
FastPath(cl) ==
  /\ cl.connected /\ cl.len >= 4
  /\ Data(cl)[0].type = "ACK" /\ Data(cl)[1].value = 2 /\ ~Data(cl)[1].more

(* mqtt_packet_complete_ex: the packet at the front, or why there is none. *)
Front(cl) ==
  IF cl.len = 0 THEN [result |-> "INCOMPLETE"]
  ELSE IF FastPath(cl)
  THEN [result |-> "OK", type |-> "ACK", header_len |-> 2, remaining_len |-> 2]
  ELSE LET header == FixedHeader(Data(cl), cl.len)
       IN  IF header.result = "OK" /\ cl.len < header.header_len + header.remaining_len
           THEN [result |-> "INCOMPLETE"] ELSE header

Packet == Front(client)
Total  == Packet.header_len + Packet.remaining_len
(* process_mqtt_packet_ex reports an error. *)
Rejects(type, len, connected) ==
  \/ type = "CONNECT" /\ connected
  \/ type \in {"PUBLISH", "PINGREQ"} /\ ~connected
  \/ type = "ACK" /\ len < 2
  \/ type \in {"DISCONNECT", "body"}

Handle == handled' = Append(handled, [k \in 1..Total |-> Data(client)[k - 1]])
Consumed == [client EXCEPT !.start = @ + Total, !.len = @ - Total,
                           !.connected = @ \/ Packet.type = "CONNECT"]

AtPacket == /\ processing /\ Packet.result = "OK"
            /\ ~Rejects(Packet.type, Packet.remaining_len, client.connected)

(* Any packet, and a PUBLISH that is not fanned out: a duplicate, or dropped     *)
(* because no message or no buffer is free.                                     *)
PacketHandled ==
  /\ AtPacket
  /\ Handle
  /\ client' = Consumed
  /\ UNCHANGED <<sent, wire, mem, free, request, processing, kept>>

(* Fault: the length of the packet is forgotten. *)
CopiedWithPacket(buf) ==
  [mem EXCEPT ![buf] = [a \in Addresses |->
     IF a < Consumed.len THEN mem[client.buf][client.start + a] ELSE @[a]]]

(* steal_recv_buffer: the rest goes to the beginning of the new buffer. *)
Copied(buf) ==
  [mem EXCEPT ![buf] = [a \in Addresses |->
     IF a < Consumed.len THEN mem[client.buf][Consumed.start + a] ELSE @[a]]]
Stolen(cl, buf) == [cl EXCEPT !.buf = buf, !.start = 0]

(* Fault: the message is kept, and the connection goes on in the same buffer. *)
PublishShared(keep) ==
  /\ AtPacket /\ Packet.type = "PUBLISH"
  /\ Handle
  /\ client' = Consumed
  /\ kept' = kept \cup (IF keep THEN {[buf |-> client.buf, off |-> client.start, len |-> Total,
                                       no |-> Len(handled) + 1]}
                        ELSE {})
  /\ UNCHANGED <<sent, wire, mem, free, request, processing>>

(* A PUBLISH is fanned out, and kept if some subscriber takes it. *)
Publish(keep) ==
  /\ AtPacket /\ Packet.type = "PUBLISH"
  /\ Handle
  /\ \E buf \in free :
       /\ mem' = Copied(buf)
       /\ client' = Stolen(Consumed, buf)
       /\ free' = (free \ {buf}) \cup (IF keep THEN {} ELSE {client.buf})
  /\ kept' = kept \cup (IF keep THEN {[buf |-> client.buf, off |-> client.start, len |-> Total,
                                       no |-> Len(handled) + 1]}
                        ELSE {})
  /\ UNCHANGED <<sent, wire, request, processing>>

(* A malformed header, or the handler reports an error. *)
PacketError ==
  /\ processing
  /\ \/ Packet.result = "MALFORMED"
     \/ /\ Packet.result = "OK"
        /\ Rejects(Packet.type, Packet.remaining_len, client.connected)
  /\ client' = [client EXCEPT !.state = "CLOSING"]
  /\ processing' = FALSE
  /\ UNCHANGED <<sent, wire, mem, free, request, kept, handled>>

BufferDone ==
  /\ processing /\ Packet.result = "INCOMPLETE"
  /\ processing' = FALSE
  /\ UNCHANGED <<sent, wire, mem, free, client, request, kept, handled>>

(* The last reference to a message goes (module Delivery). *)
MessageDone(m) ==
  /\ m \in kept
  /\ kept' = kept \ {m}
  /\ free' = free \cup {m.buf}
  /\ UNCHANGED <<sent, wire, mem, client, request, processing, handled>>

-------------------------------------------------------------------------------
Loop == SubmitRecv \/ RecvData \/ PacketHandled \/ PacketError \/ BufferDone
Next ==
  \/ Loop
  \/ \E p \in Packets : Send(p)
  \/ \E n \in 1 .. BufSize : KernelRecv(n)
  \/ \E keep \in BOOLEAN : Publish(keep)
  \/ \E m \in kept : MessageDone(m)

Spec == Init /\ [][Next]_vars

(* The thread runs, and what lies in the socket is delivered to a receive. *)
Fairness == /\ WF_vars(Loop \/ \E keep \in BOOLEAN : Publish(keep))
            /\ WF_vars(\E n \in 1 .. BufSize : KernelRecv(n))
FairSpec == Spec /\ Fairness

-------------------------------------------------------------------------------
(* Properties.                                                                 *)

TypeOK ==
  /\ sent \in Seq(Packets) /\ Len(sent) <= MaxPackets
  /\ wire \in Seq(Byte)
  /\ mem \in [Bufs -> [Addresses -> Byte]]
  /\ free \subseteq Bufs \ {client.buf}
  /\ client \in [state : {"ACTIVE", "CLOSING"}, connected : BOOLEAN, buf : Bufs,
                 start : 0 .. BufSize, len : 0 .. BufSize]
  /\ client.start + client.len <= BufSize
  /\ request.at + request.space <= BufSize
  /\ processing \in BOOLEAN
  /\ handled \in Seq(Seq(Byte))

(* Whatever the pieces the stream comes in, the compactions and the stolen       *)
(* buffers: the packets handled are the packets sent, in order, byte for byte.  *)
PacketsExact ==
  /\ Len(handled) <= Len(sent)
  /\ \A i \in DOMAIN handled : handled[i] = Encode(sent[i], i)

(* A message in its stolen buffer stays what was published: the kernel and the  *)
(* publisher's next packets go elsewhere.                                       *)
StolenIntact ==
  \A m \in kept :
    /\ m.buf \notin free \cup {client.buf, request.buf}
    /\ \A n \in kept : n.buf = m.buf => n = m
    /\ \A k \in 1 .. m.len : mem[m.buf][m.off + k - 1] = handled[m.no][k]

(* The broker closes only over a packet that is wrong where it stands, or that  *)
(* no buffer can hold; compaction makes room for any other.                     *)
ConnectedBefore(i) == \E j \in 1 .. i - 1 : sent[j].type = "CONNECT"
Unacceptable(i) ==
  \/ TooLong(sent[i].len)
  \/ TotalLen(sent[i]) > BufSize
  \/ Rejects(sent[i].type, sent[i].len, ConnectedBefore(i))
CloseJustified ==
  client.state = "CLOSING" =>
    Len(handled) < Len(sent) /\ Unacceptable(Len(handled) + 1)

(* Everything that was sent is handled in the end, or the connection closes. *)
AllHandled == []<>(Len(handled) = Len(sent) \/ client.state = "CLOSING")
================================================================================
