------------------------------- MODULE Delivery -------------------------------
(***************************************************************************)
(* Fan-out of published messages to subscribers: one stolen receive buffer *)
(* per message, shared by reference count between the egress queues and    *)
(* the inflight tables of all subscribers, and written to their sockets by *)
(* the kernel, one batched writev per connection at a time.                *)
(*                                                                         *)
(* The broker is one thread.  A handler runs from start to end before the  *)
(* next one; only the kernel moves meanwhile.  The two handlers that loop  *)
(* over clients or entries and share state between iterations, the fan-out *)
(* of one PUBLISH and the timeout sweep of one client, take one action per *)
(* iteration, and no other handler runs until they end (Ready).            *)
(*                                                                         *)
(* Abstractions.  A message stands for its canonical_msg and for the       *)
(* buffer it stole; one without a buffer is bare.  Whether a buffer is     *)
(* left to give to the publisher, and whether the SQ has room, are chosen. *)
(* Free pools are sets.  The trie is external: a fan-out may reach any set *)
(* of active slots.  Handler order within an event-loop iteration and the  *)
(* passing of time are not kept: the sweep finds any of the outgoing       *)
(* entries due.                                                            *)
(***************************************************************************)
EXTENDS ClientSlot

CONSTANTS
  Slots,       \* client slots
  NoSlot,
  MaxRetries,  \* LLMQ_MAX_RETRIES
  PubQos,      \* QoS levels publishers use
  PubIds,      \* packet ids publishers use for QoS 2
  RunsOut,     \* BOOLEAN, a bound: the buffer pool may be empty
  MaxOwed      \* bound: PUBLISHes received but not acknowledged, per subscriber

ASSUME SlotsAssumption == IsFiniteSet(Slots) /\ NoSlot \notin Slots
ASSUME PubAssumption == /\ PubQos \subseteq 0..2 /\ PubIds \subseteq PacketIds \ {0}
                        /\ MaxRetries \in Nat /\ MaxOwed \in Nat /\ RunsOut \in BOOLEAN

VARIABLES
  clients,    \* the client slots
  ref_count,  \* reference count of every message of the pool
  msg_free,   \* messages in the free stack
  bare,       \* messages whose buf_idx is MSG_POOL_INVALID
  fanout,     \* the PUBLISH being fanned out (publish_ctx): msg_idx, qos, slots to do
  sweep,      \* the client being swept: slot, loop index, entries found, entries due
  flush_queue,\* egress flush retry queue: <<slot, generation>>
  writevs,    \* OP_EGRESS requests the kernel holds or whose CQE is not dispatched
  owed        \* per subscriber: PUBLISHes it received and will acknowledge, in order

vars == <<clients, ref_count, msg_free, bare, fanout, sweep, flush_queue, writevs, owed>>

-------------------------------------------------------------------------------
NoFanout == [msg_idx |-> NoMsg, qos |-> 0, todo |-> {}]
NoSweep  == [slot |-> NoSlot, i |-> 0, found |-> 0, due |-> {}]

(* The thread is back in the event loop. *)
Ready == fanout = NoFanout /\ sweep = NoSweep

Connected(c) == clients[c].state \in {"ACTIVE", "CLOSING"}

(* The cqe->res of a writev: segments written whole, and whether the next one  *)
(* was begun; "busy" while the kernel works on it.                             *)
Busy   == [kind |-> "busy",  done |-> 0, part |-> FALSE]
Again  == [kind |-> "again", done |-> 0, part |-> FALSE]
Fatal  == [kind |-> "fatal", done |-> 0, part |-> FALSE]
Written(k, p) == [kind |-> "written", done |-> k, part |-> p]

Init ==
  /\ clients = [c \in Slots |-> UnusedClient]
  /\ ref_count = [m \in Msgs |-> 0]
  /\ msg_free = Msgs
  /\ bare = {}
  /\ fanout = NoFanout
  /\ sweep = NoSweep
  /\ flush_queue = << >>
  /\ writevs = {}
  /\ owed = [c \in Slots |-> << >>]

-------------------------------------------------------------------------------
(* Fault: a message is freed while one reference is left. *)
ReleaseEarly(drop) ==
  /\ ref_count' = [m \in Msgs |-> ref_count[m] - drop[m]]
  /\ msg_free' = msg_free \cup {m \in Msgs : drop[m] > 0 /\ ref_count[m] - drop[m] <= 1}

(* release_msg_ref, drop[m] times on every m: a message whose count reaches 0  *)
(* goes back to the pool with its buffer.                                      *)
Release(drop) ==
  /\ ref_count' = [m \in Msgs |-> ref_count[m] - drop[m]]
  /\ msg_free' = msg_free \cup {m \in Msgs : drop[m] > 0 /\ ref_count[m] = drop[m]}

Once(m) == [x \in Msgs |-> IF x = m THEN 1 ELSE 0]

(* Fault: the queue also releases what the inflight table owns. *)
QueueRefsAll(cl, n, m) ==
  Cardinality({i \in 1..n : i \in DOMAIN cl.egress /\ cl.egress[i].kind = "PUBLISH"
                                                   /\ cl.egress[i].msg_idx = m})

QueueRefs(cl, n, m) ==
  Cardinality({i \in 1..n : i \in DOMAIN cl.egress /\ OwnsRef(cl.egress[i])
                                                   /\ cl.egress[i].msg_idx = m})
EntryRefs(cl, S, m) == Cardinality({s \in S : cl.inflight[s].msg_idx = m})

(* egress_flush_enqueue: a slot that is already queued stays where it is, and   *)
(* one that finds the ring full is not queued.                                  *)
FlushQueueFull(queue) == Len(queue) >= Cardinality(Slots)
CanEnqueue(cl, queue) == ~cl.egress_retry_queued /\ ~FlushQueueFull(queue)
Enqueue(c, cl, queue) ==
  IF CanEnqueue(cl, queue) THEN Append(queue, <<c, cl.generation>>) ELSE queue
(* Fault: the slot is marked before the ring is found full. *)
EnqueuedEvenIfFull(cl, queue) == [cl EXCEPT !.egress_retry_queued = TRUE]
Enqueued(cl, queue) ==
  [cl EXCEPT !.egress_retry_queued = @ \/ CanEnqueue(cl, queue)]

(* A handler leaves record cl in slot c and flushes it: egress_flush, and when  *)
(* the SQ was full egress_flush_enqueue.                                        *)
FlushInto(c, cl, queue, requests) ==
  \/ /\ FlushNoop(cl, bare)
     /\ clients' = [clients EXCEPT ![c] = cl]
     /\ flush_queue' = queue
     /\ writevs' = requests
  \/ /\ ~FlushNoop(cl, bare)
     /\ clients' = [clients EXCEPT ![c] = Submit(cl, bare)]
     /\ flush_queue' = queue
     /\ writevs' = requests \cup {[slot |-> c, gen |-> cl.generation, res |-> Busy,
                                   segs |-> SubSeq(Assign(cl, bare).egress, 1,
                                                  BatchLen(cl, bare))]}
  \/ /\ ~FlushNoop(cl, bare)   \* no SQE
     /\ clients' = [clients EXCEPT ![c] = Enqueued(Assign(cl, bare), queue)]
     /\ flush_queue' = Enqueue(c, cl, queue)
     /\ writevs' = requests

Flush(c, cl) == FlushInto(c, cl, flush_queue, writevs)

-------------------------------------------------------------------------------
(* Connections.                                                                *)

(* handle_accept, broker_alloc_slot, client_init *)
Accept(c) ==
  /\ Ready
  /\ clients[c].state = "FREE"
  /\ clients[c].generation < MaxGen
  /\ clients' = [clients EXCEPT ![c] = ClientInit(@)]
  /\ UNCHANGED <<ref_count, msg_free, bare, fanout, sweep, flush_queue, writevs, owed>>

(* submit_close: DISCONNECT, a malformed packet, end of stream or a recv error. *)
SubmitClose(c) ==
  /\ Ready
  /\ clients[c].state = "ACTIVE"
  /\ clients' = [clients EXCEPT ![c].state = "CLOSING"]
  /\ owed' = [owed EXCEPT ![c] = << >>]
  /\ UNCHANGED <<ref_count, msg_free, bare, fanout, sweep, flush_queue, writevs>>

(* handle_close: fsm_client_disconnect drops what the egress queue and the      *)
(* inflight table own, then the slot is freed or, if not clean, goes dormant.   *)
HandleClose(c, clean) ==
  LET cl      == clients[c]
      drained == [cl EXCEPT !.egress = << >>]
  IN  /\ Ready
      /\ cl.state = "CLOSING"
      /\ Release([m \in Msgs |-> QueueRefs(cl, Len(cl.egress), m)
                                   + EntryRefs(cl, Outgoing(cl), m)])
      /\ clients' = [clients EXCEPT ![c] = IF clean THEN ClientFree(FreeAll(drained))
                                                    ELSE ClientGoDormant(drained)]
      /\ UNCHANGED <<bare, fanout, sweep, flush_queue, writevs, owed>>

-------------------------------------------------------------------------------
(* Publishing.                                                                 *)

(* fsm_pub_received for QoS 2: a tracked packet id is a duplicate, and a full   *)
(* table drops the message.                                                     *)
Duplicate(cl, id) == \E s \in Find(cl, id) : cl.inflight[s].direction = "in"
Accepted(cl, qos, id) == qos = 2 => ~Duplicate(cl, id) /\ ~TrackFails(cl)
Tracked(cl, qos, id) ==
  IF qos = 2 /\ ~Duplicate(cl, id) THEN TrackIncoming(cl, id) ELSE cl

(* Message m takes the stolen buffer and starts with the base reference of the  *)
(* publish context.                                                             *)
FanOut(m, qos, targets) ==
  /\ msg_free' = msg_free \ {m}
  /\ ref_count' = [ref_count EXCEPT ![m] = 1]
  /\ bare' = bare \ {m}
  /\ fanout' = [msg_idx |-> m, qos |-> qos, todo |-> targets]

(* No buffer is left to replace the stolen one: m goes back to the pool, but    *)
(* msg_pool_alloc has taken its buf_idx away.                                   *)
NoBuffer(m) ==
  /\ bare' = bare \cup {m}
  /\ UNCHANGED <<msg_free, ref_count, fanout>>

(* The PUBLISH case of process_mqtt_packet_ex up to the fan-out.  The message   *)
(* is dropped when the pool is empty or no buffer is left.                      *)
Publish(p, qos, id, targets, buffer) ==
  /\ Ready
  /\ clients[p].state = "ACTIVE"
  /\ clients' = [clients EXCEPT ![p] = Tracked(@, qos, id)]
  /\ IF Accepted(clients[p], qos, id) /\ msg_free # {}
     THEN \E m \in msg_free : IF buffer THEN FanOut(m, qos, targets) ELSE NoBuffer(m)
     ELSE UNCHANGED <<msg_free, ref_count, bare, fanout>>
  /\ UNCHANGED <<sweep, flush_queue, writevs, owed>>

(* One iteration of process_publish_matches: forward_publish_zc and             *)
(* fsm_sub_start_delivery.  The subscriber's reference is given back at once    *)
(* when its queue is full.                                                      *)
Forward(c) ==
  LET cl == clients[c]
      m  == fanout.msg_idx
  IN  /\ c \in fanout.todo
      /\ fanout' = [fanout EXCEPT !.todo = @ \ {c}]
      /\ IF EgressFull(cl)
         THEN UNCHANGED <<clients, ref_count, flush_queue, writevs>>
         ELSE /\ ref_count' = [ref_count EXCEPT ![m] = @ + 1]
              /\ Flush(c, Push(cl, PublishSeg(cl, m, fanout.qos, 0, FALSE)))
      /\ UNCHANGED <<msg_free, bare, sweep, owed>>

(* The end of the PUBLISH case: the base reference is released. *)
PublishDone ==
  /\ fanout # NoFanout
  /\ fanout.todo = {}
  /\ Release(Once(fanout.msg_idx))
  /\ fanout' = NoFanout
  /\ UNCHANGED <<clients, bare, sweep, flush_queue, writevs, owed>>

(* fsm_pub_pubrel_received *)
Pubrel(p, id) ==
  LET cl == clients[p]
  IN  /\ Ready
      /\ cl.state = "ACTIVE"
      /\ \E s \in Find(cl, id) :
           /\ cl.inflight[s].state = "WAIT_PUBREL"
           /\ cl.inflight[s].direction = "in"
           /\ clients' = [clients EXCEPT ![p] = FreeSlot(cl, s)]
      /\ UNCHANGED <<ref_count, msg_free, bare, fanout, sweep, flush_queue, writevs, owed>>

-------------------------------------------------------------------------------
(* Acknowledgements from subscribers.                                          *)

(* The entry an acknowledgement of the given kind completes: none or one. *)
AckedEntry(cl, id, waiting) ==
  {s \in FindDirect(cl, id) : cl.inflight[s].state = waiting}

(* fsm_sub_puback_received *)
Puback(c) ==
  LET cl  == clients[c]
      hit == AckedEntry(cl, Head(owed[c]).packet_id, "WAIT_PUBACK")
  IN  /\ Ready
      /\ cl.state = "ACTIVE"
      /\ owed[c] # << >> /\ Head(owed[c]).qos = 1
      /\ owed' = [owed EXCEPT ![c] = Tail(@)]
      /\ IF hit = {}
         THEN UNCHANGED <<clients, ref_count, msg_free, flush_queue, writevs>>
         ELSE \E s \in hit : /\ Release(Once(cl.inflight[s].msg_idx))
                             /\ Flush(c, FreeSlot(cl, s))
      /\ UNCHANGED <<bare, fanout, sweep>>

(* enqueue_pubrel; with a full queue the PUBREL goes through a response slot. *)
WithPubrel(cl) == IF EgressFull(cl) THEN cl ELSE Push(cl, CtrlSeg(cl))

(* fsm_sub_pubrec_received: the entry is freed at once, a duplicate PUBREC is   *)
(* answered with another PUBREL.                                                *)
Pubrec(c) ==
  LET cl  == clients[c]
      hit == AckedEntry(cl, Head(owed[c]).packet_id, "WAIT_PUBREC")
  IN  /\ Ready
      /\ cl.state = "ACTIVE"
      /\ owed[c] # << >> /\ Head(owed[c]).qos = 2
      /\ owed' = [owed EXCEPT ![c] = Tail(@)]
      /\ IF hit = {}
         THEN Flush(c, WithPubrel(cl)) /\ UNCHANGED <<ref_count, msg_free>>
         ELSE \E s \in hit : /\ Release(Once(cl.inflight[s].msg_idx))
                             /\ Flush(c, WithPubrel(FreeSlot(cl, s)))
      /\ UNCHANGED <<bare, fanout, sweep>>

-------------------------------------------------------------------------------
(* The timeout sweep.                                                          *)

(* fsm_sweep_all_timeouts reaches client c, some of whose entries are due. *)
SweepClient(c, due) ==
  /\ Ready
  /\ clients[c].state = "ACTIVE"
  /\ due # {} /\ due \subseteq Outgoing(clients[c])
  /\ sweep' = [slot |-> c, i |-> 0, found |-> 0, due |-> due]
  /\ UNCHANGED <<clients, ref_count, msg_free, bare, fanout, flush_queue, writevs, owed>>

(* fsm_sub_timeout: retransmit with DUP, or give up after MAX_RETRIES or when   *)
(* the egress queue is full.                                                    *)
Timeout(c, s) ==
  LET cl    == clients[c]
      entry == cl.inflight[s]
      retry == [cl EXCEPT !.inflight[s].dup_count = @ + 1]
  IN  IF entry.dup_count >= MaxRetries \/ EgressFull(cl)
      THEN /\ Release(Once(entry.msg_idx))
           /\ clients' = [clients EXCEPT ![c] = FreeSlot(cl, s)]
           /\ UNCHANGED <<flush_queue, writevs>>
      ELSE /\ Flush(c, Push(retry, PublishSeg(cl, entry.msg_idx, entry.qos,
                                              entry.packet_id, TRUE)))
           /\ UNCHANGED <<ref_count, msg_free>>

(* fsm_sweep_client: the loop ends early once it has seen as many entries as    *)
(* the table still counts.                                                      *)
SweepMore == sweep.i < MaxInflight
               /\ sweep.found < clients[sweep.slot].inflight_count

SweepEntry ==
  /\ sweep # NoSweep /\ SweepMore
  /\ LET used == sweep.i \in Used(clients[sweep.slot])
     IN  /\ sweep' = [sweep EXCEPT !.i = @ + 1, !.found = IF used THEN @ + 1 ELSE @]
         /\ IF used /\ sweep.i \in sweep.due
            THEN Timeout(sweep.slot, sweep.i)
            ELSE UNCHANGED <<clients, ref_count, msg_free, flush_queue, writevs>>
  /\ UNCHANGED <<bare, fanout, owed>>

SweepDone ==
  /\ sweep # NoSweep /\ ~SweepMore
  /\ sweep' = NoSweep
  /\ UNCHANGED <<clients, ref_count, msg_free, bare, fanout, flush_queue, writevs, owed>>

-------------------------------------------------------------------------------
(* The kernel, and its completions.                                            *)

(* The connection a request was submitted for is still the slot's. *)
Current(op) == /\ op.gen = clients[op.slot].generation
               /\ Connected(op.slot)

(* The PUBLISHes of a request that reach the subscriber whole and ask for an ack. *)
Delivered == [msg_idx : Msgs \cup {NoMsg}, packet_id : PacketIds, qos : 0..2]
Arriving(op, k) ==
  LET acked == {i \in 1..k : op.segs[i].qos > 0}
  IN  [j \in 1 .. Cardinality(acked) |->
         LET seg == op.segs[Nth(acked, j)]
         IN  [msg_idx |-> seg.msg_idx, packet_id |-> seg.packet_id, qos |-> seg.qos]]

(* The kernel runs a writev.  After shutdown it only fails. *)
Transmit(op, k, part) ==
  /\ op.res = Busy
  /\ Current(op) /\ clients[op.slot].state = "ACTIVE"
  /\ k > 0 \/ part
  /\ part => k < Len(op.segs)
  /\ Len(owed[op.slot]) + Len(Arriving(op, k)) <= MaxOwed
  /\ owed' = [owed EXCEPT ![op.slot] = @ \o Arriving(op, k)]
  /\ writevs' = (writevs \ {op}) \cup {[op EXCEPT !.res = Written(k, part)]}
  /\ UNCHANGED <<clients, ref_count, msg_free, bare, fanout, sweep, flush_queue>>

TransmitFails(op, res) ==
  /\ op.res = Busy
  /\ writevs' = (writevs \ {op}) \cup {[op EXCEPT !.res = res]}
  /\ UNCHANGED <<clients, ref_count, msg_free, bare, fanout, sweep, flush_queue, owed>>

(* handle_egress_cqe, by the outcome.  The last step of each but the first is   *)
(* to flush the next batch.                                                     *)
Completes(op) == Ready /\ op.res # Busy /\ UNCHANGED <<bare, fanout, sweep, owed>>
Completed(c) == [clients[c] EXCEPT !.egress_inflight = FALSE]

(* The connection is gone. *)
EgressStale(op) ==
  /\ Completes(op)
  /\ ~Current(op)
  /\ writevs' = writevs \ {op}
  /\ UNCHANGED <<clients, ref_count, msg_free, flush_queue>>

(* res > 0: egress_complete_head for every segment written whole, which gives   *)
(* back the reference of a QoS 0 message; the next one keeps a cursor.          *)
Completions(cl, k, m) ==
  Cardinality({i \in 1..k : /\ cl.egress[i].kind = "PUBLISH" /\ cl.egress[i].qos = 0
                            /\ cl.egress[i].msg_idx = m})
Resumed(cl, part) == IF part THEN [cl EXCEPT !.egress[1].cursor = 1] ELSE cl
EgressWritten(op) ==
  LET cl == Completed(op.slot)
      k  == op.res.done
  IN  /\ Completes(op)
      /\ Current(op) /\ op.res.kind = "written"
      /\ Release([m \in Msgs |-> Completions(cl, k, m)])
      /\ FlushInto(op.slot, Resumed(Drop(cl, k), op.res.part), flush_queue, writevs \ {op})

(* -EAGAIN, -EINTR *)
EgressAgain(op) ==
  /\ Completes(op)
  /\ Current(op) /\ op.res = Again
  /\ FlushInto(op.slot, Completed(op.slot), flush_queue, writevs \ {op})
  /\ UNCHANGED <<ref_count, msg_free>>

(* Any other error discards the batch: first transmissions give their inflight  *)
(* entry back, segments egress owns their reference, and all leave the queue.   *)
BatchOf(cl) == IF cl.egress_batch_count < Len(cl.egress) THEN cl.egress_batch_count
                                                         ELSE Len(cl.egress)
Undone(cl, n) ==
  UNION {FindDirect(cl, cl.egress[i].packet_id) :
           i \in {j \in 1..n : /\ cl.egress[j].kind = "PUBLISH" /\ cl.egress[j].qos > 0
                               /\ ~cl.egress[j].dup}}
(* Fault: the batch leaves the queue but its entries stay. *)
DiscardedKeepsEntries(cl, n) == Drop(cl, n)
Discarded(cl, n) ==
  LET undone == Undone(cl, n)
  IN  Drop([cl EXCEPT !.inflight = [s \in InflightIdx |->
                                      IF s \in undone THEN FreeEntry ELSE @[s]],
                      !.inflight_count = @ - Cardinality(undone)], n)
EgressFatal(op) ==
  LET cl == Completed(op.slot)
      n  == BatchOf(cl)
  IN  /\ Completes(op)
      /\ Current(op) /\ op.res = Fatal
      /\ Release([m \in Msgs |-> QueueRefs(cl, n, m) + EntryRefs(cl, Undone(cl, n), m)])
      /\ FlushInto(op.slot, Discarded(cl, n), flush_queue, writevs \ {op})

(* One iteration of process_egress_flushes. *)
RetryFlush ==
  /\ Ready
  /\ flush_queue # << >>
  /\ LET c  == Head(flush_queue)[1]
         cl == [clients[c] EXCEPT !.egress_retry_queued = FALSE]
     IN  IF cl.generation = Head(flush_queue)[2]
         THEN FlushInto(c, cl, Tail(flush_queue), writevs)
         ELSE /\ clients' = [clients EXCEPT ![c] = cl]
              /\ flush_queue' = Tail(flush_queue)
              /\ UNCHANGED writevs
  /\ UNCHANGED <<ref_count, msg_free, bare, fanout, sweep, owed>>

-------------------------------------------------------------------------------
Next ==
  \/ \E c \in Slots :
       \/ Accept(c)
       \/ SubmitClose(c)
       \/ \E clean \in BOOLEAN : HandleClose(c, clean)
       \/ \E qos \in PubQos, id \in PubIds, buffer \in {TRUE, ~RunsOut} :
            \E targets \in SUBSET {t \in Slots : clients[t].state = "ACTIVE"} :
              Publish(c, qos, id, targets, buffer)
       \/ Forward(c)
       \/ \E id \in PubIds : Pubrel(c, id)
       \/ Puback(c)
       \/ Pubrec(c)
       \/ \E due \in SUBSET Outgoing(clients[c]) : SweepClient(c, due)
  \/ PublishDone
  \/ SweepEntry
  \/ SweepDone
  \/ \E op \in writevs :
       \/ \E k \in 0 .. Len(op.segs), part \in BOOLEAN : Transmit(op, k, part)
       \/ \E res \in {Again, Fatal} : TransmitFails(op, res)
       \/ EgressStale(op) \/ EgressWritten(op) \/ EgressAgain(op) \/ EgressFatal(op)
  \/ RetryFlush

Spec == Init /\ [][Next]_vars

-------------------------------------------------------------------------------
(* Properties.                                                                 *)

(* Every variable has its type.  (That no reference count goes below zero,     *)
(* where msg_pool_unref would wrap it, is part of RefsExact.)                  *)
TypeOK ==
  /\ clients \in [Slots -> Client]
  /\ ref_count \in [Msgs -> Int]
  /\ msg_free \subseteq Msgs /\ bare \subseteq Msgs
  /\ fanout \in [msg_idx : Msgs \cup {NoMsg}, qos : 0..2, todo : SUBSET Slots]
  /\ sweep \in [slot : Slots \cup {NoSlot}, i : 0..MaxInflight, found : Nat,
                due : SUBSET InflightIdx]
  /\ flush_queue \in Seq(Slots \X Generations)
  /\ writevs \subseteq [slot : Slots, gen : Generations, segs : Seq(Segment),
                        res : [kind : {"busy", "again", "fatal", "written"},
                               done : Nat, part : BOOLEAN]]
  /\ owed \in [Slots -> Seq(Delivered)]

(* The references a message should have: one per segment that egress owns, one *)
(* per outgoing inflight entry of a connection, one for the fan-out underway.  *)
QueueHolders(m) ==
  {h \in Slots \X (1..EgressCap) :
     LET queue == clients[h[1]].egress
     IN  h[2] \in DOMAIN queue /\ OwnsRef(queue[h[2]]) /\ queue[h[2]].msg_idx = m}
TableHolders(m) ==
  {h \in Slots \X InflightIdx :
     LET cl == clients[h[1]]
     IN  Connected(h[1]) /\ h[2] \in Outgoing(cl) /\ cl.inflight[h[2]].msg_idx = m}
Holders(m) == Cardinality(QueueHolders(m)) + Cardinality(TableHolders(m))
                + (IF fanout.msg_idx = m THEN 1 ELSE 0)

(* The reference count of a message is the number of its owners, and the        *)
(* message and its buffer are in the free pool exactly when it has none: no     *)
(* order of fan-out, completions, acks, timeouts and disconnects leaks a buffer *)
(* or frees one twice.                                                          *)
RefsExact ==
  \A m \in Msgs : ref_count[m] = Holders(m) /\ (m \in msg_free <=> Holders(m) = 0)

(* inflight_count, which every loop over the table and the batch size trust, is *)
(* the number of entries in use.                                                *)
CountExact ==
  \A c \in Slots : clients[c].inflight_count = Cardinality(Used(clients[c]))

(* What egress_flush assumes of the queue it resumes: it fits its ring, every   *)
(* segment belongs to the present connection, and only the first segment can be *)
(* partly written.  (It is why the pre-clean loop never drops anything.)        *)
QueueShape ==
  \A c \in Slots :
    LET cl == clients[c]
    IN  /\ Len(cl.egress) <= EgressCap
        /\ \A i \in DOMAIN cl.egress : /\ cl.egress[i].slot_gen = cl.generation
                                       /\ cl.egress[i].cursor = 1 => i = 1
        /\ cl.egress # << >> => Connected(c)

(* A completion is applied to the segments it is about: a connection has one    *)
(* writev outstanding exactly when egress_inflight says so, its segments are    *)
(* the first egress_batch_count of the queue, unchanged since the submission,   *)
(* and all of them that are QoS 1/2 carry a packet id.                          *)
WritevMatchesQueue ==
  \A c \in Slots :
    LET cl  == clients[c]
        ops == {op \in writevs : op.slot = c /\ Current(op)}
    IN  /\ Cardinality(ops) = IF cl.egress_inflight THEN 1 ELSE 0
        /\ cl.egress_inflight => cl.egress_batch_count \in 1 .. Len(cl.egress)
        /\ \A op \in ops :
             /\ op.segs = SubSeq(cl.egress, 1, cl.egress_batch_count)
             /\ \A i \in DOMAIN op.segs : ~NeedsId(op.segs[i])

(* An ack can find its entry: the packet id of every outgoing entry leads back  *)
(* to that entry by (packet_id - 1) & mask, also when the u16 id wraps.         *)
EntriesFindable ==
  \A c \in Slots : \A s \in Outgoing(clients[c]) :
    FindDirect(clients[c], clients[c].inflight[s].packet_id) = {s}

(* A QoS 0 message the kernel is sending on a live connection is allocated.     *)
Qos0Live ==
  \A op \in writevs : op.res = Busy /\ Current(op) =>
    \A i \in DOMAIN op.segs :
      op.segs[i].kind = "PUBLISH" /\ op.segs[i].qos = 0 => op.segs[i].msg_idx \notin msg_free

InFlushQueue(c) ==
  \E i \in DOMAIN flush_queue : flush_queue[i] = <<c, clients[c].generation>>

(* A slot marked as queued for a retry is in the retry queue under its present  *)
(* generation, so that skipping a second enqueue loses nothing, also when stale *)
(* entries of earlier connections are dequeued.                                 *)
RetryFlagSound ==
  \A c \in Slots : clients[c].egress_retry_queued => InFlushQueue(c)

(* A connection with queued segments and nothing under way to send them. *)
Stalled(c) == /\ clients[c].state = "ACTIVE"
              /\ clients[c].egress # << >>
              /\ ~clients[c].egress_inflight
              /\ ~InFlushQueue(c)

(* The first segment of c names a message that egress does not own and that     *)
(* has no buffer: a transmission whose inflight entry is gone, acknowledged or  *)
(* given up, while a later PUBLISH took the index and was dropped.              *)
HeadDangles(c) == LET head == Head(clients[c].egress)
                  IN  ~OwnsRef(head) /\ Bare(head, bare)

(* A handler leaves a queue stalled only at a first QoS 1/2 transmission that   *)
(* waits for an inflight entry or at a dangling head; the one other way is a    *)
(* retry queue overflowing with entries of closed connections.  A segment that  *)
(* still owns its reference never waits for a buffer.                           *)
NoLostWakeup ==
  [][\A c \in Slots :
       Stalled(c)' /\ ~Stalled(c) =>
         \/ NeedsId(Head(clients'[c].egress))
         \/ HeadDangles(c)'
         \/ FlushQueueFull(flush_queue)]_vars

-------------------------------------------------------------------------------
(* What comments and documents of the repository say, and the code does not do. *)

(* docs/spec/09-fanout.md 9.4.1: a buffer is not modified or freed until the    *)
(* CQE arrives.  Here: no PUBLISH the kernel is still sending on an open        *)
(* connection names a message that was freed.                                   *)
KernelReadsLive ==
  \A op \in writevs : op.res = Busy /\ Current(op) =>
    \A i \in DOMAIN op.segs :
      op.segs[i].kind = "PUBLISH" => op.segs[i].msg_idx \notin msg_free

(* mqtt_fsm.h, fsm_sub_puback_received: freeing an inflight slot kicks egress   *)
(* if it was stalled on inflight-full.  Here: a stalled queue implies a full    *)
(* table.                                                                       *)
StalledOnlyWhenFull ==
  Ready => \A c \in Slots :
    Stalled(c) /\ ~FlushQueueFull(flush_queue)
      => clients[c].inflight_count = MaxInflight
===============================================================================
