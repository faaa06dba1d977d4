# llmq in TLA+

llmq is a single-threaded MQTT 3.1.1 broker in C on io_uring.  This directory
holds TLA+ modules translated from its source, configurations that check them
with TLC on small instances, and proofs that TLAPS checks for every size of
the broker's tables and queues.  Paths below are relative to the repository.

## The system

One thread runs `broker_run` (`src/broker/loop.h`).  Each iteration flushes
queued SQEs and submits them, dispatches all available CQEs to a handler
(`dispatch_cqe`), retries recvs and egress flushes that found the submission
queue full, replenishes accepts, sweeps the timeouts of inflight messages every
so often, and blocks for a completion when it had nothing to do.  The kernel is
the only other actor: it holds requests, reads the broker's buffers while it
does, and reports outcomes later.

| Component | State | Operations | Interacts with |
|---|---|---|---|
| Message delivery (`mqtt_fsm.h`, `handler.h`, `loop.h`, `egress.h`) | `egress` ring of segments, `egress_inflight`, `egress_batch_count` per client | fan-out, `egress_flush`, `handle_egress_cqe`, PUBACK/PUBREC, sweep, disconnect | everything below |
| Inflight table (`client.h`) | entries, `inflight_count`, free hint, `inflight_generation`, packet-id hash | alloc, find, find_direct, track_incoming, free, free_all | delivery, publisher's ceremony |
| Message pool (`mem/msgbuf.h`, `mem/pool.h`) | reference counts, free stacks, stolen buffers | alloc, ref, unref | delivery, receive buffers |
| Egress flush retry queue (`state.h`) | ring of (slot, generation), `egress_retry_queued` | enqueue, dequeue, process | delivery, slot reuse |
| Connections (`state.h`, `loop.h`) | slot states, generation, `fd_to_slot`, free list, receive and orphan buffers, recv retry ring | accept, recv, close, free, dormant | event loop, pools |
| Event loop and rings (`loop.h`, `sys/io_uring.h`) | SQ/CQ heads and tails, unflushed SQEs, pending accepts | get_sqe, flush, submit, wait, peek | all handlers |
| Responses (`client.h`, `loop.h`) | 16 response slots, in-flight bitmap | get slot, submit, complete | publisher's ceremony |
| Publisher's QoS ceremony (`mqtt_fsm.h`) | incoming inflight entries | PUBLISH, PUBREL received | inflight table, responses |
| Topic trie (`trie.h`, `subs.h`) | nodes, children hash, subscribers per node | subscribe, unsubscribe, remove_fd, match | fan-out, disconnect |
| Receiving (`loop.h`, `mqtt/packet.h`, `handler.h`) | receive buffer with `recv_start`, `recv_len` | compact, submit, framing, VBI, steal | connections, message pool |
| Dispatch (`handler.h`, `mqtt/*.h`) | `protocol_version`, identity | CONNECT, SUBSCRIBE, PUBLISH, PINGREQ, DISCONNECT | all of the above |
| Client-id map (`mem/hashmap.h`) | open-addressed table with tombstones | insert, find, remove | slots (session resumption, its reader, is never called) |

What is hard here is not one algorithm but the number of owners.  A PUBLISH is
not copied: the receive buffer it arrived in is stolen and shared, by reference
count, between the egress queues and inflight tables of all subscribers and the
kernel.  Completions, acknowledgements, timeouts, failed writes and
disconnects arrive in any order, slots are reused while requests of the earlier
connection are outstanding, packet ids wrap and are computed from the table
slot, and every ring may be full.  `PROJECT.json` lists the hazards one by one
("hazards"), each at its line, with the property that would catch it.

What makes the delivery part correct:

* the reference count of a message is the number of its owners, and its buffer
  is free exactly when there is none (`RefsExact`);
* a completion is applied to exactly the segments it was submitted with
  (`WritevMatchesQueue`), also after partial writes and slot reuse;
* an acknowledgement finds its entry (`EntriesFindable`), `inflight_count` is
  the number of entries in use (`CountExact`);
* no handler leaves a queue asleep with nothing that would wake it, but at a
  head that waits for an inflight entry, or at one that names a message which is
  no longer its own (`NoLostWakeup`, `RetryFlagSound`).

What makes the topic trie correct:

* it is a set of filters per session, and a packet changes the sets of one
  session only (`ImplementsSubscriptions`, `ViewExact`);
* a PUBLISH reaches every session that holds a matching filter as it wrote it,
  and none without a matching key, also when slots are reused and `sub_count`
  decides what is looked at (`RoutedAsHeld`, `SubCountExact`);
* nothing that was added gets out of reach of the hash lookups
  (`ChildrenFindable`).

What makes connections and the event loop correct:

* every receive buffer has exactly one owner (`BufferOwners`), and the kernel
  writes only into a buffer its connection still owns (`KernelWritesOwned`);
* an active connection has one receive, or one entry in the retry ring, never
  none or two (`ReceivesExact`); no fd leaks (`FdsExact`); a close completion
  reaches the connection that asked for it (`CloseHitsCloser`);
* the loop blocks only with everything submitted (`BlockedIdle`), closing slots
  come back (`ClosingEnds`), load does not starve the sweep (`SweepReached`).

What makes receiving and the publisher's ceremony correct:

* the packets handled are those sent, in order, byte for byte, whatever pieces
  they come in (`PacketsExact`), and a published message stays as it was
  (`StolenIntact`);
* a QoS 2 message is passed on at most once per connection and acknowledged only
  when it was (`ImplementsPublishOnce`, `AckedForwarded`), and a publisher that
  keeps trying completes (`PublishCompletes`);
* a response slot is not written while a send may read it (`ResponsesIntact`).

What makes the two hash tables correct: `HashExact` and `MapExact` say that they
hold what they were given and find it again.

## Modules

| Module | What it is |
|---|---|
| `ClientSlot` | One client record: inflight table and egress queue, and the operations on them as pure operators. |
| `Delivery` | The broker around the records: connections, fan-out, reference counts, the kernel's writevs and their completions, acks, the sweep, the retry queue.  All properties. |
| `MCDelivery` | Symmetry sets for TLC. |
| `ClientSlotProofs` | Lemmas: what each operator of `ClientSlot` preserves, and how they keep entries, packet ids, segments and batches in step with each other. |
| `DeliveryProofs` | The inductive invariant of `Delivery`, one lemma per action, the theorems. |
| `DeliveryEgressProofs` | Its strengthening for writevs, retries and wake-ups, and then for reference counts, with lemmas on counting pairs; one lemma per action, the theorems. |
| `Subscriptions` | Abstract: a set of filters per session, changed one filter at a time. |
| `Topics` | The trie behind it: nodes, child hash tables, bitmaps and counts; SUBSCRIBE, UNSUBSCRIBE, disconnects, matching.  All properties. |
| `MCTopics` | Levels, hashes, filters and topics for TLC. |
| `TopicsProofs` | Two inductive invariants of `Topics`, one about the tables and one about the filters they stand for, one lemma per action for each; the refinement; what matching computes. |
| `Ring` | The submission and completion rings, and the kernel's side of them, as operators on one record. |
| `EventLoop` | `broker_run` on `Ring`: the phases of an iteration, accepts, receives, closes, slots, fds, buffers.  Properties and fairness. |
| `MCEventLoop` | Symmetry for TLC. |
| `EventLoopProofs` | Lemmas on `Ring`, the inductive invariant of `EventLoop`, one lemma per action, the theorems. |
| `PublishOnce` | Abstract: what a QoS 2 publisher is promised. |
| `Ceremony` | The publisher's ceremony and the response slots behind it, on the inflight table of `ClientSlot`. |
| `CeremonyProofs` | The inductive invariant of `Ceremony`, one lemma per action, the theorems and the refinement. |
| `HashTables` | The packet-id hash and the client map, position by position. |
| `HashTablesProofs` | Lemmas about probing, the inductive invariants of the two tables and the loop invariant of the backward shift, the theorems. |
| `Receive` | The byte stream of one connection: buffer, compaction, framing, stolen buffers. |
| `MCReceive` | Packets for TLC. |
| `ReceiveProofs` | Lemmas about encoding and decoding, the inductive invariant of `Receive`, one lemma per action, the theorems. |

`ClientSlot` is shared by `Delivery` and `Ceremony`; `Ring` is the lower layer of
`EventLoop`.  `Delivery`, `EventLoop` and `Receive` look at one process from
three sides and overlap where they meet: that `Delivery` may treat "the SQ has
room" as a choice, that its stolen buffers are nobody else's, and that a PUBLISH
arrives intact, is what `EventLoop` and `Receive` check; that a message's buffer
is given back exactly once, which those two take as a choice of when, is
`RefsExact` of `Delivery`.  `HashExact` justifies the lookup that `ClientSlot`
uses.

### How the model corresponds to the code

A variable `clients[c]` is the delivery half of `struct client_slot`, with the
field names of the source.  `writevs` are the `OP_EGRESS` requests the kernel
holds or whose CQE is not dispatched.  `fanout` is `struct publish_ctx` and the
matches left; `sweep` is the local state of `fsm_sweep_client`.

| Action | Code |
|---|---|
| `Accept` | `handle_accept`, `broker_alloc_slot`, `client_init` |
| `SubmitClose`, `HandleClose` | `submit_close`; `handle_close`, `fsm_client_disconnect`, `broker_free_slot` or `broker_slot_go_dormant` |
| `Publish`, `Forward`, `PublishDone` | the PUBLISH case of `process_mqtt_packet_ex`, one iteration of `process_publish_matches`, the release of the base reference |
| `Pubrel` | `fsm_pub_pubrel_received` |
| `Puback`, `Pubrec` | `fsm_sub_puback_received`, `fsm_sub_pubrec_received`, each with the flush it ends in |
| `SweepClient`, `SweepEntry`, `SweepDone` | `fsm_sweep_client`, one iteration at a time, with `fsm_sub_timeout` |
| `Transmit`, `TransmitFails` | the kernel runs a writev: whole, short, `-EAGAIN`, other error |
| `EgressStale`, `EgressWritten`, `EgressAgain`, `EgressFatal` | `handle_egress_cqe` by outcome, with the flush of the next batch |
| `RetryFlush` | one iteration of `process_egress_flushes` |

A handler is one action, because nothing else in the process runs until it
returns.  The two handlers that loop over clients or entries and share state
from one iteration to the next take one action per iteration; `Ready` keeps
every other handler out until they end, while the kernel's actions go on.
`egress_flush` is not an action but the operator `FlushInto` that the handlers
end in, since the code calls it inside them; it has three outcomes (nothing to
do, submitted, no SQE).

`bare` holds the messages whose `buf_idx` is `MSG_POOL_INVALID`.
`msg_pool_alloc` clears it; a PUBLISH that gets a buffer sets it (`FanOut`), one
that gets none gives the index back without (`NoBuffer`).  `egress_flush` stops
at a segment that names such a message (`Bare`), and does nothing when that
segment is the head.

What is abstracted: topics, payloads and wire lengths (a message is a model
value, a partly written segment has cursor 1); deadlines (the sweep finds any
of the outgoing entries due); whether the SQ has room, and whether a receive
buffer is left to replace a stolen one (both are chosen; with `RunsOut` FALSE, a
bound, a buffer always is); the order of handlers
in one iteration of the event loop; the free stacks, which are sets; the result
of a topic match, which is any set of active slots; the packet-id hash, of which
`HashTables` has the detail.  The subscriber
is a client that acknowledges each PUBLISH it received whole, in order.

Leaving wire lengths out hides one thing.  A retransmission whose message index
was given to another message is written with the lengths of the new message,
while `handle_egress_cqe` counts the bytes by the length stored when the segment
was queued (`egress_seg_store_wire_len`).  If they differ, the completion takes
the batch to have ended elsewhere than it did; the model completes it where the
kernel stopped.

In `Topics` a record of `nodes` is `struct trie_node`.  `walk` is the local
state of the SUBSCRIBE or UNSUBSCRIBE case: which filter of the packet, which
node, the levels left, the return codes so far.  `granted` is what the client
was told, which no variable of the broker holds and `ViewExact` compares with.

| Action | Code |
|---|---|
| `Accept`, `SubmitClose` | as in `Delivery`, with the generation that subscriptions carry |
| `HandleClose` | `trie_remove_fd` by `broker_free_slot`; nothing by `broker_slot_go_dormant` |
| `Receive` | `mqtt_parse_subscribe`, `mqtt_parse_unsubscribe`: at most `MQTT_MAX_FILTERS` filters are kept |
| `Descend`, `Grow`, `Fail` | one iteration of `trie_subscribe`: the child is there, is made by `trie_alloc` and `trie_add_child`, or cannot be made |
| `Mark` | the end of `trie_subscribe` |
| `Descend`, `Miss`, `Unmark` | `trie_unsubscribe` in the same way |
| `Answer` | `mqtt_encode_suback`, the UNSUBACK |

`Targets` is `trie_match_collect` and the selection in
`process_publish_matches`: an operator, because matching changes nothing.

What a filter ought to match is stated apart from the code's walk.  `LevelsMatch`
compares level by level, by the rules of `docs/mqtt-rfc/08-topics.md` 8.3 and
8.5, which `docs/spec/08-trie.md` shares (`topic_matches` in `subs.h` is another
matching, called by tests only, and answers no for `a/#` and `a`); `Reserved` is
MQTT-4.7.2-1; `AsWritten` says that the trie files a filter as it was written and
nothing else under its key.  `RoutedAsHeld` then has two parts.  No client is
reached but active ones whose key, as filed, matches the topic as the trie reads
it.  And a client that holds a filter as written is reached by every topic the
documents say it matches, except where code and documents differ: topics with an
empty last level, `$` topics under a leading wildcard, topics matched by more
than `TRIE_MAX_MATCHES` nodes.  Whether a client with two matching filters gets
one copy or two is not said; see below.

What is abstracted there: a filter or topic is the sequence of its levels, so
`topic_iter` is `Segments`, which does not see an empty last level; a level is
a string, its part that fits `TRIE_MAX_SEGMENT` is given by `Cut` and its hash
by `Hash`, so collisions and cut levels are chosen by the instance; the free
list is a set, since a node is given back only when it could not be added;
`children[]` is never read, and what counts of it is `child_count`.
Node index 0 is the root and "no node" at once, as in the code.

In `EventLoop`, `pc` is the phase of `broker_run`; a request or CQE is a record
with the fields packed into `user_data`, plus, for a close, who asked for it.

| Action | Code |
|---|---|
| `Top` | flush, submit, `ring_cq_sync` |
| `AcceptCqe`, `AcceptRejected` | `handle_accept` with `broker_alloc_slot`, `client_init` and its two submissions |
| `RecvCqe` | `handle_recv` (`RecvStale`, `RecvEnd` or `RecvData`), up to `process_recv_buffer` |
| `Publish`, `PacketError`, `PacketsDone` | what in `process_recv_buffer` touches buffers or the ring: a stolen buffer, a close, the next receive |
| `Egress`, `EgressCqe`, `MessageDone` | `egress_flush` and `handle_egress_cqe` as far as they use the SQ; `release_msg_ref` |
| `Respond`, `RespCqe` | `submit_send_resp_slot`, called by `send_resp`, `send_buf` and `send_static`; `OP_SEND_RESP` in `dispatch_cqe` |
| `CloseCqe` | `handle_close` with `broker_free_slot` or `broker_slot_go_dormant` |
| `RecvRetry`, `RetriesDone` | `process_recv_retries` |
| `Replenish`, `Replenished`, `Sweep`, `Wait`, `WakeUp` | the rest of the iteration |
| `KernelAccept`, `KernelRecv`, `KernelOther`, `IntervalElapses` | the kernel, the peers and the clock |

`get_sqe_with_flush` is `MakeRoom`: its outcomes include that the kernel took
nothing, or fewer than it was asked to, if it may refuse.  The distinction between prepared and visible SQEs is
kept (`visible`), because `ring_submit_and_wait` at the end of an iteration
counts SQEs that were never made visible; so is the snapshot of the CQ (`seen`),
because it ends the dispatch loop.  Abstracted: what is in a buffer (`Receive`),
who holds a stolen one (`Delivery`), which response slot a response is sent from
(`Ceremony`; here a slot has one response outstanding at most, which is a bound),
the indices of the rings.

In `Ceremony`, `cl` is the slot with its inflight table, `resp` the response
slots, `sends` the `OP_SEND_RESP` requests not yet completed.

| Action | Code |
|---|---|
| `PublishNew`, `PublishDuplicate`, `PublishUntracked` | `fsm_pub_received`, QoS 2, by outcome |
| `Pubrel` | `fsm_pub_pubrel_received` |
| `Ping` | PINGREQ answered by `send_static` |
| `SendRespCqe` | `OP_SEND_RESP` in `dispatch_cqe` |
| `Receive`, `KernelSends` | submission and reception; the kernel performs a send |
| `Reconnect` | close, free and accept on the slot |
| `Deliver`, `Delivered` | an entry of the same table taken and freed for a message to this client |
| `Publish`, `Resend`, `ReadPubrec`, `ReadPubcomp` | the publisher (external) |

`send_resp` is the operator `SendResp`: a response slot and a send, nothing if
the SQ has no room, or a synchronous write when all slots are in flight.
`sent`, `forwarded` and `acked` are what `PublishOnce` speaks of; a message is
a packet id and the count of its uses.

`HashTables` has one action per function of `client.h` and `hashmap.h` that
changes the tables, as their callers call them.  `Receive` has `SubmitRecv`
(`maybe_compact_recv_buf`, `submit_recv_internal`), `RecvData`, one action for
each way out of an iteration of `process_recv_buffer` (`PacketHandled`,
`Publish`, `PacketError`, `BufferDone`) and `MessageDone`; `Front` is the fast
path and `mqtt_packet_complete_ex`.  A byte is a record that knows which packet
it was sent in, so that `PacketsExact` can tell bytes apart that look alike.

## Runs

| Run | Bounds | What it shows |
|---|---|---|
| `delivery_batching` | 1 slot, 2 messages, 2 entries, 4 packet ids, queue and batch of 2, QoS 0/1, buffers may run out | `TypeOK`, `QueueShape`, `WritevMatchesQueue`, `EntriesFindable` |
| `delivery_reconnect` | 1 slot used by 2 connections, 2 messages, 1 entry, queue of 1, QoS 0 to 2 in both directions | a completion or a retry entry of the first connection never disturbs the second, and nothing is lost count of: `WritevMatchesQueue`, `RetryFlagSound`, `Qos0Live`, `RefsExact`, `CountExact` |
| `delivery_fanout` | 2 slots, 1 message, 1 entry each, QoS 0/1, buffers may run out | `RefsExact` with a shared message, `NoLostWakeup` |
| `topics` | 2 slots of 2 connections each, 2 nodes beside the root, filters `+`, `+/#` and one that is cut, packets of 1 or 2, topics with a `$` level and with an empty last one, room for 2 children and 2 matches | `TypeOK`, `ChildrenFindable`, `SubCountExact`, `ViewExact`, `RoutedAsHeld`; the trie implements `Subscriptions` |
| `loop_connections` | 3 slots, 3 buffers, 4 fds of which the last is rejected, an SQ of 2, a kernel that may take all, some or none | `TypeOK`, `BufferOwners`, `KernelWritesOwned`, `ReceivesExact`, `CloseHitsCloser`, `FdsExact`, `BlockedIdle`, and no deadlock |
| `loop_progress` | 1 slot that is answered, written to and swept, 2 fds, 1 accept at a time, an SQ of 2, a kernel that takes all it is given | `ClosingEnds`, `WritevSubmitted`, `SweepReached`, under fairness |
| `ceremony` | 2 packet ids, 2 messages, 1 entry, 1 response slot, 2 connections | `TypeOK`, `ResponsesIntact`, `AckedForwarded`; the ceremony implements `PublishOnce`; `PublishCompletes`, under fairness |
| `hash_tables` | 4 entries in a hash of 8, 5 ids of which 4 collide in pairs; 2 slots in a map of 8, 3 hashes and that of the empty id | `HashExact`, `MapExact`, `MapFinds` |
| `receive` | up to 4 packets of 7 kinds, 2 buffers of 8 bytes, digits in base 4, 2 at most | `TypeOK`, `PacketsExact`, `StolenIntact`, `CloseJustified`, and `AllHandled` under fairness |
| `buffer_reuse` | violation of `KernelReadsLive` | finding 1 below |
| `give_up_stall` | violation of `StalledOnlyWhenFull` | finding 2 |
| `duplicate_forwarded` | violation of `DuplicateDropped`, one publisher that is also a subscriber | finding 3 |

Why these bounds are enough for what the runs claim: with two segments in a
batch there are short writes that end before, inside and after a segment, and
a batch that stops at a segment which needs an entry; with four packet ids and
two entries the id wraps twice within a run and the id 0 comes up; one slot
with two generations has every kind of stale completion and stale retry entry;
a retry queue as long as the number of slots is filled by one entry of an
earlier connection; `MaxRetries = 1` has a retransmission and a give-up.  The
named bounds are `MaxGen` (connections per slot, an u8 in the code, which also
keeps generations from wrapping), `MaxOwed` (PUBLISHes received and not yet
acknowledged) and `RunsOut`, which is FALSE in `delivery_reconnect` to keep it
within minutes, and in the two violation runs, whose traces need no shortage.

For the trie, the pool has fewer nodes than the filters need, so that a packet
fails half way with and without nodes made; the levels share hashes in a table
of two, so that probing wraps and meets the wildcards; one level is longer than
what fits and reads like another when it is cut; a topic can be matched by more
nodes than are kept.  Two slots with two generations are enough for a
subscription of an earlier connection to meet a later one in the same bitmap.

For the event loop, an SQ of two entries is filled by any two handlers, and with
a kernel that may refuse it stays full; generations wrap at 2, so that a stale
CQE may meet its own generation again; messages can hold all the receive
buffers; fds are reused lowest first.  `loop_connections` has no `Writers`: the
writevs and responses matter to the SQ only, and `loop_progress` has them.  The
proofs have both at once, and any `AcceptBatch`.  `Reorder` is FALSE
in both: Linux performs the close of a socket while it takes the SQE, so that
its CQE comes before that of any accept which gets the fd.  With `Reorder`
TRUE, as the interface alone would allow, `CloseHitsCloser` fails: the CQE
names only an fd, and is taken for a close of the new connection.

For the ceremony, one response slot makes both of `send_resp`'s fallbacks
happen, and one entry has a second message find the table full.
`MaxMessages`, `MaxPings`, `MaxInbox` and `MaxOutbox` bound what the publisher sends and
what lies in the sockets.  The hash tables are as large as they need to be for
clusters of three and more that wrap round the end, which is where
backward-shift removal has its cases; the map has twice its slots
or more, as in the code, so that empty ids fill it only after some others were
entered and removed.  A receive buffer of 8 bytes has compactions for both reasons,
packets that just fit and that do not, and lengths of one and two digits and one
too many; `MaxPackets = 4` has a packet half received behind two that steal.

Deadlock is checked in the runs of the event loop.  In the others, once every
slot has used up its generations or is dormant, which it stays for ever since
resumption is never called, or once the bounds on packets are used up, a model
has nothing to do.

### Fairness

`LoopFairness` (`EventLoop`) is weak fairness of the thread's steps and of the
kernel's completion of writevs, sends and closes.  The thread is one loop without a
step that could wait except `ring_submit_and_wait`, which is `WakeUp`'s guard; the
packets of one buffer are finitely many, so `Publish` and `Respond` need not be
fair and `PacketsDone` is.  A writev to a peer that never reads does not complete in
fact; no property above needs that it does, except through the close that ends
it.  Nothing is assumed of accepts, receives or the clock.

`Fairness` of `Receive` is that of its thread, and that bytes in the socket are
delivered to a receive.  `Fairness` of `Ceremony` adds the peer, which reads
and retransmits (`SF`: a full socket, or an answer taken meanwhile, disables it
in between), and that not every answer to a packet id is lost (`SF` of an
answer that finds room): without it a broker whose SQ is full at each of its
answers would never complete anything, and the code has no retry for it.

`NoLostWakeup` of `Delivery` needs no fairness: it is the action property that
a handler never leaves a queue with work and nothing that will wake it, but for
the exceptions it names.

## What the runs found

1. `fsm_sub_timeout` gives a message up, and frees its buffer with the last
   reference, while the writev that reads it has not completed.
   `docs/spec/09-fanout.md` 9.4.1 says the buffer must not be freed until the
   CQE arrives.
2. An entry that the sweep gives up is freed without the flush that
   `fsm_sub_puback_received` says is needed when the queue stopped for want of
   an entry.
3. `fsm_pub_received` looks a publisher's packet id up in a table that also
   holds what the same client is sent, under ids of the broker's choice.  An
   outgoing entry with that id hides the incoming one, and a retransmitted
   PUBLISH is forwarded a second time.

Finding 1 has a part that does hold: QoS 0 messages, whose reference egress
keeps until completion, are never freed under the kernel on an open connection
(`Qos0Live`).  So has finding 3: to a client that only publishes, at most once
is what it gets (`ImplementsPublishOnce`).

Seen while modelling, and part of the models, but not the subject of a run:

* `inflight_generation` advances only when slot 0 is allocated (`client.h:490`),
  so another slot can hand out one packet id again at once, and the second
  PUBACK of a retransmitted message completes the next message.
* `egress_flush` takes inflight entries before it knows that it has an SQE
  (`loop.h:470`), against the comment at `mqtt_fsm.h:146`.
* A wakeup is lost at a dangling head (`HeadDangles`, which `NoLostWakeup`
  excepts).  A segment whose reference belongs to an inflight entry outlives its
  message when the entry is freed first: a retransmission queued before the first
  copy is acknowledged, or a transmission that found no SQE and is given up by
  the sweep.  A later PUBLISH may take the message index, find no buffer and be
  dropped, after `msg_pool_alloc` has cleared the index's `buf_idx`
  (`msgbuf.h:141`, `handler.h:370`).  From then on every flush stops at that
  segment (`loop.h:394`, `loop.h:460`) and returns `EGRESS_FLUSH_NOOP`, "nothing
  to do (empty/inflight/inactive)" by the comment at `loop.h:334`, with entries
  free and no retry queued, until the index is used again for a message with a
  buffer; and then the segment is sent with the content of that message.  The
  shortest trace: one client publishes with QoS 1 and is forwarded its message,
  the flush takes an entry but finds no SQE, the sweep gives the entry up, the
  next PUBLISH is dropped for want of a buffer, and the retry of the flush does
  nothing.
* With every response slot in flight, an answer is written synchronously and
  overtakes those prepared before it.  A late PUBREC can then be taken for an
  answer to the next message under its id: `AckedForwarded` excepts it.
* A PUBACK or PUBREC is sent before the message is given a buffer; when there is
  none, an acknowledged message is dropped (`handler.h:352`).
* An idle broker blocks without a timeout, so a sweep that is due waits for the
  next CQE; `SweepReached` excepts it.
* A close that finds the SQ full after a refused submission is not tried again:
  the slot stays `CLOSING`.
* No receive is ever in flight when a connection is given up, so that
  `orphaned_recv_buf_idx` is never set.
* Acknowledgement packets are accepted before CONNECT.
* `topic_iter_next` ends with the string, so `a/` is the same filter and topic
  as `a` (`packet.h:106` against `docs/mqtt-rfc/08-topics.md:27`).  Topics that
  begin with `$` are matched by wildcards, against `08-topics.md:107` and `:175`.
  A client that holds two filters which match a topic gets one copy, because
  `process_publish_matches` marks each slot once (`handler.h:159`), where
  `docs/spec/08-trie.md:374` says "one copy per subscription".  Filters after the eighth of a packet
  are neither subscribed nor answered.  A topic level longer than 64 bytes
  matches wildcards only, although a filter with such a level is filed under its
  first 64 bytes: it never matches its own topic, and matches that of the shorter
  level.  Matches after the sixty-fourth node are dropped.  Nodes are
  never removed, so the pool can fill with filters that no one holds any more.
* The QoS of a subscription is granted in the SUBACK and then not kept: a
  subscriber with QoS 0 receives the publisher's QoS (`handler.h:167`).
* A client id of length zero is entered in the client map by every CONNECT and
  never removed, since removal looks at the length (`state.h:517`): a map filled
  in this way takes no identity any more, and `MapExact` asks that there is room.  Dormant slots are never
  given back.

## Proofs

### Delivery

`TypeCorrect`, `CountCorrect` and `QueueCorrect` (module `DeliveryProofs`)
prove `TypeOK`, `CountExact` and `QueueShape` of `Delivery` for every number
of slots and messages and every size of tables, queues and batches.  The
assumptions are those the modules name: `MaxInflight` divides `IdSpace` and is
smaller (a u16 power of two against 2^16), capacities are positive, the pools
have an invalid index, slots are finite, publishers' ids are not 0.

None of the three is inductive alone.  The inductive invariant `IInv` is

* `TypeOK`;
* `ClientsOK`: every record is in order (`ClientOK`): typed, its count exact
  (`Counted`) and its queue in shape (`Shaped`).  The count is needed for the
  types: a batch takes as many entries as the count says are left, and the
  search finds one only if the table has it.  The shape is needed for itself:
  that a completion leaves a partly written segment only at the head follows
  from the rest being untouched;
* `FanoutOK` and `SweepOK`: the connections a half-done handler still works on
  stay active until it ends.  Without them a fan-out could put a segment into
  the queue of a free slot.

`ClientSlotProofs` proves, operator by operator, that a record in order stays
in order.  The lemma that carries the weight is `SlotAtLemma`: the free slots
that a flush finds, searching from the hint with wrap-around, are distinct and
exist as long as the count says so; `BatchLemma` says the batch is well
defined; `AssignOK` combines the two to show that as many entries are used as
are counted.  `DeliveryProofs` then has one lemma per action and three lines
per theorem.  `IInv` was also model-checked on a small instance before
it was proved.

`WritevCorrect`, `EntriesCorrect`, `RetryFlagCorrect` and `WakeupCorrect`
(module `DeliveryEgressProofs`) prove `WritevMatchesQueue`, `EntriesFindable`,
`RetryFlagSound` and the action property `NoLostWakeup`.  Their invariant `EInv`
adds to `IInv`, slot by slot (`SlotOK`), that a record's entries, segments and
batch agree (`RecordOK`, whose lemmas are in `ClientSlotProofs`), that the one
request of the present connection carries the head of its queue, and that the
retry flag is backed by an entry; and, globally, that no request is of a
generation to come, so that a reconnect cannot meet it as its own.  It also needs
that a fan-out and a sweep do not happen at once (`OneLoop`) and that the sweep
does not hold on to an entry that was freed.  `NoLostWakeup` is proved from the
same lemmas and the invariant `RInv` below, since each of them says what its
handler leaves to be sent: a handler that adds to a queue ends in
`egress_flush`, which either prepares a writev, or enqueues a retry, or stops for
want of an entry or of a buffer.

`RefsCorrect`, in the same module, proves `RefsExact`: `RInv` is `EInv`
with `RefsExact` itself and `BareFree`.  The holders of a message are pairs of a slot and a
position in its queue or table.  `PairsChange` reduces what a step does to the
count of one message to what it does to the one slot that it changes; the step
lemmas then compare that with the references the code takes and releases.
`BareFree` is that a message without a buffer is in the pool.
`WakeupCorrect` needs it: a segment that owns a reference names a message that
is not in the pool, hence one with a buffer, so a flush that stops for want of a
buffer stops at a segment without a reference (`HeadsLive`).
`Qos0LiveCorrect` follows: a QoS 0 segment under way is in the queue by
`WritevMatchesQueue`, so it is a holder, so the message is not free.

### The ceremony

Module `CeremonyProofs` proves `TypeOK`, `ResponsesIntact`, `AckedForwarded` and
the refinement `ImplementsPublishOnce` for any number of packet ids, messages,
entries and response slots and any length of the queues in between.  The
invariant `CInv` has three parts.  `Core`: types, the table, and response slots
against the sends that read them.  `Order`: in the inbox a PUBLISH of a message
that was let through has its entry still in the table, with no PUBREL before it
that would remove the entry; this is what makes a duplicate be recognised, and
needs that a publisher's packets lie in the inbox in the order it sent them.
`Acks`, as long as no answer overtook another: what may still be to come for an
id, by the state its publisher is in (`AckIdle`, `AckPublished`, `AckReleased`).
A PUBREC may be to come only if the present message was let through, which is
`AckedForwarded` one step earlier.  `OnceCorrect` maps the ceremony's steps to
those of `PublishOnce`: one that lets a message through does so for one that was
not let through before, by `Order`, and the others stutter.

### The event loop

Module `EventLoopProofs` proves all seven invariants of `EventLoop` for any
number of slots, buffers and fds, any size of the SQ, any width of the
generations above one value, writevs and responses to any of the slots, and a
kernel that may take fewer SQEs than it is given.  Each
theorem assumes `~Reorder`, as the runs do and for the reason given under the
bounds: without it `CloseHitsCloser` is false, and with it `FdsExact` and
`BufferOwners`.  The assumption is one on the kernel, not on the broker.

The invariants hold each other up, so there is one inductive invariant, `IInv`:

* `RingInv`: what the requests at the three places they can be at (SQ, kernel,
  CQ) know of their connections.  A slot has one receive and one close
  outstanding at most (`One`), a receive exactly when `recv_pending` is set, and
  each carries the slot's present generation, fd and buffer (`RecvsOK`,
  `ClosesOK`).  The fd map is the inverse of the fds (`MapOK`).  `FdOK` is the part
  that the properties do not name: an fd that is mapped can be accepted
  again only after its close was posted, that is, in the CQ the close lies before
  the accept.  This order is why a close finds the old connection still
  mapped, and the accept behind it finds the fd unmapped;
* `accept_pending` is the number of accepts outstanding;
* `BufsOK`: one owner for each buffer;
* `SlotsInv`: an active connection that is not being handled receives or
  is in the retry ring, not both; a closing one does neither; no buffer is
  ever orphaned; what is in the free list is free;
* `PhaseOK`: what the phases of an iteration know.

Below are lemmas on `Ring`: what `Take`, `Prepare`, `Post` and `CqAdvance` do to
the requests and where they are (`TakeMoves`, `PrepareAdds`, `AdvanceRemoves`,
`PostedParts`), then what the submissions and dispatches of the code do to
`RingInv` (`RecvSubmission`, `CloseSubmission`, `AcceptInstalled`,
`CloseDispatched`, ...), and one lemma per action.

### Topics

Module `TopicsProofs` proves all five invariants of `Topics` and the refinement
`ImplementsSubscriptions`, for every number of nodes and slots, every set of
levels and filters, every hash function and every table size.  The assumptions:
pools are finite, sizes are positive, cutting a level twice cuts it once, the
short levels `+`, `#` and the empty one are not cut, and the root is not a node
of the pool.

The proof is in two layers.  The first, `IInv`, is about the tables, and
`TypeOK`, `SubCountExact` and `ChildrenFindable` follow from it (`TypeCorrect`,
`SubCountCorrect`, `ChildrenCorrect`).  The three hold each other up, so `IInv`
is their conjunction with two more facts.  That `sub_count` stays a natural
number needs that it counts the bitmap.  That a new node starts without
subscribers, and that making it does not redirect a lookup, needs that no hash
table leads to a free node (`NoFreeChild`) and that the walk does not stand on
one (`WalkOK`).  `WalkOK` also says that a SUBSCRIBE has a return code for each
filter before the present one, which is why the SUBACK is well formed.  The
lemmas that carry the weight are `OldChildFound` and `NewChildFound`: a lookup
depends only on the positions up to its first stop; what is there for a child
in use is not empty, and an insertion changes an empty position only, so old
lookups end where they did, while the new level's lookup meets neither an empty
position nor its own name before the place where the node went.

The second layer, `LInv`, is about the filters that the tables stand for.  It adds

* `Tree`: pointers and parents agree (`LinksOK`), and there is a function from
  nodes to the sequences of levels above them (`PathsOf`), that is, no cycle of
  parents.  That function is what the recursive `Path` computes (`PathNow`);
  with `ChildrenFindable` no two nodes in use have the same path
  (`PathInjective`), so that a filter has one bitmap;
* `MarksOK`: a slot in a bitmap serves a session, and the generation remembered
  beside it is the present one.  A slot is taken out of all bitmaps before it is
  free, so the check for stale subscriptions in `process_publish_matches` never
  rejects one: the proof shows that it is not what keeps slots apart;
* `WalkAt`: the path of the node where a walk stands, with the levels left,
  is the filter it walks for;
* `View`: each session holds what its client was told last, changed by the part
  of the present packet that is done.  `ViewExact` says this between packets
  only, and is not inductive.

`ViewCorrect` follows at once.  `TrieCorrect` maps the steps to those of
`Subscriptions`: `Mark` to subscribing, `Unmark` to unsubscribing, `Accept` to
a session's opening, `SubmitClose` to its closing and `HandleClose` to its end;
all the others, nodes made and walks given up among them, stutter
(`SameHeld`).

`RoutingCorrect` is about the matching.  Its recursion goes down the levels of
a topic and is written row by row, a row being a function of the node.  That it
is defined is `RowsExist`; `CollectsAll` says what it collects below a node: the
nodes with subscribers under it whose path fits the rest of the topic.  Both
argue by the least number of levels left for which the claim would be false.
`MatchesLemma` adds the limit on matches, `TargetsLemma` the choice of slots;
`RoutingLemma` says which keys' holders are reached, and the theorem follows since
a filter filed as written is its own key.  `IInv` and the parts of `LInv` were model-checked on a small instance
before they were proved.

### The hash tables

Module `HashTablesProofs` proves `HashExact`, `MapExact` and `MapFinds` for any
size of the two tables, any packet ids and any hashes.  Assumed is what the
code sets up: the map has at least twice as many positions as there are slots
(`hashmap_init(max_clients * 2)`), and an identity is told from another, and
from the empty one, by its hash, as the code itself does.

Both tables keep what makes open addressing work (`MapReached`, `HashReached`):
no empty position lies between the natural position of an entry and the
position it is at, going round the end (`Between`).  `StopsAt` says where a
search ends in those terms, and the two tables differ in how a removal keeps
it.  The map leaves a tombstone, which is not empty.  That an insertion finds a
position needs counting: an entry that does not leak belongs to a slot and no
slot has two (`FewEntries`), so the capacity is enough unless leaked entries of
empty ids fill it (`RoomEnough`).

The packet-id hash shifts back what lies behind the gap.  `Shifting` is the
invariant of that loop: after k positions, the entries but for the removed one
are all there once, each is reachable also if the gap is emptied, provided it
was looked at or lies behind the end of the cluster, and the positions not
looked at are as they were.  `ShiftStep` proves one step, of which the code's
condition on the natural position is the case split (`ShouldShiftLemma`), and
`RemoveShifts` that the loop ends in a table without the entry.  The number of
steps is not bounded by a constant; `ShiftsExist` and `RemoveShifts` argue by
the least step at which the claim would fail.

### Receiving

Module `ReceiveProofs` proves all four invariants of `Receive` for buffers of
any size from 4 bytes, any base and number of digits of the remaining length,
packets of any length, and any pieces in which the kernel delivers them.

The first part is about the encoding alone.  `DecodedLemma` says that the
digits a peer writes add up to the length it wrote them for; `VbiLenLemma` that
all but the last carry the continuation bit; `FixedHeaderLemma` that a header
which is whole is read as it was written, and one that is cut off asks for more
bytes and is never mistaken for a shorter one; `FrontLemma` what
`process_recv_buffer` therefore decides over the bytes at its cursor.

The second part is the invariant `IInv`.  Its centre is `Stream`: there are
offsets at which the packets end in the stream (`Offsets`), and the bytes of
the packets not handled lie in the buffer, behind what a completed receive has
just put there, and then in the socket, in that order, a packet beginning at
the cursor (`InOrder`).  Around it:

* `TypeOK` and `RequestOK`: the receive that is outstanding writes behind the
  data, to the end of the buffer at most;
* `HandledOK`: the packets handled are the first of those sent, from which
  `PacketsExact` follows;
* `ConnectedOK`: the broker counts as connected when the packets handled make it
  so, since what it accepts depends on that;
* `FrontOK`: between two receives the packet at the front is not whole, or it is
  one the broker closes over.  `CloseJustified` needs it where a receive is
  submitted into a full buffer: with `CompactedLemma`, by which the data then
  begins at the start of the buffer, the packet at the front is larger than a
  buffer;
* `ClosedOK`, and `KeptOK`: no two messages hold one buffer, none holds the
  connection's or a free one, and its bytes are those published.

`StreamKept`, `StreamConsumed` and `StreamSent` say what moving bytes about,
handling a packet and sending one do to the stream, and each action's lemma
comes down to one of them.

### Not proved

Of the properties the runs check, the liveness properties alone are only
model-checked: `ClosingEnds`, `WritevSubmitted`, `SweepReached`,
`PublishCompletes` and `AllHandled`.  Liveness under fairness, and `ENABLED`, are
out of the prover's reach.  So are the library's induction theorems, which take
an operator as a parameter, and `RECURSIVE` operators, which no module with a
theorem uses or reaches; where a proof needs induction over a recursive function,
it is by the least counterexample instead (`LeastLemma`, `MinLemma`,
`FirstLemma`).  The properties that the code does not have (the three runs
that expect a violation) stay with TLC, which shows how they fail.

## Not modelled

* Configuration, logging, system-call wrappers, `main.c`: input and output or
  straight-line initialisation.
* `broker_find_slot`, `broker_slot_resume`, `mem/slot_pool` and the store half of
  `msg_path.h`: never called.
* The bytes of the outgoing stream: the iovecs of a batch, and that a response
  is sent with a request of its own while a writev is half written, so that its
  bytes can fall inside a PUBLISH (`loop.h:150`).
* The contents of CONNECT, and keep-alive, which is stored and never looked at.
* io_uring's memory ordering, and `io_uring_enter` failing for good, which ends
  the process.

## Plan

What is left is to extend the model: the outgoing byte stream of a connection,
with its partial writes and the responses in between, whose correctness would be
`PacketsExact` for the other direction; and the contents of CONNECT.
