------------------------------- MODULE EventLoop -------------------------------
(***************************************************************************)
(* The event loop (broker_run in src/broker/loop.h) and the connections it *)
(* serves: slots and their free list, the fd map, receive buffers and the  *)
(* receives the kernel writes into them, closes, the receive retry ring,   *)
(* accepts, and the decision to block.                                     *)
(*                                                                         *)
(* pc is the phase of the iteration.  A completion is dispatched in one    *)
(* step, except that a receive opens the loop over the packets in the      *)
(* buffer ("packets", for slot cur), one step per packet that matters:     *)
(* a PUBLISH steals the buffer, an error closes.                           *)
(*                                                                         *)
(* Abstractions.  Buffer contents are left out: what a packet is, whether  *)
(* the buffer is full at the end, and who keeps a stolen buffer and until  *)
(* when (module Delivery) are chosen.  Pools are sets.  Of writevs only    *)
(* the SQE and egress_inflight are kept, and of responses only the SQE     *)
(* (module Ceremony has the rest), so that all that is sent competes for   *)
(* the SQ.  Generations wrap at GenMod (a u8 in the code).                 *)
(***************************************************************************)
EXTENDS Ring

CONSTANTS
  Slots, NoSlot,   \* client slots (max_clients)
  Bufs, NoBuf,     \* receive buffers, one per slot; BUF_POOL_INVALID
  KernelFds,       \* fds the kernel may give out, 1..KernelFds
  MaxFds,          \* max_fds: fds from there on are rejected
  AcceptBatch,     \* ACCEPT_BATCH
  GenMod,          \* values of the generation counter, 2^8
  Writers          \* bound: slots that are sent to; without one time stands still

ASSUME SlotBufAssumption == /\ IsFiniteSet(Slots) /\ NoSlot \notin Slots
                            /\ IsFiniteSet(Bufs) /\ NoBuf \notin Bufs
                            /\ Cardinality(Bufs) = Cardinality(Slots)
ASSUME FdAssumption == KernelFds \in Nat /\ MaxFds \in Nat
ASSUME LoopAssumption == AcceptBatch \in Nat \ {0} /\ GenMod \in Nat \ {0, 1}
ASSUME WritersAssumption == Writers \subseteq Slots

VARIABLES
  pc,             \* phase of the event loop
  cur,            \* slot whose packets are processed
  processed,      \* this iteration dispatched a CQE
  sweep_due,      \* the sweep interval has elapsed
  ring,
  clients,
  fd_to_slot,
  free_slots,     \* the free list, free_head first
  recv_free,      \* buffers in the receive pool
  stolen,         \* buffers that messages hold
  recv_retry,     \* the receive retry ring
  accept_pending

vars == <<pc, cur, processed, sweep_due, ring, clients, fd_to_slot, free_slots,
          recv_free, stolen, recv_retry, accept_pending>>

Fds   == 1 .. KernelFds
NoFd  == 0
Phases == {"top", "dispatch", "packets", "retries", "accepts", "sweep", "wait", "blocked"}

FreeClient == [state |-> "FREE", fd |-> NoFd, generation |-> 0, recv_pending |-> FALSE,
               recv_buf_idx |-> NoBuf, orphaned_recv_buf_idx |-> NoBuf, full |-> FALSE,
               egress_inflight |-> FALSE]

(* Requests.  The slot and generation of a close are not in its user_data:     *)
(* they remember who asked for it.                                             *)
AcceptSqe == [op |-> "ACCEPT", fd |-> NoFd, slot |-> NoSlot, gen |-> 0,
              buf |-> NoBuf, res |-> "none"]
Request(op, c, cl, buf) == [op |-> op, fd |-> cl.fd, slot |-> c, gen |-> cl.generation,
                            buf |-> buf, res |-> "none"]
RecvSqe(c, cl)   == Request("RECV", c, cl, cl.recv_buf_idx)
CloseSqe(c, cl)  == Request("CLOSE", c, cl, NoBuf)
WritevSqe(c, cl) == Request("EGRESS", c, cl, NoBuf)
RespSqe(c, cl)   == Request("SEND_RESP", c, cl, NoBuf)

(* Everything submitted or prepared whose CQE was not dispatched yet. *)
ElementsOf(seq) == {seq[i] : i \in DOMAIN seq}
Outstanding(op) ==
  {e \in ElementsOf(ring.sq) \cup ring.pending \cup ElementsOf(ring.cq) : e.op = op}

Init ==
  /\ pc = "accepts"      \* broker_run starts by submitting the accepts
  /\ cur = NoSlot
  /\ processed = TRUE
  /\ sweep_due = FALSE
  /\ ring = EmptyRing
  /\ clients = [c \in Slots |-> FreeClient]
  /\ fd_to_slot = [f \in Fds |-> NoSlot]
  /\ free_slots \in {s \in [1..Cardinality(Slots) -> Slots] : ElementsOf(s) = Slots}
  /\ recv_free = Bufs
  /\ stolen = {}
  /\ recv_retry = << >>
  /\ accept_pending = 0

-------------------------------------------------------------------------------
(* Submitting.                                                                 *)

(* get_sqe_with_flush, and filling the entry in if there is one. *)
Submitted(r, sqe) == {IF SqFull(room) THEN room ELSE Prepare(room, sqe) : room \in MakeRoom(r)}

(* submit_accept, and the accept_pending it leaves: with a full SQ nothing. *)
SubmitAccept(r, n) ==
  \E room \in MakeRoom(r) :
    IF SqFull(room) THEN ring' = room /\ accept_pending' = n
    ELSE ring' = Prepare(room, AcceptSqe) /\ accept_pending' = n + 1

(* submit_recv_internal for slot c holding cl: what it may leave in the ring   *)
(* and the slot, and whether it failed because the SQ is full.  A full buffer  *)
(* closes the connection.  (A connection without a buffer, which it also       *)
(* tests for, does not exist: BufferOwners.)                                   *)
RecvSubmissions(r, c, cl) ==
  {IF SqFull(room) THEN [ring |-> room, client |-> cl, sq_full |-> TRUE]
   ELSE IF cl.full
   THEN [ring |-> Prepare(room, CloseSqe(c, cl)),
         client |-> [cl EXCEPT !.state = "CLOSING"], sq_full |-> FALSE]
   ELSE [ring |-> Prepare(room, RecvSqe(c, cl)),
         client |-> [cl EXCEPT !.recv_pending = TRUE], sq_full |-> FALSE]
   : room \in MakeRoom(r)}

(* recv_retry_enqueue: one entry fewer than the capacity of max_clients + 1;   *)
(* an entry that finds the ring full is lost.                                  *)
RetryEnqueue(queue, c) ==
  IF Len(queue) >= Cardinality(Slots) THEN queue ELSE Append(queue, c)

(* Fault: a receive that fails is not queued. *)
RetriedLost(queue, c, s) == queue

(* submit_recv *)
Retried(queue, c, s) == IF s.sq_full THEN RetryEnqueue(queue, c) ELSE queue

(* submit_close: the slot is CLOSING even if there is no room for the SQE. *)
SubmitClose(r, c) ==
  /\ clients' = [clients EXCEPT ![c].state = "CLOSING"]
  /\ ring' \in Submitted(r, CloseSqe(c, clients[c]))

-------------------------------------------------------------------------------
(* The start of an iteration: flush, submit, and look at the CQ.               *)
Top ==
  /\ pc = "top"
  /\ LET r == FlushSqes(ring)
     IN  \E n \in Takes(r) : ring' = CqSync(Take(r, n))
  /\ pc' = "dispatch"
  /\ processed' = FALSE
  /\ UNCHANGED <<cur, sweep_due, clients, fd_to_slot, free_slots, recv_free, stolen,
                 recv_retry, accept_pending>>

Dispatch(op) == /\ pc = "dispatch" /\ ring.seen > 0 /\ Head(ring.cq).op = op
                /\ processed' = TRUE /\ UNCHANGED sweep_due
Cqe == Head(ring.cq)
Rest == CqAdvance(ring)

DispatchDone ==
  /\ pc = "dispatch" /\ ring.seen = 0
  /\ pc' = "retries"
  /\ UNCHANGED <<cur, processed, sweep_due, ring, clients, fd_to_slot, free_slots, recv_free,
                 stolen, recv_retry, accept_pending>>

(* handle_accept *)
NoRoomFor(fd) == fd >= MaxFds \/ free_slots = << >> \/ recv_free = {}

(* Fault: the connection it has no place for stays open. *)
AcceptForgotten ==
  /\ Dispatch("ACCEPT")
  /\ Cqe.res = "error" \/ NoRoomFor(Cqe.fd)
  /\ SubmitAccept(Rest, accept_pending - 1)
  /\ UNCHANGED <<pc, cur, clients, fd_to_slot, free_slots, recv_free, stolen, recv_retry>>

(* accept failed, or there is no place for the connection: it is closed at once. *)
AcceptRejected ==
  /\ Dispatch("ACCEPT")
  /\ Cqe.res = "error" \/ NoRoomFor(Cqe.fd)
  /\ SubmitAccept([Rest EXCEPT !.open = @ \ {Cqe.fd}], accept_pending - 1)
  /\ UNCHANGED <<pc, cur, clients, fd_to_slot, free_slots, recv_free, stolen, recv_retry>>

(* Fault: the generation does not wrap with its width. *)
ClientInitNoWrap(cl, fd, buf) ==
  [FreeClient EXCEPT !.state = "ACTIVE", !.fd = fd, !.recv_buf_idx = buf,
                     !.generation = cl.generation + 1,
                     !.orphaned_recv_buf_idx = cl.orphaned_recv_buf_idx]

(* client_init: the orphan of an earlier connection is kept. *)
ClientInit(cl, fd, buf) ==
  [FreeClient EXCEPT !.state = "ACTIVE", !.fd = fd, !.recv_buf_idx = buf,
                     !.generation = (cl.generation + 1) % GenMod,
                     !.orphaned_recv_buf_idx = cl.orphaned_recv_buf_idx]

(* broker_alloc_slot, submit_recv, submit_accept *)
AcceptCqe ==
  /\ Dispatch("ACCEPT")
  /\ Cqe.res = "ok" /\ ~NoRoomFor(Cqe.fd)
  /\ LET c == Head(free_slots)
     IN  \E buf \in recv_free :
         \E s \in RecvSubmissions(Rest, c, ClientInit(clients[c], Cqe.fd, buf)) :
           /\ clients' = [clients EXCEPT ![c] = s.client]
           /\ recv_free' = recv_free \ {buf}
           /\ fd_to_slot' = [fd_to_slot EXCEPT ![Cqe.fd] = c]
           /\ recv_retry' = Retried(recv_retry, c, s)
           /\ SubmitAccept(s.ring, accept_pending - 1)
  /\ free_slots' = Tail(free_slots)
  /\ UNCHANGED <<pc, cur, stolen>>

(* handle_recv *)
FreeOrphan(cl) == [cl EXCEPT !.orphaned_recv_buf_idx = NoBuf]
Freed(buf) == IF buf = NoBuf THEN {} ELSE {buf}
IsStale(cl, cqe) == cl.generation # cqe.gen

(* For a connection that is gone or closing: the orphaned buffer is freed.      *)
RecvStale ==
  /\ LET c  == Cqe.slot
         cl == clients[c]
     IN  /\ recv_free' = recv_free \cup Freed(cl.orphaned_recv_buf_idx)
         /\ clients' = [clients EXCEPT ![c] =
                          [FreeOrphan(cl) EXCEPT !.recv_pending = @ /\ IsStale(cl, Cqe)]]
  /\ ring' = Rest
  /\ UNCHANGED <<pc, cur, fd_to_slot, free_slots, stolen, recv_retry, accept_pending>>

ForActive == ~IsStale(clients[Cqe.slot], Cqe) /\ clients[Cqe.slot].state = "ACTIVE"

(* End of stream or error. *)
RecvEnd ==
  /\ Cqe.res = "end"
  /\ ring' \in Submitted(Rest, CloseSqe(Cqe.slot, clients[Cqe.slot]))
  /\ clients' = [clients EXCEPT ![Cqe.slot].state = "CLOSING",
                                ![Cqe.slot].recv_pending = FALSE]
  /\ UNCHANGED <<pc, cur, fd_to_slot, free_slots, recv_free, stolen, recv_retry,
                 accept_pending>>

RecvData ==
  /\ Cqe.res = "data"
  /\ ring' = Rest
  /\ clients' = [clients EXCEPT ![Cqe.slot].recv_pending = FALSE]
  /\ cur' = Cqe.slot
  /\ pc' = "packets"
  /\ UNCHANGED <<fd_to_slot, free_slots, recv_free, stolen, recv_retry, accept_pending>>

(* The branch for a stale completion is the code's; KernelWritesOwned says that *)
(* it is never taken.                                                           *)
RecvCqe == /\ Dispatch("RECV")
           /\ IF ForActive THEN RecvEnd \/ RecvData ELSE RecvStale

-------------------------------------------------------------------------------
(* process_recv_buffer, for slot cur.                                          *)
BackToDispatch == pc' = "dispatch" /\ cur' = NoSlot

(* Fault: the old buffer is not freed when no subscriber took it. *)
PublishLeaks(kept) ==
  /\ pc = "packets"
  /\ LET old == clients[cur].recv_buf_idx
     IN  \E buf \in recv_free :
           /\ clients' = [clients EXCEPT ![cur].recv_buf_idx = buf]
           /\ recv_free' = recv_free \ {buf}
           /\ stolen' = stolen \cup (IF kept THEN {old} ELSE {})
  /\ ring' = FlushSqes(ring)
  /\ UNCHANGED <<pc, cur, processed, sweep_due, fd_to_slot, free_slots, recv_retry,
                 accept_pending>>

(* A PUBLISH steals the buffer if another is left (steal_recv_buffer); messages *)
(* keep it if some subscriber took a reference, else it is freed at once.  The  *)
(* fan-out ends with ring_flush_sqes.                                           *)
Publish(kept) ==
  /\ pc = "packets"
  /\ LET old == clients[cur].recv_buf_idx
     IN  \E buf \in recv_free :
           /\ clients' = [clients EXCEPT ![cur].recv_buf_idx = buf]
           /\ recv_free' = (recv_free \ {buf}) \cup (IF kept THEN {} ELSE {old})
           /\ stolen' = stolen \cup (IF kept THEN {old} ELSE {})
  /\ ring' = FlushSqes(ring)
  /\ UNCHANGED <<pc, cur, processed, sweep_due, fd_to_slot, free_slots, recv_retry,
                 accept_pending>>

(* Fault: handle_recv receives again although the connection is closing. *)
PacketErrorFallsThrough ==
  /\ pc = "packets"
  /\ clients' = [clients EXCEPT ![cur].state = "CLOSING", ![cur].recv_pending = TRUE]
  /\ \E r \in Submitted(ring, CloseSqe(cur, clients[cur])) :
       ring' \in Submitted(r, RecvSqe(cur, clients[cur]))
  /\ BackToDispatch
  /\ UNCHANGED <<processed, sweep_due, fd_to_slot, free_slots, recv_free, stolen, recv_retry,
                 accept_pending>>

(* Fault: handler and parser both close. *)
PacketErrorTwice ==
  /\ pc = "packets"
  /\ clients' = [clients EXCEPT ![cur].state = "CLOSING"]
  /\ \E r \in Submitted(ring, CloseSqe(cur, clients[cur])) :
       ring' \in Submitted(r, CloseSqe(cur, clients[cur]))
  /\ BackToDispatch
  /\ UNCHANGED <<processed, sweep_due, fd_to_slot, free_slots, recv_free, stolen, recv_retry,
                 accept_pending>>

(* A malformed packet, DISCONNECT, or a handler that reports an error. *)
PacketError ==
  /\ pc = "packets"
  /\ SubmitClose(ring, cur)
  /\ BackToDispatch
  /\ UNCHANGED <<processed, sweep_due, fd_to_slot, free_slots, recv_free, stolen, recv_retry,
                 accept_pending>>

(* What is left is no whole packet: receive more, unless the buffer is full. *)
PacketsDone(full) ==
  /\ pc = "packets"
  /\ \E s \in RecvSubmissions(ring, cur, [clients[cur] EXCEPT !.full = full]) :
       /\ ring' = s.ring
       /\ clients' = [clients EXCEPT ![cur] = s.client]
       /\ recv_retry' = Retried(recv_retry, cur, s)
  /\ BackToDispatch
  /\ UNCHANGED <<processed, sweep_due, fd_to_slot, free_slots, recv_free, stolen,
                 accept_pending>>

-------------------------------------------------------------------------------
(* Writing, and the messages that are done with (module Delivery).             *)

(* submit_send_resp_slot, from a handler: SUBACK, PUBACK, PINGRESP and the like *)
(* go to the connection whose packet is processed.  With no room for the SQE    *)
(* the response is dropped.  Bound: one response per slot at a time.            *)
Responding(c) == \E e \in Outstanding("SEND_RESP") : e.slot = c
Respond ==
  /\ pc = "packets" /\ cur \in Writers /\ ~Responding(cur)
  /\ ring' \in Submitted(ring, RespSqe(cur, clients[cur]))
  /\ UNCHANGED <<pc, cur, processed, sweep_due, clients, fd_to_slot, free_slots, recv_free,
                 stolen, recv_retry, accept_pending>>

(* OP_SEND_RESP in dispatch_cqe: no more than the response slot is given back. *)
RespCqe ==
  /\ Dispatch("SEND_RESP")
  /\ ring' = Rest
  /\ UNCHANGED <<pc, cur, clients, fd_to_slot, free_slots, recv_free, stolen, recv_retry,
                 accept_pending>>

(* egress_flush gets an SQE: from a handler, an egress retry, or the sweep. *)
Egress(c) ==
  /\ pc \in {"packets", "accepts"} \/ (pc = "sweep" /\ sweep_due)
  /\ clients[c].state = "ACTIVE" /\ ~clients[c].egress_inflight
  /\ ~SqFull(ring)
  /\ ring' = Prepare(ring, WritevSqe(c, clients[c]))
  /\ clients' = [clients EXCEPT ![c].egress_inflight = TRUE]
  /\ UNCHANGED <<pc, cur, processed, sweep_due, fd_to_slot, free_slots, recv_free, stolen,
                 recv_retry, accept_pending>>

(* handle_egress_cqe, which may chain the next batch. *)
EgressCqe(more) ==
  /\ Dispatch("EGRESS")
  /\ LET c   == Cqe.slot
         cl  == clients[c]
         own == cl.generation = Cqe.gen /\ cl.fd = Cqe.fd
     IN  IF own /\ more /\ cl.state = "ACTIVE" /\ ~SqFull(Rest)
         THEN ring' = Prepare(Rest, WritevSqe(c, cl)) /\ UNCHANGED clients
         ELSE /\ ring' = Rest
              /\ clients' = [clients EXCEPT ![c].egress_inflight = @ /\ ~own]
  /\ UNCHANGED <<pc, cur, fd_to_slot, free_slots, recv_free, stolen, recv_retry,
                 accept_pending>>

(* release_msg_ref drops the last reference: an acknowledgement, a completed    *)
(* write, a disconnect or the sweep.                                            *)
MessageDone(buf) ==
  /\ pc \in {"dispatch", "packets", "sweep"}
  /\ buf \in stolen
  /\ stolen' = stolen \ {buf}
  /\ recv_free' = recv_free \cup {buf}
  /\ UNCHANGED <<pc, cur, processed, sweep_due, ring, clients, fd_to_slot, free_slots,
                 recv_retry, accept_pending>>

-------------------------------------------------------------------------------
(* handle_close.  The slot is found by the fd alone.                           *)
ClosedSlot(cqe) == fd_to_slot[cqe.fd]

HasCloser(cqe) == /\ ClosedSlot(cqe) # NoSlot
                  /\ clients[ClosedSlot(cqe)].state \in {"ACTIVE", "CLOSING"}
                  /\ clients[ClosedSlot(cqe)].fd = cqe.fd

(* broker_free_slot and broker_slot_go_dormant on the slot: with a receive in   *)
(* flight its buffer is remembered, else it is freed.                           *)
Disconnected(cl, clean) ==
  [cl EXCEPT !.state = IF clean THEN "FREE" ELSE "DORMANT", !.fd = NoFd,
             !.recv_buf_idx = NoBuf, !.full = FALSE, !.egress_inflight = FALSE,
             !.orphaned_recv_buf_idx = IF cl.recv_pending THEN cl.recv_buf_idx ELSE @]

Close(clean) ==
  /\ LET c  == ClosedSlot(Cqe)
         cl == clients[c]
     IN  /\ clients' = [clients EXCEPT ![c] = Disconnected(cl, clean)]
         /\ recv_free' = recv_free \cup (IF cl.recv_pending THEN {} ELSE {cl.recv_buf_idx})
         /\ fd_to_slot' = [fd_to_slot EXCEPT ![cl.fd] = NoSlot]
         /\ free_slots' = IF clean THEN <<c>> \o free_slots ELSE free_slots
  /\ UNCHANGED <<pc, cur, stolen, recv_retry, accept_pending>>

(* By CloseHitsCloser there always is a closer, unless closes are reordered. *)
CloseCqe(clean) ==
  /\ Dispatch("CLOSE")
  /\ ring' = Rest
  /\ IF HasCloser(Cqe) THEN Close(clean)
     ELSE UNCHANGED <<pc, cur, clients, fd_to_slot, free_slots, recv_free, stolen,
                      recv_retry, accept_pending>>

-------------------------------------------------------------------------------
(* The rest of the iteration.                                                  *)

(* process_recv_retries.  Entries carry no generation. *)
RetrySkipped(c) == clients[c].state # "ACTIVE" \/ clients[c].recv_pending
RecvRetry ==
  /\ pc = "retries" /\ recv_retry # << >>
  /\ LET c == Head(recv_retry)
     IN  IF RetrySkipped(c)
         THEN recv_retry' = Tail(recv_retry) /\ UNCHANGED <<pc, ring, clients>>
         ELSE \E s \in RecvSubmissions(ring, c, clients[c]) :
                /\ ring' = s.ring
                /\ clients' = [clients EXCEPT ![c] = s.client]
                /\ recv_retry' = Retried(Tail(recv_retry), c, s)
                /\ pc' = IF s.sq_full THEN "accepts" ELSE pc
  /\ UNCHANGED <<cur, processed, sweep_due, fd_to_slot, free_slots, recv_free, stolen,
                 accept_pending>>

RetriesDone ==
  /\ pc = "retries" /\ recv_retry = << >>
  /\ pc' = "accepts"
  /\ UNCHANGED <<cur, processed, sweep_due, ring, clients, fd_to_slot, free_slots, recv_free,
                 stolen, recv_retry, accept_pending>>

(* The accepts are replenished up to ACCEPT_BATCH, as far as the SQ allows. *)
Replenish ==
  /\ pc = "accepts" /\ accept_pending < AcceptBatch
  /\ SubmitAccept(ring, accept_pending)
  /\ pc' = IF accept_pending' = accept_pending THEN "sweep" ELSE pc
  /\ UNCHANGED <<cur, processed, sweep_due, clients, fd_to_slot, free_slots, recv_free,
                 stolen, recv_retry>>

Replenished ==
  /\ pc = "accepts" /\ accept_pending >= AcceptBatch
  /\ pc' = "sweep"
  /\ UNCHANGED <<cur, processed, sweep_due, ring, clients, fd_to_slot, free_slots, recv_free,
                 stolen, recv_retry, accept_pending>>

(* fsm_sweep_all_timeouts, when the interval has elapsed, ends. *)
Sweep ==
  /\ pc = "sweep"
  /\ sweep_due' = FALSE
  /\ pc' = IF processed THEN "top" ELSE "wait"
  /\ UNCHANGED <<cur, processed, ring, clients, fd_to_slot, free_slots, recv_free, stolen,
                 recv_retry, accept_pending>>

(* ring_submit_and_wait(1), when nothing was processed.  It submits every SQE  *)
(* prepared but makes none visible; the kernel waits for a completion only     *)
(* after it has taken as many as it was asked to.                              *)
(* Fault: it waits as soon as the visible ones were taken. *)
WaitsForVisible(r, taken) == taken = r.visible
WaitsFor(r, taken) == taken = SqPending(r)
Wait ==
  /\ pc = "wait"
  /\ \E n \in Takes(ring) :
       /\ ring' = Take(ring, n)
       /\ pc' = IF WaitsFor(ring, n) /\ ring'.cq = << >> THEN "blocked" ELSE "top"
  /\ UNCHANGED <<cur, processed, sweep_due, clients, fd_to_slot, free_slots, recv_free,
                 stolen, recv_retry, accept_pending>>

WakeUp ==
  /\ pc = "blocked" /\ ring.cq # << >>
  /\ pc' = "top"
  /\ UNCHANGED <<cur, processed, sweep_due, ring, clients, fd_to_slot, free_slots, recv_free,
                 stolen, recv_retry, accept_pending>>

-------------------------------------------------------------------------------
(* The kernel, the peers, and time.                                            *)
KernelOnly == UNCHANGED <<pc, cur, processed, sweep_due, clients, fd_to_slot, free_slots,
                          recv_free, stolen, recv_retry, accept_pending>>

(* A connection arrives and takes the lowest fd, or there is none (EMFILE). *)
ClosedFds == Fds \ ring.open
LowestFd == CHOOSE f \in ClosedFds : \A g \in ClosedFds : f <= g
KernelAccept ==
  /\ ring.accepts > 0
  /\ LET ok == ClosedFds # {}
         fd == IF ok THEN LowestFd ELSE NoFd
     IN  ring' = Post([ring EXCEPT !.accepts = @ - 1, !.open = @ \cup (IF ok THEN {fd} ELSE {})],
                      [AcceptSqe EXCEPT !.fd = fd, !.res = IF ok THEN "ok" ELSE "error"])
  /\ KernelOnly

Completes(req, res) ==
  ring' = Post([ring EXCEPT !.pending = @ \ {req}], [req EXCEPT !.res = res])

KernelRecv(req, res) ==
  /\ req \in ring.pending /\ req.op = "RECV"
  /\ Completes(req, res)
  /\ KernelOnly

KernelOther(req) ==
  /\ req \in ring.pending /\ req.op \in {"EGRESS", "SEND_RESP", "CLOSE"}
  /\ Completes(req, "done")
  /\ KernelOnly

IntervalElapses ==
  /\ Writers # {} /\ ~sweep_due
  /\ sweep_due' = TRUE
  /\ UNCHANGED <<pc, cur, processed, ring, clients, fd_to_slot, free_slots, recv_free,
                 stolen, recv_retry, accept_pending>>

-------------------------------------------------------------------------------
(* Steps the thread takes unless it is blocked. *)
Loop ==
  \/ Top \/ DispatchDone
  \/ AcceptRejected \/ AcceptCqe
  \/ RecvCqe
  \/ PacketError \/ \E full \in BOOLEAN : PacketsDone(full)
  \/ \E more \in BOOLEAN : EgressCqe(more)
  \/ RespCqe
  \/ \E clean \in BOOLEAN : CloseCqe(clean)
  \/ RecvRetry \/ RetriesDone
  \/ Replenish \/ Replenished \/ Sweep \/ Wait \/ WakeUp

Next ==
  \/ Loop
  \/ \E kept \in BOOLEAN : Publish(kept)
  \/ \E c \in Writers : Egress(c)
  \/ Respond
  \/ \E buf \in Bufs : MessageDone(buf)
  \/ KernelAccept
  \/ \E req \in ring.pending, res \in {"data", "end"} : KernelRecv(req, res)
  \/ \E req \in ring.pending : KernelOther(req)
  \/ IntervalElapses

Spec == Init /\ [][Next]_vars

(* The thread keeps running: it is never without a step for ever, and the       *)
(* packets of one buffer, being finite, come to an end.                         *)
LoopFairness == /\ WF_vars(Loop)
                /\ WF_vars(\E req \in ring.pending : KernelOther(req))
FairSpec == Spec /\ LoopFairness

-------------------------------------------------------------------------------
(* Properties.                                                                 *)

(* What the broker and the rings of module Ring hold at any time. *)
Requests == [op : {"ACCEPT", "RECV", "CLOSE", "EGRESS", "SEND_RESP"}, fd : Fds \cup {NoFd},
             slot : Slots \cup {NoSlot}, gen : 0 .. GenMod - 1, buf : Bufs \cup {NoBuf},
             res : {"none", "ok", "error", "data", "end", "done"}]
TypeOK ==
  /\ pc \in Phases
  /\ cur \in Slots \cup {NoSlot}
  /\ processed \in BOOLEAN /\ sweep_due \in BOOLEAN
  /\ ring \in [sq : Seq(Requests), visible : Nat, cq : Seq(Requests), seen : Nat,
               pending : SUBSET Requests, accepts : Nat, open : SUBSET Fds]
  /\ clients \in [Slots -> [state : {"FREE", "ACTIVE", "DORMANT", "CLOSING"},
                            fd : Fds \cup {NoFd}, generation : 0 .. GenMod - 1,
                            recv_pending : BOOLEAN, recv_buf_idx : Bufs \cup {NoBuf},
                            orphaned_recv_buf_idx : Bufs \cup {NoBuf}, full : BOOLEAN,
                            egress_inflight : BOOLEAN]]
  /\ fd_to_slot \in [Fds -> Slots \cup {NoSlot}]
  /\ free_slots \in Seq(Slots)
  /\ recv_free \subseteq Bufs /\ stolen \subseteq Bufs
  /\ recv_retry \in Seq(Slots)
  /\ accept_pending \in Nat

Connected(c) == clients[c].state \in {"ACTIVE", "CLOSING"}
Held(c) == Freed(clients[c].recv_buf_idx) \cup Freed(clients[c].orphaned_recv_buf_idx)

(* Every receive buffer has one owner and one only, through stealing,           *)
(* disconnects and reconnects: the pool, a connection, or messages.  None leaks. *)
BufferOwners ==
  /\ \A c \in Slots : Connected(c) <=> clients[c].recv_buf_idx # NoBuf
  /\ recv_free \cap stolen = {}
  /\ \A c \in Slots : Held(c) \cap (recv_free \cup stolen) = {}
  /\ \A c, d \in Slots : c # d => Held(c) \cap Held(d) = {}
  /\ recv_free \cup stolen \cup UNION {Held(c) : c \in Slots} = Bufs

(* A receive the kernel may still perform writes into the buffer that its own   *)
(* connection owns at that moment, never into one that was given on.            *)
KernelWritesOwned ==
  \A e \in Outstanding("RECV") :
    /\ clients[e.slot].generation = e.gen /\ clients[e.slot].fd = e.fd
    /\ clients[e.slot].recv_buf_idx = e.buf

(* No connection goes deaf and none listens twice: an active one that is not    *)
(* being handled has one receive outstanding or one entry in the retry ring,    *)
(* any other slot has neither.  So the ring cannot overflow.                    *)
Receives(c) == Cardinality({e \in Outstanding("RECV") : e.slot = c})
Retries(c)  == Cardinality({i \in DOMAIN recv_retry : recv_retry[i] = c})
ReceivesExact ==
  \A c \in Slots :
    /\ Receives(c) + Retries(c) =
         IF clients[c].state = "ACTIVE" /\ c # cur THEN 1 ELSE 0
    /\ clients[c].recv_pending <=> Receives(c) = 1

(* A close completion reaches the connection that asked for it, although it      *)
(* names only an fd that may have a new owner; and a connection closes once.    *)
CloseHitsCloser ==
  \A e \in Outstanding("CLOSE") :
    /\ fd_to_slot[e.fd] = e.slot
    /\ clients[e.slot].state = "CLOSING" /\ clients[e.slot].generation = e.gen
    /\ \A d \in Outstanding("CLOSE") : d.slot = e.slot => d = e

(* The fd map is the inverse of the connections' fds, and no fd is open that no  *)
(* connection and no undispatched accept accounts for.                          *)
FdsExact ==
  /\ \A f \in Fds, c \in Slots :
       fd_to_slot[f] = c <=> Connected(c) /\ clients[c].fd = f
  /\ ring.open = {e.fd : e \in {a \in Outstanding("ACCEPT") : a.res = "ok"}}
                   \cup {f \in Fds : /\ fd_to_slot[f] # NoSlot
                                     /\ ~\E e \in ElementsOf(ring.cq) :
                                           e.op = "CLOSE" /\ e.fd = f}

(* The broker blocks only when everything it prepared was submitted. *)
BlockedIdle == pc = "blocked" => ring.sq = << >>

(* A closing connection's slot is eventually given back. *)
ClosingEnds == \A c \in Slots : clients[c].state = "CLOSING" ~> clients[c].state # "CLOSING"

(* A writev that was prepared is eventually submitted. *)
InSq(c) == \E i \in DOMAIN ring.sq : ring.sq[i].op = "EGRESS" /\ ring.sq[i].slot = c
WritevSubmitted == \A c \in Slots : InSq(c) ~> ~InSq(c)

(* "Periodic timeout sweep" (loop.h:984): once due, the sweep runs, unless the   *)
(* broker goes idle; no load, however long, keeps the loop from coming to it.    *)
SweepReached == sweep_due ~> (~sweep_due \/ pc = "blocked")
================================================================================
