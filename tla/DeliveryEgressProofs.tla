------------------------- MODULE DeliveryEgressProofs -------------------------
(***************************************************************************)
(* The egress side of Delivery, for any number of slots and messages: a    *)
(* completion is applied to the segments it is about, an acknowledgement   *)
(* finds its entry, a connection with something to send is not forgotten,  *)
(* and a message is referred to as often as its reference count says.      *)
(***************************************************************************)
EXTENDS DeliveryProofs

(* The requests for the connection that slot c, with record cl, has now.       *)
OpsFor(c, cl, requests) ==
  {op \in requests : op.slot = c /\ op.gen = cl.generation /\ Live(cl)}

(* What WritevMatchesQueue says of one slot. *)
Matches(c, cl, requests) ==
  IF cl.egress_inflight
  THEN \E o \in requests : /\ OpsFor(c, cl, requests) = {o}
                           /\ o.segs = SubSeq(cl.egress, 1, cl.egress_batch_count)
  ELSE OpsFor(c, cl, requests) = {}

(* What RetryFlagSound says of one slot. *)
InQueue(c, gen, queue) == \E i \in DOMAIN queue : queue[i] = <<c, gen>>
Flagged(c, cl, queue) == cl.egress_retry_queued => InQueue(c, cl.generation, queue)

(* No request is of a connection to come, or has more written than it asked for. *)
OpOK(op, cls) == op.gen <= cls[op.slot].generation /\ op.res.done <= Len(op.segs)

SlotOK(c, cl, requests, queue) ==
  RecordOK(cl) /\ Matches(c, cl, requests) /\ Flagged(c, cl, queue)

(* The strengthening of IInv. *)
SlotsOK   == \A c \in Slots : SlotOK(c, clients[c], writevs, flush_queue)
OpsOK     == \A op \in writevs : OpOK(op, clients)
FanoutMsg == fanout.todo # {} => fanout.msg_idx \in Msgs
DueOK     == sweep # NoSweep => sweep.due \cap Tracking(clients[sweep.slot]) = {}
OneLoop   == fanout = NoFanout \/ sweep = NoSweep
LoopsOK   == FanoutMsg /\ DueOK /\ OneLoop
EInv == IInv /\ SlotsOK /\ OpsOK /\ LoopsOK

(* What NoLostWakeup says of one slot, with record cl before a step and new     *)
(* after it.                                                                   *)
Waits(c, cl, queue) ==
  /\ cl.state = "ACTIVE" /\ cl.egress # << >> /\ ~cl.egress_inflight
  /\ ~InQueue(c, cl.generation, queue)
WakesAt(c, cl, new, queue, after) ==
  Waits(c, new, after)
    => \/ Waits(c, cl, queue) \/ FlushQueueFull(queue)
       \/ NeedsId(Head(new.egress)) \/ Bare(Head(new.egress), bare')
Wakes == \A c \in Slots : WakesAt(c, clients[c], clients'[c], flush_queue, flush_queue')

-------------------------------------------------------------------------------
(* What handlers leave of a record.                                            *)

(* cl is old with entries changed and segments added at the end. *)
Kept(old, cl) ==
  /\ cl.state = old.state /\ cl.generation = old.generation
  /\ cl.egress_inflight = old.egress_inflight
  /\ cl.egress_batch_count = old.egress_batch_count
  /\ cl.egress_retry_queued = old.egress_retry_queued
  /\ \A n \in 0 .. Len(old.egress) : SubSeq(cl.egress, 1, n) = SubSeq(old.egress, 1, n)

(* cl is old after its batch was completed. *)
Settled(old, cl) ==
  /\ cl.state = old.state /\ cl.generation = old.generation
  /\ ~cl.egress_inflight
  /\ cl.egress_retry_queued = old.egress_retry_queued

(* A segment added at the end is not in a batch made before. *)
LEMMA AppendPrefix ==
  ASSUME NEW q \in Seq(Segment), NEW seg \in Segment, NEW n \in 0 .. Len(q)
  PROVE  SubSeq(Append(q, seg), 1, n) = SubSeq(q, 1, n)
<1>1. Len(q) \in Nat /\ n \in Nat /\ 1 \in Int /\ n \in Int
  BY LenProperties
<1>2. Append(q, seg) \in Seq(Segment) /\ Len(Append(q, seg)) = Len(q) + 1
      /\ \A i \in 1 .. Len(q) : Append(q, seg)[i] = q[i]
  BY AppendProperties
<1>3. \A i \in 1 .. n : i \in 1 .. Len(q) /\ q[i] \in Segment /\ Append(q, seg)[i] = q[i]
  BY <1>1, <1>2, ElementOfSeq
<1> DEFINE a == SubSeq(Append(q, seg), 1, n)
           b == SubSeq(q, 1, n)
<1>4. /\ a \in Seq(Segment)
      /\ Len(a) = IF 1 <= n THEN n - 1 + 1 ELSE 0
      /\ \A i \in 1 .. n - 1 + 1 : a[i] = Append(q, seg)[1 + i - 1]
  BY <1>1, <1>2, <1>3, SubSeqProperties
<1>5. /\ b \in Seq(Segment)
      /\ Len(b) = IF 1 <= n THEN n - 1 + 1 ELSE 0
      /\ \A i \in 1 .. n - 1 + 1 : b[i] = q[1 + i - 1]
  BY <1>1, <1>3, SubSeqProperties
<1> HIDE DEF a, b
<1>6. Len(a) = n /\ Len(b) = n
  BY <1>1, <1>4, <1>5
<1>7. \A i \in 1 .. n : a[i] = b[i]
  <2> SUFFICES ASSUME NEW i \in 1 .. n PROVE a[i] = b[i]
    OBVIOUS
  <2>1. i \in 1 .. n - 1 + 1 /\ 1 + i - 1 = i
    BY <1>1
  <2>2. a[i] = Append(q, seg)[i] /\ b[i] = q[i]
    BY <1>4, <1>5, <2>1
  <2> QED
    BY <1>3, <2>2
<1>8. a = b
  BY <1>4, <1>5, <1>6, <1>7, SeqEqual
<1> QED
  BY <1>8 DEF a, b

LEMMA PushKept ==
  ASSUME NEW old, NEW cl, RecordOK(cl), Live(cl), ~EgressFull(cl), Kept(old, cl),
         old.egress = cl.egress,
         NEW seg \in Segment, seg.slot_gen = cl.generation, seg.cursor = 0,
         seg.kind = "PUBLISH" => seg.msg_idx \in Msgs /\ (seg.qos = 0 => seg.packet_id = 0)
  PROVE  /\ RecordOK(Push(cl, seg)) /\ Kept(old, Push(cl, seg))
         /\ \A m : Owned(Push(cl, seg), m)
                     = Owned(cl, m) + (IF OwnsRef(seg) /\ seg.msg_idx = m THEN 1 ELSE 0)
<1>1. LET new == Push(cl, seg)
      IN  /\ RecordOK(new)
          /\ new.state = cl.state /\ new.generation = cl.generation
          /\ new.egress = Append(cl.egress, seg)
          /\ new.egress_inflight = cl.egress_inflight
          /\ new.egress_batch_count = cl.egress_batch_count
          /\ new.egress_retry_queued = cl.egress_retry_queued
          /\ \A m : Owned(new, m) = Owned(cl, m)
                      + (IF OwnsRef(seg) /\ seg.msg_idx = m THEN 1 ELSE 0)
  BY PushRecord
<1>2. cl.egress \in Seq(Segment)
  BY DEF RecordOK, ClientOK, Client
<1>3. Kept(old, Push(cl, seg))
  BY <1>1, <1>2, AppendPrefix DEF Kept
<1> QED
  BY <1>1, <1>3

(* What a flush leaves in the slot, in the retry queue and with the kernel.    *)
FlushLeaves(c, cl, queue, requests, new) ==
  \/ /\ FlushNoop(cl, bare) /\ new = cl
     /\ flush_queue' = queue /\ writevs' = requests
  \/ /\ ~FlushNoop(cl, bare) /\ ~cl.egress_inflight /\ new.egress_inflight
     /\ new.egress_retry_queued = cl.egress_retry_queued
     /\ new.egress_batch_count \in 1 .. Len(new.egress)
     /\ flush_queue' = queue
     /\ writevs' = requests \cup {[slot |-> c, gen |-> new.generation, res |-> Busy,
                                   segs |-> SubSeq(new.egress, 1, new.egress_batch_count)]}
  \/ /\ ~FlushNoop(cl, bare) /\ ~cl.egress_inflight /\ ~new.egress_inflight
     /\ new.egress_retry_queued = (cl.egress_retry_queued \/ CanEnqueue(cl, queue))
     /\ flush_queue' = IF CanEnqueue(cl, queue) THEN Append(queue, <<c, new.generation>>)
                                                ELSE queue
     /\ writevs' = requests

LEMMA FlushRecord ==
  ASSUME NEW c, NEW cl, RecordOK(cl), NEW queue, NEW requests,
         FlushInto(c, cl, queue, requests)
  PROVE  \E new : /\ clients' = [clients EXCEPT ![c] = new]
                  /\ RecordOK(new)
                  /\ new.state = cl.state /\ new.generation = cl.generation
                  /\ Tracking(new) = Tracking(cl)
                  /\ \A m : Owned(new, m) = Owned(cl, m)
                  /\ FlushLeaves(c, cl, queue, requests, new)
<1>1. CASE /\ FlushNoop(cl, bare)
           /\ clients' = [clients EXCEPT ![c] = cl]
           /\ flush_queue' = queue
           /\ writevs' = requests
  BY <1>1 DEF FlushLeaves
<1>2. ASSUME ~FlushNoop(cl, bare),
             clients' = [clients EXCEPT ![c] = Submit(cl, bare)],
             flush_queue' = queue,
             writevs' = requests \cup {[slot |-> c, gen |-> cl.generation, res |-> Busy,
                                   segs |-> SubSeq(Assign(cl, bare).egress, 1, BatchLen(cl, bare))]}
      PROVE  \E new : /\ clients' = [clients EXCEPT ![c] = new]
                      /\ RecordOK(new)
                      /\ new.state = cl.state /\ new.generation = cl.generation
                      /\ Tracking(new) = Tracking(cl)
                      /\ \A m : Owned(new, m) = Owned(cl, m)
                      /\ FlushLeaves(c, cl, queue, requests, new)
  <2> DEFINE new == Submit(cl, bare)
  <2>1. /\ RecordOK(new)
        /\ new.state = cl.state /\ new.generation = cl.generation
        /\ new.egress_inflight
        /\ new.egress_batch_count = BatchLen(cl, bare)
        /\ new.egress = Assign(cl, bare).egress
        /\ new.egress_retry_queued = cl.egress_retry_queued
        /\ Tracking(new) = Tracking(cl)
        /\ \A m : Owned(new, m) = Owned(cl, m)
    BY <1>2, SubmitRecord
  <2> HIDE DEF new
  <2>2. ~cl.egress_inflight
    BY <1>2 DEF FlushNoop
  <2>3. new.egress_batch_count \in 1 .. Len(new.egress)
    BY <2>1 DEF RecordOK, BatchOK
  <2>4. FlushLeaves(c, cl, queue, requests, new)
    BY <1>2, <2>1, <2>2, <2>3 DEF FlushLeaves
  <2> QED
    BY <1>2, <2>1, <2>4 DEF new
<1>3. ASSUME ~FlushNoop(cl, bare),
             clients' = [clients EXCEPT ![c] = Enqueued(Assign(cl, bare), queue)],
             flush_queue' = Enqueue(c, cl, queue),
             writevs' = requests
      PROVE  \E new : /\ clients' = [clients EXCEPT ![c] = new]
                      /\ RecordOK(new)
                      /\ new.state = cl.state /\ new.generation = cl.generation
                      /\ Tracking(new) = Tracking(cl)
                      /\ \A m : Owned(new, m) = Owned(cl, m)
                      /\ FlushLeaves(c, cl, queue, requests, new)
  <2> DEFINE a == Assign(cl, bare)
             new == Enqueued(a, queue)
  <2>1. Live(cl) /\ ~cl.egress_inflight
    BY <1>3 DEF FlushNoop, Live
  <2>2. /\ RecordOK(a) /\ a.state = cl.state /\ a.generation = cl.generation
        /\ ~a.egress_inflight
        /\ a.egress_retry_queued = cl.egress_retry_queued
        /\ Tracking(a) = Tracking(cl)
        /\ \A m : Owned(a, m) = Owned(cl, m)
    BY <2>1, AssignRecord
  <2> HIDE DEF a
  <2>3. CanEnqueue(a, queue) = CanEnqueue(cl, queue)
    BY <2>2 DEF CanEnqueue
  <2>4. a \in Client /\ (a.egress_retry_queued \/ CanEnqueue(a, queue)) \in BOOLEAN
    BY <2>2 DEF CanEnqueue, RecordOK, ClientOK, Client
  <2>5. /\ new \in Client /\ new.egress = a.egress /\ new.inflight = a.inflight
        /\ new.inflight_count = a.inflight_count
        /\ new.state = a.state /\ new.generation = a.generation
        /\ new.egress_inflight = a.egress_inflight
        /\ new.egress_batch_count = a.egress_batch_count
        /\ new.egress_retry_queued = (a.egress_retry_queued \/ CanEnqueue(a, queue))
    BY <2>4 DEF Enqueued, Client
  <2> HIDE DEF new
  <2>6. RecordOK(new) /\ Tracking(new) = Tracking(a) /\ \A m : Owned(new, m) = Owned(a, m)
    BY <2>2, <2>5, SameRecord
  <2>7. FlushLeaves(c, cl, queue, requests, new)
    BY <1>3, <2>1, <2>2, <2>3, <2>5 DEF FlushLeaves, Enqueue
  <2> QED
    BY <1>3, <2>2, <2>5, <2>6, <2>7 DEF new, a
<1> QED
  BY <1>1, <1>2, <1>3 DEF FlushInto

-------------------------------------------------------------------------------
(* One slot changes, and the others stay as they are.                          *)

(* Requests of other slots do not matter to a slot, nor does what another slot *)
(* adds to the retry queue.                                                    *)
LEMMA OthersOK ==
  ASSUME NEW d \in Slots, NEW cl, NEW requests, NEW after,
         \A op : op.slot = d => (op \in after <=> op \in requests),
         Matches(d, cl, requests)
  PROVE  Matches(d, cl, after)
<1>1. OpsFor(d, cl, after) = OpsFor(d, cl, requests)
  BY DEF OpsFor
<1>2. ASSUME NEW o \in requests, OpsFor(d, cl, requests) = {o}
      PROVE  o \in after
  BY <1>2 DEF OpsFor
<1> QED
  BY <1>1, <1>2 DEF Matches

(* The records, the requests and the retry queue after one slot has changed.   *)
LEMMA OneSlot ==
  ASSUME EInv, IInv', NEW c \in Slots, NEW new,
         clients' = [clients EXCEPT ![c] = new],
         SlotOK(c, new, writevs', flush_queue'),
         clients[c].generation <= new.generation,
         \A op : op.slot # c => (op \in writevs' <=> op \in writevs),
         \A op \in writevs' : OpOK(op, clients'),
         \A d \in Slots \ {c} : InQueue(d, clients[d].generation, flush_queue)
                                  => InQueue(d, clients[d].generation, flush_queue'),
         WakesAt(c, clients[c], new, flush_queue, flush_queue'),
         LoopsOK'
  PROVE  EInv' /\ Wakes
<1>1. clients'[c] = new /\ \A d \in Slots \ {c} : clients'[d] = clients[d]
  BY DEF EInv, IInv, TypeOK
<1>2. ASSUME NEW d \in Slots \ {c}
      PROVE  SlotOK(d, clients[d], writevs', flush_queue')
  <2>1. SlotOK(d, clients[d], writevs, flush_queue)
    BY DEF EInv, SlotsOK
  <2>2. Matches(d, clients[d], writevs')
    <3>1. \A op : op.slot = d => (op \in writevs' <=> op \in writevs)
      OBVIOUS
    <3> QED
      BY <2>1, <3>1, OthersOK DEF SlotOK
  <2>3. Flagged(d, clients[d], flush_queue')
    BY <2>1 DEF SlotOK, Flagged
  <2> QED
    BY <2>1, <2>2, <2>3 DEF SlotOK
<1>3. SlotsOK'
  BY <1>1, <1>2 DEF SlotsOK
<1>4. OpsOK'
  BY DEF OpsOK
<1>5. Wakes
  <2>1. \A d \in Slots \ {c} :
          WakesAt(d, clients[d], clients'[d], flush_queue, flush_queue')
    BY <1>1 DEF WakesAt, Waits
  <2> QED
    BY <1>1, <2>1 DEF Wakes
<1> QED
  BY <1>3, <1>4, <1>5 DEF EInv

(* A flush that finds nothing to send has a head that waits for an entry, or   *)
(* one without a buffer.                                                       *)
LEMMA NoopHead ==
  ASSUME NEW cl, RecordOK(cl), cl.egress # << >>, BatchLen(cl, bare) = 0
  PROVE  NeedsId(Head(cl.egress)) \/ Bare(Head(cl.egress), bare)
<1>1. cl.egress \in Seq(Segment) /\ Len(cl.egress) \in Nat /\ Len(cl.egress) >= 1
      /\ Head(cl.egress) = cl.egress[1] /\ DOMAIN cl.egress = 1 .. Len(cl.egress)
  BY LenProperties, HeadTailProperties, EmptySeq DEF RecordOK, ClientOK, Client
<1>2. SUFFICES ASSUME ~NeedsId(cl.egress[1]), ~Bare(cl.egress[1], bare) PROVE FALSE
  BY <1>1
<1>3. NeedsIdUpTo(cl, 1) = {}
  BY <1>2 DEF NeedsIdUpTo
<1>4. cl.inflight_count \in Nat /\ cl.inflight_count <= MaxInflight /\ MaxInflight \in Nat
  <2>1. cl.inflight_count = Cardinality(Used(cl)) /\ Used(cl) \in SUBSET InflightIdx
    BY DEF RecordOK, ClientOK, Counted, Used
  <2> QED
    BY <2>1, TableFinite
<1>5. 1 \in Batches(cl, bare)
  <2>1. Cardinality(NeedsIdUpTo(cl, 1)) = 0 /\ 0 <= MaxInflight - cl.inflight_count
    <3>1. Cardinality(NeedsIdUpTo(cl, 1)) = 0
      BY <1>3, FS_EmptySet
    <3>2. 0 <= MaxInflight - cl.inflight_count
      BY <1>4
    <3> QED
      BY <3>1, <3>2
  <2>2. /\ 1 \in 0 .. Len(cl.egress) /\ 1 <= BatchMax /\ 2..1 = {}
        /\ \A i \in 1..1 : ~Bare(cl.egress[i], bare)
    BY <1>1, <1>2, EgressAssumption
  <2> QED
    BY <2>1, <2>2 DEF Batches
<1>6. 1 <= BatchLen(cl, bare)
  <2>1. Batches(cl, bare) \subseteq Int /\ IsFiniteSet(Batches(cl, bare))
    <3>1. Batches(cl, bare) \subseteq 0 .. Len(cl.egress)
      BY DEF Batches
    <3>2. 0 \in Int /\ Len(cl.egress) \in Int
      BY <1>1
    <3>3. IsFiniteSet(0 .. Len(cl.egress))
      BY <3>2, FS_Interval
    <3>4. IsFiniteSet(Batches(cl, bare))
      BY <3>1, <3>3, FS_Subset
    <3>5. 0 .. Len(cl.egress) \subseteq Int
      BY <3>2
    <3> QED
      BY <3>1, <3>4, <3>5
  <2>2. \E n \in Batches(cl, bare) : \A k \in Batches(cl, bare) : k <= n
    BY <1>5, <2>1, LargestLemma
  <2> QED
    BY <1>5, <2>2 DEF BatchLen
<1> QED
  BY <1>6

(* A handler that ends in a flush.                                             *)
LEMMA FlushSlot ==
  ASSUME EInv, IInv', NEW c \in Slots, NEW cl, RecordOK(cl),
         cl.state = clients[c].state, cl.generation = clients[c].generation,
         NEW queue \in Queues, NEW requests \in SUBSET writevs,
         \A op \in writevs : op.slot # c => op \in requests,
         Matches(c, cl, requests), Flagged(c, cl, queue),
         \A d \in Slots \ {c} : InQueue(d, clients[d].generation, flush_queue)
                                  => InQueue(d, clients[d].generation, queue),
         FlushQueueFull(queue) => FlushQueueFull(flush_queue),
         FlushInto(c, cl, queue, requests),
         LoopsOK', UNCHANGED bare
  PROVE  EInv' /\ Wakes
<1>1. PICK new : /\ clients' = [clients EXCEPT ![c] = new]
                 /\ RecordOK(new)
                 /\ new.state = cl.state /\ new.generation = cl.generation
                 /\ FlushLeaves(c, cl, queue, requests, new)
  BY FlushRecord
<1>2. /\ clients[c].generation <= new.generation /\ new.generation <= new.generation
      /\ Live(new) = Live(cl)
  <2>1. new.generation \in Int /\ new.generation = clients[c].generation
    BY <1>1 DEF RecordOK, ClientOK, Client, Generations
  <2> QED
    BY <1>1, <2>1 DEF Live
<1>3. /\ clients'[c] = new /\ \A d \in Slots \ {c} : clients'[d] = clients[d]
      /\ \A d \in Slots : clients'[d].generation = clients[d].generation
  BY <1>1 DEF EInv, IInv, TypeOK
<1>4. \A op \in requests : OpOK(op, clients')
  <2>1. \A op \in requests : op \in Requests /\ op.slot \in Slots
    BY DEF EInv, IInv, TypeOK, Requests
  <2> QED
    BY <1>3, <2>1 DEF EInv, OpsOK, OpOK
<1>5. CASE FlushNoop(cl, bare) /\ new = cl /\ flush_queue' = queue /\ writevs' = requests
  <2>1. SlotOK(c, new, writevs', flush_queue')
    BY <1>5 DEF SlotOK
  <2>2. WakesAt(c, clients[c], new, flush_queue, flush_queue')
    BY <1>5, NoopHead DEF WakesAt, Waits, FlushNoop
  <2> QED
    BY <1>1, <1>2, <1>4, <1>5, <2>1, <2>2, OneSlot
<1>6. ASSUME ~cl.egress_inflight, new.egress_inflight,
             new.egress_retry_queued = cl.egress_retry_queued,
             flush_queue' = queue,
             writevs' = requests \cup {[slot |-> c, gen |-> new.generation, res |-> Busy,
                                   segs |-> SubSeq(new.egress, 1, new.egress_batch_count)]}
      PROVE  EInv' /\ Wakes
  <2> DEFINE o == [slot |-> c, gen |-> new.generation, res |-> Busy,
                   segs |-> SubSeq(new.egress, 1, new.egress_batch_count)]
  <2>1. o.slot = c /\ o.gen = new.generation /\ o.res.done = 0
        /\ o.segs = SubSeq(new.egress, 1, new.egress_batch_count)
    BY DEF Busy
  <2>2. OpsFor(c, cl, requests) = {}
    BY <1>6 DEF Matches
  <2>3. Live(new)
    BY <1>1, <1>6 DEF RecordOK, BatchOK
  <2>4. o \in writevs' /\ o \in Requests
    BY <1>6 DEF IInv, TypeOK, Requests
  <2>5. Len(o.segs) \in Nat
    BY <2>4, LenProperties DEF Requests
  <2> HIDE DEF o
  <2>6. OpsFor(c, new, writevs') = {o}
    BY <1>1, <1>2, <1>6, <2>1, <2>2, <2>3 DEF OpsFor, o
  <2>7. Matches(c, new, writevs')
    BY <1>6, <2>1, <2>4, <2>6 DEF Matches
  <2>8. Flagged(c, new, flush_queue')
    BY <1>1, <1>6 DEF Flagged
  <2>9. OpOK(o, clients')
    <3>1. o.gen <= clients'[o.slot].generation
      BY <1>2, <1>3, <2>1
    <3>2. o.res.done <= Len(o.segs)
      <4>1. 0 <= Len(o.segs)
        BY <2>5
      <4>2. o.res.done = 0
        BY <2>1
      <4> QED
        BY <4>1, <4>2
    <3> QED
      BY <3>1, <3>2 DEF OpOK
  <2>10. \A op \in writevs' : OpOK(op, clients')
    BY <1>4, <1>6, <2>9 DEF o
  <2>11. \A op : op.slot # c => (op \in writevs' <=> op \in writevs)
    BY <1>6, <2>1 DEF o
  <2>12. WakesAt(c, clients[c], new, flush_queue, flush_queue')
    BY <1>6 DEF WakesAt, Waits
  <2> QED
    BY <1>1, <1>2, <1>6, <2>7, <2>8, <2>10, <2>11, <2>12, OneSlot DEF SlotOK
<1>7. ASSUME ~cl.egress_inflight, ~new.egress_inflight,
             new.egress_retry_queued = (cl.egress_retry_queued \/ CanEnqueue(cl, queue)),
             flush_queue' = IF CanEnqueue(cl, queue) THEN Append(queue, <<c, new.generation>>)
                                                     ELSE queue,
             writevs' = requests
      PROVE  EInv' /\ Wakes
  <2>1. Len(queue) \in Nat /\ DOMAIN queue = 1 .. Len(queue)
    BY LenProperties DEF Queues
  <2>2. <<c, new.generation>> \in Slots \X Generations
    BY <1>1 DEF RecordOK, ClientOK, Client
  <2>3. ASSUME NEW d, NEW g, InQueue(d, g, queue)
        PROVE  InQueue(d, g, flush_queue')
    <3>1. CASE CanEnqueue(cl, queue)
      <4>1. /\ flush_queue' = Append(queue, <<c, new.generation>>)
            /\ DOMAIN flush_queue' = 1 .. Len(queue) + 1
            /\ \A i \in 1 .. Len(queue) : flush_queue'[i] = queue[i]
        BY <1>7, <2>2, <3>1, AppendProperties DEF Queues
      <4> QED
        BY <2>1, <2>3, <4>1 DEF InQueue
    <3>2. CASE ~CanEnqueue(cl, queue)
      BY <1>7, <2>3, <3>2
    <3> QED
      BY <3>1, <3>2
  <2>4. Flagged(c, new, flush_queue')
    <3>1. CASE CanEnqueue(cl, queue)
      <4>1. /\ flush_queue' = Append(queue, <<c, new.generation>>)
            /\ DOMAIN flush_queue' = 1 .. Len(queue) + 1
            /\ flush_queue'[Len(queue) + 1] = <<c, new.generation>>
        BY <1>7, <2>2, <3>1, AppendProperties DEF Queues
      <4> QED
        BY <2>1, <4>1 DEF Flagged, InQueue
    <3>2. CASE ~CanEnqueue(cl, queue)
      BY <1>1, <1>7, <2>3, <3>2 DEF Flagged
    <3> QED
      BY <3>1, <3>2
  <2>5. Matches(c, new, writevs')
    BY <1>1, <1>2, <1>7 DEF Matches, OpsFor
  <2>6. SlotOK(c, new, writevs', flush_queue')
    BY <1>1, <2>4, <2>5 DEF SlotOK
  <2>7. WakesAt(c, clients[c], new, flush_queue, flush_queue')
    BY <1>7, <2>4 DEF WakesAt, Waits, Flagged, CanEnqueue
  <2> QED
    BY <1>1, <1>2, <1>4, <1>7, <2>3, <2>6, <2>7, OneSlot
<1> QED
  BY <1>1, <1>5, <1>6, <1>7 DEF FlushLeaves

(* The record a handler keeps still matches the requests and the retry queue.  *)
LEMMA KeptSlot ==
  ASSUME EInv, NEW c \in Slots, NEW cl, Kept(clients[c], cl)
  PROVE  Matches(c, cl, writevs) /\ Flagged(c, cl, flush_queue)
<1>1. /\ RecordOK(clients[c]) /\ Matches(c, clients[c], writevs)
      /\ Flagged(c, clients[c], flush_queue)
  BY DEF EInv, SlotsOK, SlotOK
<1>2. OpsFor(c, cl, writevs) = OpsFor(c, clients[c], writevs)
  BY DEF Kept, OpsFor, Live
<1>3. CASE cl.egress_inflight
  <2>1. clients[c].egress_inflight /\ cl.egress_batch_count = clients[c].egress_batch_count
    BY <1>3 DEF Kept
  <2>2. clients[c].egress_batch_count \in 0 .. Len(clients[c].egress)
    BY <1>1, <2>1 DEF RecordOK, BatchOK
  <2>3. SubSeq(cl.egress, 1, cl.egress_batch_count)
          = SubSeq(clients[c].egress, 1, clients[c].egress_batch_count)
    BY <2>1, <2>2 DEF Kept
  <2> QED
    BY <1>1, <1>2, <1>3, <2>1, <2>3 DEF Matches, Flagged, Kept
<1>4. CASE ~cl.egress_inflight
  BY <1>1, <1>2, <1>4 DEF Matches, Flagged, Kept
<1> QED
  BY <1>3, <1>4

LEMMA KeptFlush ==
  ASSUME EInv, IInv', NEW c \in Slots, NEW cl, RecordOK(cl), Kept(clients[c], cl),
         FlushInto(c, cl, flush_queue, writevs), LoopsOK', UNCHANGED bare
  PROVE  EInv' /\ Wakes
<1>1. Matches(c, cl, writevs) /\ Flagged(c, cl, flush_queue)
  BY KeptSlot
<1>2. cl.state = clients[c].state /\ cl.generation = clients[c].generation
  BY DEF Kept
<1>3. flush_queue \in Queues
  BY DEF EInv, IInv, TypeOK, Queues
<1> QED
  BY <1>1, <1>2, <1>3, FlushSlot

LEMMA KeptUpdate ==
  ASSUME EInv, IInv', NEW c \in Slots, NEW cl, RecordOK(cl), Kept(clients[c], cl),
         cl.egress = clients[c].egress,
         clients' = [clients EXCEPT ![c] = cl], UNCHANGED <<flush_queue, writevs>>, LoopsOK'
  PROVE  EInv' /\ Wakes
<1>1. Matches(c, cl, writevs') /\ Flagged(c, cl, flush_queue')
  BY KeptSlot
<1>2. clients[c].generation <= cl.generation
      /\ \A d \in Slots : clients'[d].generation = clients[d].generation
  <2>1. cl.generation \in Int /\ cl.generation = clients[c].generation
    BY DEF Kept, RecordOK, ClientOK, Client, Generations
  <2>2. clients'[c] = cl /\ \A d \in Slots \ {c} : clients'[d] = clients[d]
    BY DEF EInv, IInv, TypeOK
  <2> QED
    BY <2>1, <2>2
<1>3. \A op \in writevs' : OpOK(op, clients')
  <2>1. \A op \in writevs : op.slot \in Slots
    BY DEF EInv, IInv, TypeOK
  <2> QED
    BY <1>2, <2>1 DEF EInv, OpsOK, OpOK
<1>4. WakesAt(c, clients[c], cl, flush_queue, flush_queue')
  BY DEF WakesAt, Waits, Kept
<1> QED
  BY <1>1, <1>2, <1>3, <1>4, OneSlot DEF SlotOK

(* A request that is current is the only one of its slot.                      *)
LEMMA CurrentOp ==
  ASSUME EInv, NEW op \in writevs, Current(op)
  PROVE  /\ op.slot \in Slots /\ clients[op.slot].egress_inflight
         /\ OpsFor(op.slot, clients[op.slot], writevs) = {op}
         /\ op.segs = SubSeq(clients[op.slot].egress, 1, clients[op.slot].egress_batch_count)
<1>1. op.slot \in Slots
  BY DEF EInv, IInv, TypeOK
<1>2. op \in OpsFor(op.slot, clients[op.slot], writevs)
  BY DEF Current, Connected, OpsFor, Live
<1>3. Matches(op.slot, clients[op.slot], writevs)
  BY <1>1 DEF EInv, SlotsOK, SlotOK
<1> QED
  BY <1>1, <1>2, <1>3 DEF Matches

LEMMA SettledFlush ==
  ASSUME EInv, IInv', NEW op \in writevs, Current(op), NEW cl, RecordOK(cl),
         Settled(clients[op.slot], cl),
         FlushInto(op.slot, cl, flush_queue, writevs \ {op}), LoopsOK',
         UNCHANGED bare
  PROVE  EInv' /\ Wakes
<1> DEFINE c == op.slot
<1>1. c \in Slots /\ OpsFor(c, clients[c], writevs) = {op}
  BY CurrentOp
<1>2. Matches(c, cl, writevs \ {op})
  <2>1. OpsFor(c, cl, writevs \ {op}) = {}
    BY <1>1 DEF OpsFor, Settled, Live
  <2> QED
    BY <2>1 DEF Matches, Settled
<1>3. Flagged(c, cl, flush_queue)
  BY <1>1 DEF EInv, SlotsOK, SlotOK, Flagged, Settled
<1>4. flush_queue \in Queues /\ cl.state = clients[c].state
      /\ cl.generation = clients[c].generation
  BY DEF EInv, IInv, TypeOK, Queues, Settled
<1>5. writevs \ {op} \in SUBSET writevs
      /\ \A o \in writevs : o.slot # c => o \in writevs \ {op}
  OBVIOUS
<1> QED
  BY <1>1, <1>2, <1>3, <1>4, <1>5, FlushSlot

-------------------------------------------------------------------------------
(* What the handlers do to a record.                                           *)

(* Freeing an entry keeps everything else. *)
LEMMA FreeSlotKept ==
  ASSUME NEW cl, RecordOK(cl), Live(cl), NEW s \in Used(cl)
  PROVE  /\ RecordOK(FreeSlot(cl, s)) /\ Kept(cl, FreeSlot(cl, s))
         /\ FreeSlot(cl, s).egress = cl.egress
         /\ Tracking(FreeSlot(cl, s)) \subseteq Tracking(cl)
         /\ \A m \in Msgs : Owned(FreeSlot(cl, s), m)
                              = Owned(cl, m) - (IF cl.inflight[s].msg_idx = m THEN 1 ELSE 0)
BY FreeSlotRecord DEF Kept

LEMMA TrackedKept ==
  ASSUME NEW cl, RecordOK(cl), NEW qos, NEW id \in PacketIds
  PROVE  /\ RecordOK(Tracked(cl, qos, id)) /\ Kept(cl, Tracked(cl, qos, id))
         /\ Tracked(cl, qos, id).egress = cl.egress
         /\ \A m : Owned(Tracked(cl, qos, id), m) = Owned(cl, m)
BY TrackIncomingRecord DEF Kept, Tracked

(* enqueue_pubrel owns no reference. *)
LEMMA WithPubrelKept ==
  ASSUME NEW old, NEW cl, RecordOK(cl), Live(cl), Kept(old, cl), old.egress = cl.egress
  PROVE  /\ RecordOK(WithPubrel(cl)) /\ Kept(old, WithPubrel(cl))
         /\ \A m : Owned(WithPubrel(cl), m) = Owned(cl, m)
<1>1. CASE EgressFull(cl)
  BY <1>1 DEF WithPubrel
<1>2. CASE ~EgressFull(cl)
  <2>1. CtrlSeg(cl) \in Segment /\ CtrlSeg(cl).slot_gen = cl.generation
        /\ CtrlSeg(cl).cursor = 0 /\ CtrlSeg(cl).kind = "CTRL" /\ ~OwnsRef(CtrlSeg(cl))
    BY InflightAssumption DEF CtrlSeg, Segment, PacketIds, RecordOK, ClientOK, Client, OwnsRef
  <2> DEFINE seg == CtrlSeg(cl)
  <2> HIDE DEF seg
  <2>2. /\ RecordOK(Push(cl, seg)) /\ Kept(old, Push(cl, seg))
        /\ \A m : Owned(Push(cl, seg), m)
                    = Owned(cl, m) + (IF OwnsRef(seg) /\ seg.msg_idx = m THEN 1 ELSE 0)
    BY <1>2, <2>1, PushKept DEF seg
  <2>3. \A m : Owned(cl, m) \in Nat
    BY OwnedNat DEF RecordOK
  <2>4. \A m : Owned(Push(cl, seg), m) = Owned(cl, m)
    BY <2>1, <2>2, <2>3 DEF seg
  <2> QED
    BY <1>2, <2>2, <2>4 DEF WithPubrel, seg
<1> QED
  BY <1>1, <1>2

(* A message forwarded to a subscriber is owned by its queue.                  *)
LEMMA ForwardKept ==
  ASSUME NEW cl, RecordOK(cl), Live(cl), ~EgressFull(cl), NEW m \in Msgs, NEW qos \in 0..2
  PROVE  LET new == Push(cl, PublishSeg(cl, m, qos, 0, FALSE))
         IN  /\ RecordOK(new) /\ Kept(cl, new)
             /\ \A x : Owned(new, x) = Owned(cl, x) + (IF x = m THEN 1 ELSE 0)
<1> DEFINE seg == PublishSeg(cl, m, qos, 0, FALSE)
<1>1. /\ seg \in Segment /\ seg.slot_gen = cl.generation /\ seg.cursor = 0
      /\ seg.msg_idx = m /\ seg.packet_id = 0 /\ OwnsRef(seg)
  BY InflightAssumption DEF PublishSeg, Segment, PacketIds, RecordOK, ClientOK, Client, OwnsRef
<1> HIDE DEF seg
<1>2. Kept(cl, cl)
  BY DEF Kept
<1>3. /\ RecordOK(Push(cl, seg)) /\ Kept(cl, Push(cl, seg))
      /\ \A x : Owned(Push(cl, seg), x)
                  = Owned(cl, x) + (IF OwnsRef(seg) /\ seg.msg_idx = x THEN 1 ELSE 0)
  BY <1>1, <1>2, PushKept
<1>4. \A x : Owned(Push(cl, seg), x) = Owned(cl, x) + (IF x = m THEN 1 ELSE 0)
  BY <1>1, <1>3
<1> QED
  BY <1>3, <1>4 DEF seg

(* A retransmission has the packet id of its entry, which owns the reference.  *)
LEMMA TimeoutKept ==
  ASSUME NEW cl, RecordOK(cl), Live(cl), ~EgressFull(cl), NEW s \in Outgoing(cl)
  PROVE  LET entry == cl.inflight[s]
             retry == [cl EXCEPT !.inflight[s].dup_count = @ + 1]
             new == Push(retry, PublishSeg(cl, entry.msg_idx, entry.qos, entry.packet_id, TRUE))
         IN  /\ RecordOK(new) /\ Kept(cl, new)
             /\ Tracking(new) = Tracking(cl)
             /\ \A m : Owned(new, m) = Owned(cl, m)
<1> DEFINE entry == cl.inflight[s]
           retry == [cl EXCEPT !.inflight[s].dup_count = @ + 1]
           seg == PublishSeg(cl, entry.msg_idx, entry.qos, entry.packet_id, TRUE)
<1>1. s \in Used(cl) /\ s \in InflightIdx /\ entry \in Entry
      /\ entry.msg_idx \in Msgs /\ entry.qos > 0 /\ entry.packet_id # 0
  BY DEF Outgoing, Used, RecordOK, ClientOK, Client, TableOK
<1>2. /\ RecordOK(retry)
      /\ retry.egress = cl.egress /\ retry.state = cl.state
      /\ retry.generation = cl.generation
      /\ retry.egress_inflight = cl.egress_inflight
      /\ retry.egress_batch_count = cl.egress_batch_count
      /\ retry.egress_retry_queued = cl.egress_retry_queued
      /\ Tracking(retry) = Tracking(cl)
      /\ \A m : Owned(retry, m) = Owned(cl, m)
  BY <1>1, RetryRecord
<1>3. /\ seg \in Segment /\ seg.slot_gen = cl.generation /\ seg.cursor = 0
      /\ seg.msg_idx \in Msgs /\ seg.qos # 0 /\ ~OwnsRef(seg)
  BY <1>1 DEF PublishSeg, Segment, RecordOK, ClientOK, Client, Entry, OwnsRef
<1> HIDE DEF seg, retry
<1>4. Live(retry) /\ ~EgressFull(retry) /\ Kept(cl, retry)
  BY <1>2 DEF Live, EgressFull, Kept
<1>5. /\ RecordOK(Push(retry, seg)) /\ Kept(cl, Push(retry, seg))
      /\ \A m : Owned(Push(retry, seg), m)
                  = Owned(retry, m) + (IF OwnsRef(seg) /\ seg.msg_idx = m THEN 1 ELSE 0)
  BY <1>2, <1>3, <1>4, PushKept
<1>6. \A m : Owned(Push(retry, seg), m) = Owned(cl, m)
  <2>1. \A m : Owned(retry, m) \in Nat
    BY <1>2, OwnedNat DEF RecordOK
  <2> QED
    BY <1>2, <1>3, <1>5, <2>1
<1>7. Tracking(Push(retry, seg)) = Tracking(cl)
  <2>1. Push(retry, seg).inflight = retry.inflight
    BY <1>2 DEF Push, RecordOK, ClientOK, Client
  <2>2. Tracking(Push(retry, seg)) = Tracking(retry)
    BY <2>1 DEF Tracking, Outgoing, Used
  <2> QED
    BY <1>2, <2>2
<1> QED
  BY <1>5, <1>6, <1>7 DEF seg, retry

(* A completion ends the batch, and leaves the queue and the table for now.    *)
LEMMA CompletedRecord ==
  ASSUME EInv, NEW c \in Slots
  PROVE  /\ RecordOK(Completed(c)) /\ Settled(clients[c], Completed(c))
         /\ Completed(c).egress = clients[c].egress
         /\ Completed(c).egress_batch_count = clients[c].egress_batch_count
         /\ Tracking(Completed(c)) = Tracking(clients[c])
         /\ \A m : Owned(Completed(c), m) = Owned(clients[c], m)
<1> DEFINE new == Completed(c)
           cl == clients[c]
<1>1. cl \in Client /\ RecordOK(cl)
  BY DEF EInv, IInv, TypeOK, SlotsOK, SlotOK
<1>2. /\ new \in Client /\ new.egress = cl.egress
      /\ new.inflight = cl.inflight /\ new.inflight_count = cl.inflight_count
      /\ new.state = cl.state /\ new.generation = cl.generation
      /\ ~new.egress_inflight
      /\ new.egress_batch_count = cl.egress_batch_count
      /\ new.egress_retry_queued = cl.egress_retry_queued
  BY <1>1 DEF Completed, Client
<1> HIDE DEF new
<1>3. RecordOK(new) /\ Tracking(new) = Tracking(cl) /\ \A m : Owned(new, m) = Owned(cl, m)
  BY <1>1, <1>2, SameRecord
<1> QED
  BY <1>2, <1>3 DEF Settled, new

(* The head cursor moves: nothing else does.                                   *)
LEMMA ResumedRecord ==
  ASSUME NEW cl, RecordOK(cl), ~cl.egress_inflight, NEW part \in BOOLEAN,
         \A i \in DOMAIN cl.egress : i > 1 => cl.egress[i].cursor = 0
  PROVE  LET new == Resumed(cl, part)
         IN  /\ RecordOK(new) /\ Settled(cl, new)
             /\ \A m : Owned(new, m) = Owned(cl, m)
<1> DEFINE new == Resumed(cl, part)
<1>1. ClientOK(new) /\ new.state = cl.state
  BY ResumedOK DEF RecordOK
<1>2. CASE ~part
  BY <1>2, <1>1 DEF Resumed, Settled
<1>3. CASE part
  <2>1. /\ new = [cl EXCEPT !.egress[1].cursor = 1]
        /\ cl \in Client /\ cl.egress \in Seq(Segment)
        /\ DOMAIN cl.egress = 1 .. Len(cl.egress)
        /\ \A i \in 1 .. Len(cl.egress) : cl.egress[i] \in Segment
    BY <1>3, LenProperties, ElementOfSeq DEF Resumed, RecordOK, ClientOK, Client
  <2>2. /\ new.egress = [cl.egress EXCEPT ![1].cursor = 1]
        /\ new.inflight = cl.inflight
        /\ new.generation = cl.generation
        /\ ~new.egress_inflight
        /\ new.egress_retry_queued = cl.egress_retry_queued
    BY <2>1 DEF Client
  <2>3. DOMAIN new.egress = DOMAIN cl.egress
    BY <2>2
  <2>4. ASSUME NEW i \in DOMAIN cl.egress
        PROVE  /\ new.egress[i].kind = cl.egress[i].kind
               /\ new.egress[i].msg_idx = cl.egress[i].msg_idx
               /\ new.egress[i].packet_id = cl.egress[i].packet_id
               /\ new.egress[i].qos = cl.egress[i].qos
    <3>1. CASE i = 1
      <4>1. new.egress[i] = [cl.egress[i] EXCEPT !.cursor = 1] /\ cl.egress[i] \in Segment
        BY <2>1, <2>2, <3>1
      <4> QED
        BY <4>1 DEF Segment
    <3>2. CASE i # 1
      <4>1. new.egress[i] = cl.egress[i]
        BY <2>2, <3>2
      <4> QED
        BY <4>1
    <3> QED
      BY <3>1, <3>2
  <2> HIDE DEF new
  <2>5. Live(new) = Live(cl) /\ Used(new) = Used(cl) /\ Outgoing(new) = Outgoing(cl)
    BY <1>1, <2>2 DEF Live, Used, Outgoing
  <2>6. TableOK(new) /\ QueueOK(new) /\ BatchOK(new)
    <3>1. TableOK(new)
      BY <2>2, <2>5 DEF RecordOK, TableOK
    <3>2. QueueOK(new)
      BY <2>3, <2>4 DEF RecordOK, QueueOK
    <3> QED
      BY <2>2, <3>1, <3>2 DEF BatchOK
  <2>7. ASSUME NEW m PROVE Owned(new, m) = Owned(cl, m)
    <3>1. Queued(new, m) = Queued(cl, m)
      BY <2>3, <2>4 DEF Queued, OwnsRef
    <3>2. Held(new, m) = Held(cl, m)
      BY <2>2, <2>5 DEF Held
    <3> QED
      BY <3>1, <3>2 DEF Owned
  <2> QED
    BY <1>1, <2>2, <2>6, <2>7 DEF RecordOK, Settled, new
<1> QED
  BY <1>2, <1>3

(* Written segments leave the queue, and take with them the references of the  *)
(* QoS 0 messages among them.                                                  *)
LEMMA WrittenRecord ==
  ASSUME NEW cl, RecordOK(cl), ~cl.egress_inflight, NEW part \in BOOLEAN,
         NEW k \in Nat, k <= Len(cl.egress), \A i \in 1 .. k : ~NeedsId(cl.egress[i])
  PROVE  LET new == Resumed(Drop(cl, k), part)
         IN  /\ RecordOK(new) /\ Settled(cl, new)
             /\ \A m \in Msgs : /\ Completions(cl, k, m) \in Nat
                                /\ Owned(new, m) = Owned(cl, m) - Completions(cl, k, m)
<1> DEFINE left == Drop(cl, k)
           new == Resumed(left, part)
<1>1. /\ RecordOK(left)
      /\ left.state = cl.state /\ left.generation = cl.generation
      /\ ~left.egress_inflight
      /\ left.egress_retry_queued = cl.egress_retry_queued
      /\ \A m : Owned(left, m) = Owned(cl, m) - Cardinality(QueuedUpTo(cl, k, m))
  BY DropRecord
<1>2. \A i \in DOMAIN left.egress : i > 1 => left.egress[i].cursor = 0
  BY DropOK DEF RecordOK
<1> HIDE DEF left
<1>3. RecordOK(new) /\ Settled(left, new) /\ \A m : Owned(new, m) = Owned(left, m)
  BY <1>1, <1>2, ResumedRecord
<1>4. Settled(cl, new)
  BY <1>1, <1>3 DEF Settled
<1>5. ASSUME NEW m \in Msgs
      PROVE  Completions(cl, k, m) = Cardinality(QueuedUpTo(cl, k, m))
  <2>1. Len(cl.egress) \in Nat /\ DOMAIN cl.egress = 1 .. Len(cl.egress)
        /\ \A i \in 1 .. Len(cl.egress) : cl.egress[i] \in Segment
    BY LenProperties, ElementOfSeq DEF RecordOK, ClientOK, Client
  <2>2. ASSUME NEW i \in 1 .. k
        PROVE  OwnsRef(cl.egress[i]) <=> cl.egress[i].kind = "PUBLISH" /\ cl.egress[i].qos = 0
    <3>1. i \in DOMAIN cl.egress /\ cl.egress[i] \in Segment
      BY <2>1
    <3>2. cl.egress[i].qos \in 0..2
      BY <3>1 DEF Segment
    <3> QED
      BY <3>1, <3>2 DEF RecordOK, QueueOK, NeedsId, OwnsRef
  <2>3. QueuedUpTo(cl, k, m) = {i \in 1..k : /\ cl.egress[i].kind = "PUBLISH"
                                            /\ cl.egress[i].qos = 0
                                            /\ cl.egress[i].msg_idx = m}
    BY <2>1, <2>2 DEF QueuedUpTo, Queued
  <2> QED
    BY <2>3 DEF Completions
<1>6. \A m \in Msgs : Completions(cl, k, m) \in Nat
  BY RefsNat
<1> QED
  BY <1>1, <1>3, <1>4, <1>5, <1>6 DEF left

(* A discarded batch gives back what its segments and its entries own.         *)
LEMMA DiscardedRecord ==
  ASSUME NEW cl, RecordOK(cl), ~cl.egress_inflight, Live(cl), NEW n \in Nat
  PROVE  LET new == Discarded(cl, n)
         IN  /\ RecordOK(new) /\ Settled(cl, new)
             /\ \A m \in Msgs :
                  /\ QueueRefs(cl, n, m) \in Nat /\ EntryRefs(cl, Undone(cl, n), m) \in Nat
                  /\ Owned(new, m) = Owned(cl, m)
                       - (QueueRefs(cl, n, m) + EntryRefs(cl, Undone(cl, n), m))
<1> DEFINE undone == Undone(cl, n)
           freed == [cl EXCEPT !.inflight = [s \in InflightIdx |->
                                               IF s \in undone THEN FreeEntry ELSE @[s]],
                               !.inflight_count = @ - Cardinality(undone)]
           new == Drop(freed, n)
<1>1. undone \in SUBSET Used(cl) /\ undone \in SUBSET InflightIdx
  BY DEF Undone, FindDirect, Used
<1>2. Discarded(cl, n) = new
  BY DEF Discarded
<1> HIDE DEF undone
<1>3. ClientOK(freed)
  BY <1>1, FreeEntriesOK DEF RecordOK
<1>4. /\ freed.egress = cl.egress /\ freed.state = cl.state
      /\ freed.generation = cl.generation
      /\ freed.egress_inflight = cl.egress_inflight
      /\ freed.egress_batch_count = cl.egress_batch_count
      /\ freed.egress_retry_queued = cl.egress_retry_queued
      /\ \A s \in InflightIdx : freed.inflight[s] = IF s \in undone THEN FreeEntry
                                                                    ELSE cl.inflight[s]
  BY DEF RecordOK, ClientOK, Client
<1> HIDE DEF freed
<1>5. Freed(cl, undone, freed)
  BY <1>4 DEF Freed
<1>6. /\ RecordOK(freed)
      /\ \A m \in Msgs : /\ Cardinality(Within(cl, undone, m)) \in Nat
                         /\ Owned(freed, m) = Owned(cl, m) - Cardinality(Within(cl, undone, m))
  BY <1>1, <1>3, <1>5, RemoveEntries
<1>7. /\ RecordOK(new)
      /\ new.state = freed.state /\ new.generation = freed.generation
      /\ ~new.egress_inflight
      /\ new.egress_retry_queued = freed.egress_retry_queued
      /\ \A m : /\ Cardinality(QueuedUpTo(freed, n, m)) \in Nat
                /\ Owned(new, m) = Owned(freed, m) - Cardinality(QueuedUpTo(freed, n, m))
  BY <1>4, <1>6, DropRecord
<1> HIDE DEF new
<1>8. Settled(cl, new)
  BY <1>4, <1>7 DEF Settled
<1>9. ASSUME NEW m \in Msgs
      PROVE  /\ QueueRefs(cl, n, m) = Cardinality(QueuedUpTo(freed, n, m))
             /\ EntryRefs(cl, undone, m) = Cardinality(Within(cl, undone, m))
  <2>1. DOMAIN cl.egress = 1 .. Len(cl.egress) /\ Len(cl.egress) \in Nat
    BY LenProperties DEF RecordOK, ClientOK, Client
  <2>2. QueuedUpTo(freed, n, m) = {i \in 1..n : i \in DOMAIN cl.egress /\ OwnsRef(cl.egress[i])
                                                   /\ cl.egress[i].msg_idx = m}
    BY <1>4, <2>1 DEF QueuedUpTo, Queued
  <2> QED
    BY <2>2 DEF QueueRefs, EntryRefs, Within
<1>10. ASSUME NEW m \in Msgs
       PROVE  /\ QueueRefs(cl, n, m) \in Nat /\ EntryRefs(cl, undone, m) \in Nat
              /\ Owned(new, m) = Owned(cl, m) - (QueueRefs(cl, n, m) + EntryRefs(cl, undone, m))
  <2>1. Owned(cl, m) \in Nat
    BY OwnedNat DEF RecordOK
  <2> QED
    BY <1>6, <1>7, <1>9, <2>1
<1> QED
  BY <1>2, <1>7, <1>8, <1>10 DEF undone

-------------------------------------------------------------------------------
(* EInv holds at the start, and every step preserves it: one lemma per action. *)

LEMMA InitEInv == Init => EInv
<1> SUFFICES ASSUME Init PROVE EInv
  OBVIOUS
<1>1. IInv
  BY InitIInv
<1>2. LoopsOK /\ OpsOK
  BY DEF Init, LoopsOK, FanoutMsg, DueOK, OneLoop, OpsOK, NoFanout
<1>3. ASSUME NEW c \in Slots PROVE SlotOK(c, clients[c], writevs, flush_queue)
  <2>1. clients[c] = UnusedClient /\ ClientOK(UnusedClient)
    BY UnusedClientOK DEF Init
  <2>2. /\ UnusedClient.egress = << >> /\ ~UnusedClient.egress_inflight
        /\ UnusedClient.inflight = EmptyTable /\ ~UnusedClient.egress_retry_queued
    BY DEF UnusedClient
  <2>3. Used(UnusedClient) = {}
    BY <2>2, EmptyTableOK
  <2>4. RecordOK(UnusedClient)
    BY <2>1, <2>2, <2>3, EmptyRecord
  <2>5. Matches(c, UnusedClient, writevs) /\ Flagged(c, UnusedClient, flush_queue)
    BY <2>2 DEF Init, Matches, OpsFor, Flagged
  <2> QED
    BY <2>1, <2>4, <2>5 DEF SlotOK
<1> QED
  BY <1>1, <1>2, <1>3 DEF EInv, SlotsOK

(* With the thread in its event loop, no handler is half done. *)
LEMMA IdleLoops ==
  ASSUME Ready, UNCHANGED <<fanout, sweep>>
  PROVE  LoopsOK'
BY DEF Ready, LoopsOK, FanoutMsg, DueOK, OneLoop, NoFanout

LEMMA SameWakes ==
  ASSUME UNCHANGED <<clients, flush_queue>>
  PROVE  Wakes
BY DEF Wakes, WakesAt, Waits

(* A handler that leaves the connections, the requests and the retry queue.    *)
LEMMA SameEgress ==
  ASSUME EInv, IInv', UNCHANGED <<clients, flush_queue, writevs>>, LoopsOK'
  PROVE  EInv' /\ Wakes
<1>1. SlotsOK'
  BY DEF EInv, SlotsOK
<1>2. OpsOK'
  BY DEF EInv, OpsOK
<1> QED
  BY <1>1, <1>2, SameWakes DEF EInv

(* A new connection has a generation no request has. *)
LEMMA AcceptEStep ==
  ASSUME EInv, NEW c \in Slots, Accept(c)
  PROVE  EInv' /\ Wakes
<1> DEFINE new == ClientInit(clients[c])
<1>1. /\ clients[c] \in Client /\ clients[c].generation < MaxGen
      /\ clients' = [clients EXCEPT ![c] = new]
      /\ UNCHANGED <<fanout, sweep, flush_queue, writevs>> /\ Ready
  BY DEF Accept, EInv, IInv, TypeOK
<1>2. RecordOK(new)
  BY <1>1, ClientInitRecord
<1>3. /\ new.generation = clients[c].generation + 1 /\ new.egress = << >>
      /\ ~new.egress_inflight /\ ~new.egress_retry_queued
      /\ clients[c].generation \in Int
  BY <1>1, GenAssumption DEF ClientInit, UnusedClient, Client, Generations
<1> HIDE DEF new
<1>4. \A op \in writevs : op.slot \in Slots /\ op.gen \in Int
                          /\ op.gen <= clients[op.slot].generation
                          /\ op.res.done <= Len(op.segs)
                          /\ clients[op.slot].generation \in Int
  BY GenAssumption DEF EInv, IInv, TypeOK, OpsOK, OpOK, Generations, Client
<1>5. OpsFor(c, new, writevs) = {}
  BY <1>3, <1>4 DEF OpsFor
<1>6. \A op \in writevs : OpOK(op, clients')
  <2>1. clients'[c] = new /\ \A d \in Slots \ {c} : clients'[d] = clients[d]
    BY <1>1 DEF EInv, IInv, TypeOK
  <2> SUFFICES ASSUME NEW op \in writevs
               PROVE  op.gen <= clients'[op.slot].generation
    BY <1>4 DEF OpOK
  <2>2. CASE op.slot = c
    BY <1>3, <1>4, <2>1, <2>2
  <2>3. CASE op.slot # c
    BY <1>4, <2>1, <2>3
  <2> QED
    BY <2>2, <2>3
<1>7. SlotOK(c, new, writevs', flush_queue')
  BY <1>1, <1>2, <1>3, <1>5 DEF SlotOK, Matches, Flagged
<1>8. IInv' /\ LoopsOK'
  BY <1>1, AcceptStep, IdleLoops DEF EInv
<1>9. clients[c].generation <= new.generation
  BY <1>3
<1>10. WakesAt(c, clients[c], new, flush_queue, flush_queue')
  BY <1>3 DEF WakesAt, Waits
<1> QED
  BY <1>1, <1>6, <1>7, <1>8, <1>9, <1>10, OneSlot

(* A connection being closed still has its request. *)
LEMMA SubmitCloseEStep ==
  ASSUME EInv, NEW c \in Slots, SubmitClose(c)
  PROVE  EInv' /\ Wakes
<1> DEFINE cl == clients[c]
           new == [cl EXCEPT !.state = "CLOSING"]
<1>1. /\ cl \in Client /\ cl.state = "ACTIVE"
      /\ clients' = [clients EXCEPT ![c] = new]
      /\ UNCHANGED <<fanout, sweep, flush_queue, writevs>> /\ Ready
      /\ SlotOK(c, cl, writevs, flush_queue)
  BY DEF SubmitClose, EInv, IInv, TypeOK, SlotsOK
<1>2. /\ new \in Client /\ new.egress = cl.egress /\ new.inflight = cl.inflight
      /\ new.inflight_count = cl.inflight_count
      /\ Live(cl) /\ Live(new) /\ new.state = "CLOSING" /\ new.generation = cl.generation
      /\ new.egress_inflight = cl.egress_inflight
      /\ new.egress_batch_count = cl.egress_batch_count
      /\ new.egress_retry_queued = cl.egress_retry_queued
  BY <1>1 DEF Client, Live
<1> HIDE DEF new
<1>3. RecordOK(new)
  BY <1>1, <1>2, SameRecord DEF SlotOK
<1>4. Matches(c, new, writevs) /\ Flagged(c, new, flush_queue)
  BY <1>1, <1>2 DEF SlotOK, Matches, Flagged, OpsFor
<1>5. cl.generation <= new.generation /\ cl.generation \in Int
  BY <1>1, <1>2, GenAssumption DEF Client, Generations
<1>6. \A op \in writevs : OpOK(op, clients')
  <2>1. clients'[c] = new /\ \A d \in Slots \ {c} : clients'[d] = clients[d]
    BY <1>1 DEF EInv, IInv, TypeOK
  <2>2. \A op \in writevs : op.slot \in Slots /\ OpOK(op, clients)
    BY DEF EInv, IInv, TypeOK, OpsOK
  <2> QED
    BY <1>2, <2>1, <2>2 DEF OpOK
<1>7. IInv' /\ LoopsOK'
  BY <1>1, SubmitCloseStep, IdleLoops DEF EInv
<1>8. WakesAt(c, cl, new, flush_queue, flush_queue')
  BY <1>2 DEF WakesAt, Waits
<1> QED
  BY <1>1, <1>3, <1>4, <1>5, <1>6, <1>7, <1>8, OneSlot DEF SlotOK

(* The requests of a connection that is closed match no segments any more.     *)
LEMMA HandleCloseEStep ==
  ASSUME EInv, NEW c \in Slots, NEW clean \in BOOLEAN, HandleClose(c, clean)
  PROVE  EInv' /\ Wakes
<1> DEFINE cl == clients[c]
           drained == [cl EXCEPT !.egress = << >>]
           new == IF clean THEN ClientFree(FreeAll(drained)) ELSE ClientGoDormant(drained)
<1>1. /\ RecordOK(cl) /\ cl \in Client
      /\ clients' = [clients EXCEPT ![c] = new]
      /\ UNCHANGED <<fanout, sweep, flush_queue, writevs>> /\ Ready
  BY DEF HandleClose, EInv, IInv, TypeOK, SlotsOK, SlotOK
<1>2. /\ RecordOK(new) /\ ~Live(new) /\ new.generation = cl.generation
      /\ ~new.egress_inflight /\ ~new.egress_retry_queued
  BY <1>1, CloseRecord
<1> HIDE DEF new
<1>3. SlotOK(c, new, writevs', flush_queue')
  BY <1>1, <1>2 DEF SlotOK, Matches, Flagged, OpsFor
<1>4. cl.generation <= new.generation
  BY <1>1, <1>2, GenAssumption DEF Client, Generations
<1>5. \A op \in writevs' : OpOK(op, clients')
  <2>1. clients'[c] = new /\ \A d \in Slots \ {c} : clients'[d] = clients[d]
    BY <1>1 DEF EInv, IInv, TypeOK
  <2>2. \A op \in writevs : op.slot \in Slots /\ OpOK(op, clients)
    BY DEF EInv, IInv, TypeOK, OpsOK
  <2> QED
    BY <1>1, <1>2, <2>1, <2>2 DEF OpOK
<1>6. IInv' /\ LoopsOK'
  BY <1>1, HandleCloseStep, IdleLoops DEF EInv
<1>7. WakesAt(c, cl, new, flush_queue, flush_queue')
  BY <1>2 DEF WakesAt, Waits, Live
<1> QED
  BY <1>1, <1>3, <1>4, <1>5, <1>6, <1>7, OneSlot

(* Receiving a PUBLISH tracks it and starts the fan-out. *)
LEMMA PublishEStep ==
  ASSUME EInv, NEW p \in Slots, NEW qos \in PubQos, NEW id \in PubIds, NEW buffer,
         NEW targets \in SUBSET {t \in Slots : clients[t].state = "ACTIVE"},
         Publish(p, qos, id, targets, buffer)
  PROVE  EInv' /\ Wakes
<1> DEFINE new == Tracked(clients[p], qos, id)
<1>1. /\ id \in PacketIds /\ RecordOK(clients[p]) /\ Ready
      /\ clients' = [clients EXCEPT ![p] = new]
      /\ UNCHANGED <<sweep, flush_queue, writevs>>
  BY PubAssumption DEF Publish, EInv, SlotsOK, SlotOK
<1>2. RecordOK(new) /\ Kept(clients[p], new) /\ new.egress = clients[p].egress
  BY <1>1, TrackedKept
<1> HIDE DEF new
<1>3. IInv'
  BY PublishStep DEF EInv
<1>4. FanoutMsg'
  <2>1. CASE UNCHANGED fanout
    BY <1>1, <2>1 DEF Ready, FanoutMsg, NoFanout
  <2>2. CASE \E m \in msg_free : FanOut(m, qos, targets)
    BY <2>2 DEF FanOut, FanoutMsg, EInv, IInv, TypeOK
  <2> QED
    BY <2>1, <2>2 DEF Publish, NoBuffer
<1>5. DueOK' /\ OneLoop'
  BY <1>1 DEF Ready, DueOK, OneLoop
<1> QED
  BY <1>1, <1>2, <1>3, <1>4, <1>5, KeptUpdate DEF LoopsOK

(* One iteration of the fan-out. *)
LEMMA ForwardEStep ==
  ASSUME EInv, NEW c \in Slots, Forward(c)
  PROVE  EInv' /\ Wakes
<1> DEFINE cl == clients[c]
           m == fanout.msg_idx
           new == Push(cl, PublishSeg(cl, m, fanout.qos, 0, FALSE))
<1>1. /\ RecordOK(cl) /\ Live(cl) /\ m \in Msgs /\ fanout.qos \in 0..2
      /\ UNCHANGED <<bare, sweep>> /\ fanout' = [fanout EXCEPT !.todo = @ \ {c}]
  BY DEF Forward, EInv, SlotsOK, SlotOK, IInv, FanoutOK, TypeOK, Live, LoopsOK, FanoutMsg
<1>2. IInv'
  BY ForwardStep DEF EInv
<1>3. LoopsOK'
  <2>1. fanout'.msg_idx = m
    BY <1>1 DEF EInv, IInv, TypeOK
  <2>2. sweep = NoSweep
    BY DEF Forward, EInv, LoopsOK, OneLoop, NoFanout
  <2> QED
    BY <1>1, <2>1, <2>2 DEF LoopsOK, FanoutMsg, DueOK, OneLoop
<1>4. CASE EgressFull(cl)
  <2>1. UNCHANGED <<clients, flush_queue, writevs>>
    BY <1>4 DEF Forward
  <2> QED
    BY <1>2, <1>3, <2>1, SameEgress
<1>5. CASE ~EgressFull(cl)
  <2>1. RecordOK(new) /\ Kept(cl, new)
    BY <1>1, <1>5, ForwardKept
  <2>2. FlushInto(c, new, flush_queue, writevs)
    BY <1>5 DEF Forward, Flush
  <2> HIDE DEF new
  <2> QED
    BY <1>1, <1>2, <1>3, <2>1, <2>2, KeptFlush
<1> QED
  BY <1>4, <1>5

LEMMA PublishDoneEStep ==
  ASSUME EInv, PublishDone
  PROVE  EInv' /\ Wakes
<1>1. /\ fanout' = NoFanout
      /\ UNCHANGED <<clients, sweep, flush_queue, writevs>>
  BY DEF PublishDone
<1>2. IInv'
  BY PublishDoneStep DEF EInv
<1>3. LoopsOK'
  BY <1>1 DEF EInv, LoopsOK, FanoutMsg, DueOK, OneLoop, NoFanout
<1> QED
  BY <1>1, <1>2, <1>3, SameEgress

LEMMA PubrelEStep ==
  ASSUME EInv, NEW p \in Slots, NEW id \in PubIds, Pubrel(p, id)
  PROVE  EInv' /\ Wakes
<1> DEFINE cl == clients[p]
<1>1. /\ RecordOK(cl) /\ Live(cl) /\ Ready
      /\ UNCHANGED <<fanout, sweep, flush_queue, writevs>>
  BY DEF Pubrel, EInv, SlotsOK, SlotOK, Live
<1>2. PICK s \in Used(cl) : clients' = [clients EXCEPT ![p] = FreeSlot(cl, s)]
  BY DEF Pubrel, Find, FindDirect, Incoming
<1>3. RecordOK(FreeSlot(cl, s)) /\ Kept(cl, FreeSlot(cl, s))
      /\ FreeSlot(cl, s).egress = cl.egress
  BY <1>1, FreeSlotKept
<1>4. IInv' /\ LoopsOK'
  BY <1>1, PubrelStep, IdleLoops DEF EInv
<1> QED
  BY <1>1, <1>2, <1>3, <1>4, KeptUpdate

LEMMA PubackEStep ==
  ASSUME EInv, NEW c \in Slots, Puback(c)
  PROVE  EInv' /\ Wakes
<1> DEFINE cl == clients[c]
           hit == AckedEntry(cl, Head(owed[c]).packet_id, "WAIT_PUBACK")
<1>1. /\ RecordOK(cl) /\ Live(cl) /\ Ready /\ UNCHANGED <<bare, fanout, sweep>>
  BY DEF Puback, EInv, SlotsOK, SlotOK, Live
<1>2. IInv' /\ LoopsOK'
  BY <1>1, PubackStep, IdleLoops DEF EInv
<1>3. CASE hit = {}
  <2>1. UNCHANGED <<clients, flush_queue, writevs>>
    BY <1>3 DEF Puback
  <2> QED
    BY <1>2, <2>1, SameEgress
<1>4. CASE hit # {}
  <2>1. PICK s \in hit : FlushInto(c, FreeSlot(cl, s), flush_queue, writevs)
    BY <1>4 DEF Puback, Flush
  <2>2. s \in Used(cl)
    BY DEF AckedEntry, FindDirect
  <2>3. RecordOK(FreeSlot(cl, s)) /\ Kept(cl, FreeSlot(cl, s))
    BY <1>1, <2>2, FreeSlotKept
  <2> QED
    BY <1>1, <1>2, <2>1, <2>3, KeptFlush
<1> QED
  BY <1>3, <1>4

LEMMA PubrecEStep ==
  ASSUME EInv, NEW c \in Slots, Pubrec(c)
  PROVE  EInv' /\ Wakes
<1> DEFINE cl == clients[c]
           hit == AckedEntry(cl, Head(owed[c]).packet_id, "WAIT_PUBREC")
<1>1. /\ RecordOK(cl) /\ Live(cl) /\ Ready /\ UNCHANGED <<bare, fanout, sweep>> /\ Kept(cl, cl)
  BY DEF Pubrec, EInv, SlotsOK, SlotOK, Live, Kept
<1>2. IInv' /\ LoopsOK'
  BY <1>1, PubrecStep, IdleLoops DEF EInv
<1>3. CASE hit = {}
  <2>1. FlushInto(c, WithPubrel(cl), flush_queue, writevs)
    BY <1>3 DEF Pubrec, Flush
  <2>2. RecordOK(WithPubrel(cl)) /\ Kept(cl, WithPubrel(cl))
    BY <1>1, WithPubrelKept
  <2> QED
    BY <1>1, <1>2, <2>1, <2>2, KeptFlush
<1>4. CASE hit # {}
  <2>1. PICK s \in hit : FlushInto(c, WithPubrel(FreeSlot(cl, s)), flush_queue, writevs)
    BY <1>4 DEF Pubrec, Flush
  <2>2. s \in Used(cl)
    BY DEF AckedEntry, FindDirect
  <2> DEFINE freed == FreeSlot(cl, s)
  <2>3. RecordOK(freed) /\ Kept(cl, freed) /\ cl.egress = freed.egress
    BY <1>1, <2>2, FreeSlotKept
  <2> HIDE DEF freed
  <2>4. Live(freed)
    BY <1>1, <2>3 DEF Kept, Live
  <2>5. RecordOK(WithPubrel(freed)) /\ Kept(cl, WithPubrel(freed))
    BY <2>3, <2>4, WithPubrelKept
  <2> QED
    BY <1>1, <1>2, <2>1, <2>5, KeptFlush DEF freed
<1> QED
  BY <1>3, <1>4

(* The entries due are outgoing, so none of them is of a message being received. *)
LEMMA SweepClientEStep ==
  ASSUME EInv, NEW c \in Slots, NEW due, SweepClient(c, due)
  PROVE  EInv' /\ Wakes
<1>1. /\ sweep' = [slot |-> c, i |-> 0, found |-> 0, due |-> due]
      /\ due \subseteq Outgoing(clients[c]) /\ fanout = NoFanout
      /\ UNCHANGED <<clients, fanout, flush_queue, writevs>>
  BY DEF SweepClient, Ready
<1>2. IInv'
  BY SweepClientStep DEF EInv
<1>3. LoopsOK'
  BY <1>1 DEF EInv, LoopsOK, FanoutMsg, DueOK, OneLoop, Tracking, NoFanout
<1> QED
  BY <1>1, <1>2, <1>3, SameEgress

(* What a due entry in use holds. *)
LEMMA DueOutgoing ==
  ASSUME EInv, SweepEntry, sweep.i \in Used(clients[sweep.slot]), sweep.i \in sweep.due
  PROVE  sweep.i \in Outgoing(clients[sweep.slot])
BY DEF SweepEntry, EInv, LoopsOK, DueOK, Tracking

(* One iteration of the sweep leaves the entries of messages being received.   *)
LEMMA SweepEntryEStep ==
  ASSUME EInv, SweepEntry
  PROVE  EInv' /\ Wakes
<1> DEFINE c == sweep.slot
           cl == clients[c]
           s == sweep.i
<1>1. /\ c \in Slots /\ RecordOK(cl) /\ Live(cl)
      /\ sweep \in [slot : Slots \cup {NoSlot}, i : 0..MaxInflight, found : Nat,
                    due : SUBSET InflightIdx]
      /\ sweep # NoSweep /\ UNCHANGED <<bare, fanout>>
  BY DEF SweepEntry, EInv, IInv, SweepOK, SlotsOK, SlotOK, TypeOK, Live
<1>2. IInv'
  BY SweepEntryStep DEF EInv
<1>3. sweep'.slot = c /\ sweep'.due = sweep.due
  <2> DEFINE i == sweep.i + 1
             found == IF sweep.i \in Used(cl) THEN sweep.found + 1 ELSE sweep.found
  <2>1. sweep' = [sweep EXCEPT !.i = i, !.found = found]
    BY DEF SweepEntry
  <2> HIDE DEF i, found
  <2> QED
    BY <1>1, <2>1
<1>4. ASSUME Tracking(clients'[c]) \subseteq Tracking(cl) PROVE LoopsOK'
  <2>1. fanout = NoFanout /\ DueOK
    BY <1>1 DEF EInv, LoopsOK, OneLoop
  <2>2. DueOK'
    BY <1>1, <1>3, <1>4, <2>1 DEF DueOK
  <2> QED
    BY <1>1, <2>1, <2>2 DEF LoopsOK, FanoutMsg, OneLoop, NoFanout
<1>5. CASE UNCHANGED <<clients, ref_count, msg_free, flush_queue, writevs>>
  BY <1>2, <1>4, <1>5, SameEgress
<1>6. CASE s \in Used(cl) /\ s \in sweep.due /\ Timeout(c, s)
  <2> DEFINE entry == cl.inflight[s]
             retry == [cl EXCEPT !.inflight[s].dup_count = @ + 1]
             new == Push(retry, PublishSeg(cl, entry.msg_idx, entry.qos, entry.packet_id, TRUE))
  <2>1. CASE entry.dup_count >= MaxRetries \/ EgressFull(cl)
    <3>1. /\ clients' = [clients EXCEPT ![c] = FreeSlot(cl, s)]
          /\ UNCHANGED <<flush_queue, writevs>>
      BY <1>6, <2>1 DEF Timeout
    <3>2. /\ RecordOK(FreeSlot(cl, s)) /\ Kept(cl, FreeSlot(cl, s))
          /\ Tracking(FreeSlot(cl, s)) \subseteq Tracking(cl)
          /\ FreeSlot(cl, s).egress = cl.egress
      BY <1>1, <1>6, FreeSlotKept
    <3>3. clients'[c] = FreeSlot(cl, s)
      BY <1>1, <3>1 DEF EInv, IInv, TypeOK
    <3> QED
      BY <1>1, <1>2, <1>4, <3>1, <3>2, <3>3, KeptUpdate
  <2>2. CASE ~(entry.dup_count >= MaxRetries \/ EgressFull(cl))
    <3>1. FlushInto(c, new, flush_queue, writevs)
      BY <1>6, <2>2 DEF Timeout, Flush
    <3>2. s \in Outgoing(cl)
      BY <1>6, DueOutgoing
    <3>3. RecordOK(new) /\ Kept(cl, new) /\ Tracking(new) = Tracking(cl)
      BY <1>1, <2>2, <3>2, TimeoutKept
    <3> HIDE DEF new
    <3>4. PICK after : /\ clients' = [clients EXCEPT ![c] = after]
                       /\ Tracking(after) = Tracking(new)
      BY <3>1, <3>3, FlushRecord
    <3>5. clients'[c] = after
      BY <1>1, <3>4 DEF EInv, IInv, TypeOK
    <3> QED
      BY <1>1, <1>2, <1>4, <3>1, <3>3, <3>4, <3>5, KeptFlush
  <2> QED
    BY <2>1, <2>2
<1> QED
  BY <1>5, <1>6 DEF SweepEntry

LEMMA SweepDoneEStep ==
  ASSUME EInv, SweepDone
  PROVE  EInv' /\ Wakes
<1>1. sweep' = NoSweep /\ UNCHANGED <<clients, fanout, flush_queue, writevs>>
  BY DEF SweepDone
<1>2. IInv'
  BY SweepDoneStep DEF EInv
<1>3. LoopsOK'
  BY <1>1 DEF EInv, LoopsOK, FanoutMsg, DueOK, OneLoop
<1> QED
  BY <1>1, <1>2, <1>3, SameEgress

(* A request that gets its outcome stays the request of its connection. *)
LEMMA OutcomeMatches ==
  ASSUME NEW requests \in SUBSET Requests, NEW op \in requests, NEW r \in Requests,
         r.slot = op.slot, r.gen = op.gen, r.segs = op.segs,
         NEW c, NEW cl, Matches(c, cl, requests)
  PROVE  Matches(c, cl, (requests \ {op}) \cup {r})
<1> DEFINE after == (requests \ {op}) \cup {r}
<1>1. CASE op \in OpsFor(c, cl, requests)
  <2>1. r \in OpsFor(c, cl, after)
    BY <1>1 DEF OpsFor
  <2>2. cl.egress_inflight /\ OpsFor(c, cl, requests) = {op}
    BY <1>1 DEF Matches
  <2>3. OpsFor(c, cl, after) = {r}
    BY <2>1, <2>2 DEF OpsFor
  <2> QED
    BY <2>2, <2>3 DEF Matches
<1>2. CASE op \notin OpsFor(c, cl, requests)
  <2>1. OpsFor(c, cl, after) = OpsFor(c, cl, requests)
    BY <1>2 DEF OpsFor
  <2>2. ASSUME NEW o \in requests, OpsFor(c, cl, requests) = {o} PROVE o \in after
    BY <1>2, <2>2
  <2> QED
    BY <2>1, <2>2 DEF Matches
<1> QED
  BY <1>1, <1>2

LEMMA OutcomeEStep ==
  ASSUME EInv, IInv', NEW op \in writevs, NEW res, res.done <= Len(op.segs),
         writevs' = (writevs \ {op}) \cup {[op EXCEPT !.res = res]},
         UNCHANGED <<clients, fanout, sweep, flush_queue>>
  PROVE  EInv' /\ Wakes
<1> DEFINE r == [op EXCEPT !.res = res]
<1>1. writevs \in SUBSET Requests /\ writevs' \in SUBSET Requests /\ op \in Requests
  BY DEF EInv, IInv, TypeOK, Requests
<1>2. r \in Requests /\ r.slot = op.slot /\ r.gen = op.gen /\ r.segs = op.segs /\ r.res = res
  BY <1>1 DEF Requests
<1>3. writevs' = (writevs \ {op}) \cup {r}
  OBVIOUS
<1> HIDE DEF r
<1>4. ASSUME NEW c \in Slots
      PROVE  SlotOK(c, clients'[c], writevs', flush_queue')
  <2>1. SlotOK(c, clients[c], writevs, flush_queue)
    BY DEF EInv, SlotsOK
  <2>2. Matches(c, clients[c], writevs')
    BY <1>1, <1>2, <1>3, <2>1, OutcomeMatches DEF SlotOK
  <2> QED
    BY <2>1, <2>2 DEF SlotOK
<1>5. SlotsOK'
  BY <1>4 DEF SlotsOK
<1>6. OpsOK'
  <2>1. OpOK(r, clients)
    BY <1>2 DEF EInv, OpsOK, OpOK
  <2> QED
    BY <1>3, <2>1 DEF EInv, OpsOK
<1>7. LoopsOK'
  BY DEF EInv, LoopsOK, FanoutMsg, DueOK, OneLoop
<1> QED
  BY <1>5, <1>6, <1>7, SameWakes DEF EInv

LEMMA TransmitEStep ==
  ASSUME EInv, NEW op \in writevs, NEW k \in 0 .. Len(op.segs), NEW part \in BOOLEAN,
         Transmit(op, k, part)
  PROVE  EInv' /\ Wakes
<1>1. Len(op.segs) \in Nat
  BY LenProperties DEF EInv, IInv, TypeOK
<1>2. Written(k, part).done <= Len(op.segs)
  BY <1>1 DEF Written
<1>3. IInv'
  BY TransmitStep DEF EInv
<1> QED
  BY <1>2, <1>3, OutcomeEStep DEF Transmit

LEMMA TransmitFailsEStep ==
  ASSUME EInv, NEW op \in writevs, NEW res \in {Again, Fatal}, TransmitFails(op, res)
  PROVE  EInv' /\ Wakes
<1>1. Len(op.segs) \in Nat
  BY LenProperties DEF EInv, IInv, TypeOK
<1>2. res.done <= Len(op.segs)
  <2>1. res.done = 0
    BY DEF Again, Fatal
  <2> QED
    BY <1>1, <2>1
<1>3. IInv'
  BY TransmitFailsStep DEF EInv
<1> QED
  BY <1>2, <1>3, OutcomeEStep DEF TransmitFails

(* A request of a connection that is gone can be forgotten. *)
LEMMA EgressStaleEStep ==
  ASSUME EInv, NEW op \in writevs, EgressStale(op)
  PROVE  EInv' /\ Wakes
<1>1. /\ writevs' = writevs \ {op} /\ ~Current(op)
      /\ UNCHANGED <<clients, fanout, sweep, flush_queue>> /\ Ready
  BY DEF EgressStale, Completes
<1>2. ASSUME NEW c \in Slots
      PROVE  SlotOK(c, clients'[c], writevs', flush_queue')
  <2>1. SlotOK(c, clients[c], writevs, flush_queue)
    BY DEF EInv, SlotsOK
  <2>2. OpsFor(c, clients[c], writevs') = OpsFor(c, clients[c], writevs)
    BY <1>1 DEF OpsFor, Current, Connected, Live
  <2>3. Matches(c, clients[c], writevs')
    <3>1. OpsFor(c, clients[c], writevs') \subseteq writevs'
      BY DEF OpsFor
    <3> QED
      BY <2>1, <2>2, <3>1 DEF SlotOK, Matches
  <2> QED
    BY <1>1, <2>1, <2>3 DEF SlotOK
<1>3. SlotsOK'
  BY <1>2 DEF SlotsOK
<1>4. OpsOK'
  BY <1>1 DEF EInv, OpsOK
<1>5. LoopsOK' /\ IInv'
  BY <1>1, IdleLoops, EgressStaleStep DEF EInv
<1> QED
  BY <1>1, <1>3, <1>4, <1>5, SameWakes DEF EInv

(* What was written is a prefix of the batch, whose segments have their ids.   *)
LEMMA WrittenPrefix ==
  ASSUME EInv, NEW op \in writevs, Current(op)
  PROVE  LET cl == Completed(op.slot)
         IN  /\ op.res.done \in Nat /\ op.res.done <= Len(cl.egress)
             /\ \A i \in 1 .. op.res.done : ~NeedsId(cl.egress[i])
<1> DEFINE c == op.slot
           n == clients[c].egress_batch_count
           cl == Completed(c)
<1>1. /\ c \in Slots /\ clients[c].egress_inflight
      /\ op.segs = SubSeq(clients[c].egress, 1, n)
  BY CurrentOp
<1>2. RecordOK(clients[c])
  BY <1>1 DEF EInv, SlotsOK, SlotOK
<1>3. n \in 1 .. Len(clients[c].egress) /\ \A i \in 1 .. n : ~NeedsId(clients[c].egress[i])
  BY <1>1, <1>2 DEF RecordOK, BatchOK
<1>4. clients[c].egress \in Seq(Segment) /\ Len(clients[c].egress) \in Nat
  BY <1>2, LenProperties DEF RecordOK, ClientOK, Client
<1>5. Len(op.segs) = n
  <2>1. 1 \in Int /\ n \in Int /\ 1 <= n
        /\ \A i \in 1 .. n : clients[c].egress[i] \in Segment
    BY <1>3, <1>4, ElementOfSeq
  <2>2. Len(op.segs) = n - 1 + 1
    BY <1>1, <2>1, SubSeqProperties
  <2> QED
    BY <2>1, <2>2
<1>6. op.res.done \in Nat /\ op.res.done <= Len(op.segs)
  BY DEF EInv, IInv, TypeOK, OpsOK, OpOK
<1>7. cl.egress = clients[c].egress
  BY <1>1, CompletedRecord
<1> QED
  BY <1>3, <1>4, <1>5, <1>6, <1>7

LEMMA EgressWrittenEStep ==
  ASSUME EInv, NEW op \in writevs, EgressWritten(op)
  PROVE  EInv' /\ Wakes
<1> DEFINE c == op.slot
           cl == Completed(c)
           new == Resumed(Drop(cl, op.res.done), op.res.part)
<1>1. /\ Current(op) /\ Ready /\ UNCHANGED <<bare, fanout, sweep>> /\ c \in Slots
      /\ op.res.part \in BOOLEAN
      /\ FlushInto(c, new, flush_queue, writevs \ {op})
  BY DEF EgressWritten, Completes, EInv, IInv, TypeOK
<1>2. RecordOK(cl) /\ Settled(clients[c], cl)
  BY <1>1, CompletedRecord
<1>3. /\ op.res.done \in Nat /\ op.res.done <= Len(cl.egress)
      /\ \A i \in 1 .. op.res.done : ~NeedsId(cl.egress[i])
  BY <1>1, WrittenPrefix
<1> HIDE DEF cl
<1>4. RecordOK(new) /\ Settled(cl, new)
  BY <1>1, <1>2, <1>3, WrittenRecord DEF Settled
<1> HIDE DEF new
<1>5. Settled(clients[c], new)
  BY <1>2, <1>4 DEF Settled
<1>6. LoopsOK' /\ IInv'
  BY <1>1, IdleLoops, EgressWrittenStep DEF EInv
<1> QED
  BY <1>1, <1>4, <1>5, <1>6, SettledFlush

LEMMA EgressAgainEStep ==
  ASSUME EInv, NEW op \in writevs, EgressAgain(op)
  PROVE  EInv' /\ Wakes
<1>1. /\ Current(op) /\ Ready /\ UNCHANGED <<bare, fanout, sweep>> /\ op.slot \in Slots
      /\ FlushInto(op.slot, Completed(op.slot), flush_queue, writevs \ {op})
  BY DEF EgressAgain, Completes, EInv, IInv, TypeOK
<1>2. RecordOK(Completed(op.slot)) /\ Settled(clients[op.slot], Completed(op.slot))
  BY <1>1, CompletedRecord
<1>3. LoopsOK' /\ IInv'
  BY <1>1, IdleLoops, EgressAgainStep DEF EInv
<1> QED
  BY <1>1, <1>2, <1>3, SettledFlush

LEMMA EgressFatalEStep ==
  ASSUME EInv, NEW op \in writevs, EgressFatal(op)
  PROVE  EInv' /\ Wakes
<1> DEFINE c == op.slot
           cl == Completed(c)
           n == BatchOf(cl)
           new == Discarded(cl, n)
<1>1. /\ Current(op) /\ Ready /\ UNCHANGED <<bare, fanout, sweep>> /\ c \in Slots
      /\ FlushInto(c, new, flush_queue, writevs \ {op})
  BY DEF EgressFatal, Completes, EInv, IInv, TypeOK
<1>2. RecordOK(cl) /\ Settled(clients[c], cl) /\ Live(cl)
  BY <1>1, CompletedRecord DEF Settled, Live, Current, Connected
<1> HIDE DEF cl
<1>3. n \in Nat
  BY <1>2, LenProperties DEF BatchOf, RecordOK, ClientOK, Client
<1> HIDE DEF n
<1>4. RecordOK(new) /\ Settled(cl, new)
  BY <1>2, <1>3, DiscardedRecord DEF Settled
<1> HIDE DEF new
<1>5. Settled(clients[c], new)
  BY <1>2, <1>4 DEF Settled
<1>6. LoopsOK' /\ IInv'
  BY <1>1, IdleLoops, EgressFatalStep DEF EInv
<1> QED
  BY <1>1, <1>4, <1>5, <1>6, SettledFlush

(* The record that leaves the retry queue. *)
Unqueued(cl) == [cl EXCEPT !.egress_retry_queued = FALSE]

LEMMA UnqueuedRecord ==
  ASSUME NEW cl, RecordOK(cl)
  PROVE  /\ RecordOK(Unqueued(cl)) /\ Unqueued(cl).egress = cl.egress
         /\ Unqueued(cl).state = cl.state /\ Unqueued(cl).generation = cl.generation
         /\ Unqueued(cl).egress_inflight = cl.egress_inflight
         /\ Unqueued(cl).egress_batch_count = cl.egress_batch_count
         /\ ~Unqueued(cl).egress_retry_queued
         /\ \A m : Owned(Unqueued(cl), m) = Owned(cl, m)
<1> DEFINE new == Unqueued(cl)
<1>1. /\ new \in Client /\ new.egress = cl.egress /\ new.inflight = cl.inflight
      /\ new.inflight_count = cl.inflight_count
      /\ new.state = cl.state /\ new.generation = cl.generation
      /\ new.egress_inflight = cl.egress_inflight
      /\ new.egress_batch_count = cl.egress_batch_count
      /\ ~new.egress_retry_queued
  BY DEF Unqueued, RecordOK, ClientOK, Client
<1> HIDE DEF new
<1>2. RecordOK(new) /\ \A m : Owned(new, m) = Owned(cl, m)
  BY <1>1, SameRecord
<1> QED
  BY <1>1, <1>2 DEF new

(* Taking the head off the retry queue leaves the entries of the other slots.  *)
LEMMA RetryTail ==
  ASSUME EInv, flush_queue # << >>
  PROVE  LET c == Head(flush_queue)[1]
         IN  /\ c \in Slots /\ Tail(flush_queue) \in Queues
             /\ \A d, g : InQueue(d, g, flush_queue) /\ <<d, g>> # Head(flush_queue)
                            => InQueue(d, g, Tail(flush_queue))
             /\ \A d \in Slots \ {c} : \A g : InQueue(d, g, flush_queue)
                                                => InQueue(d, g, Tail(flush_queue))
             /\ FlushQueueFull(Tail(flush_queue)) => FlushQueueFull(flush_queue)
<1> DEFINE c == Head(flush_queue)[1]
           q == flush_queue
<1>1. q \in Seq(Slots \X Generations) /\ q # << >>
  BY DEF EInv, IInv, TypeOK
<1>2. /\ Head(q) \in Slots \X Generations /\ Head(q) = q[1]
      /\ Tail(q) \in Seq(Slots \X Generations)
      /\ Len(Tail(q)) = Len(q) - 1
      /\ \A i \in 1 .. Len(Tail(q)) : Tail(q)[i] = q[i + 1]
  BY <1>1, HeadTailProperties
<1>3. /\ Len(q) \in Nat /\ DOMAIN q = 1 .. Len(q)
      /\ DOMAIN Tail(q) = 1 .. Len(Tail(q))
  BY <1>1, <1>2, LenProperties
<1>4. ASSUME NEW d, NEW g, InQueue(d, g, q), <<d, g>> # Head(q)
      PROVE  InQueue(d, g, Tail(q))
  <2>1. PICK i \in 1 .. Len(q) : q[i] = <<d, g>>
    BY <1>3, <1>4 DEF InQueue
  <2>2. i # 1
    BY <1>2, <1>4, <2>1
  <2>3. i - 1 \in 1 .. Len(Tail(q)) /\ (i - 1) + 1 = i
    BY <1>2, <1>3, <2>1, <2>2
  <2>4. Tail(q)[i - 1] = <<d, g>>
    BY <1>2, <2>1, <2>3
  <2> QED
    BY <1>3, <2>3, <2>4 DEF InQueue
<1>5. c \in Slots
  BY <1>2
<1>6. ASSUME NEW d \in Slots \ {c}, NEW g, InQueue(d, g, q)
      PROVE  InQueue(d, g, Tail(q))
  BY <1>2, <1>4, <1>6
<1>7. FlushQueueFull(Tail(q)) => FlushQueueFull(q)
  <2>1. IsFiniteSet(Slots) /\ Cardinality(Slots) \in Nat
    BY SlotsAssumption, FS_CardinalityType
  <2> QED
    BY <1>2, <1>3, <2>1 DEF FlushQueueFull
<1> QED
  BY <1>2, <1>4, <1>5, <1>6, <1>7 DEF Queues

LEMMA RetryFlushEStep ==
  ASSUME EInv, RetryFlush
  PROVE  EInv' /\ Wakes
<1> DEFINE c == Head(flush_queue)[1]
           old == clients[c]
           cl == Unqueued(old)
           rest == Tail(flush_queue)
<1>1. /\ flush_queue # << >> /\ Ready /\ UNCHANGED <<bare, fanout, sweep>>
  BY DEF RetryFlush
<1>2. /\ c \in Slots /\ rest \in Queues
      /\ \A d, g : InQueue(d, g, flush_queue) /\ <<d, g>> # Head(flush_queue)
                     => InQueue(d, g, rest)
      /\ \A d \in Slots \ {c} : \A g : InQueue(d, g, flush_queue) => InQueue(d, g, rest)
      /\ FlushQueueFull(rest) => FlushQueueFull(flush_queue)
  BY <1>1, RetryTail
<1>3. SlotOK(c, old, writevs, flush_queue)
  BY <1>2 DEF EInv, SlotsOK
<1>4. /\ RecordOK(cl) /\ cl.egress = old.egress
      /\ cl.state = old.state /\ cl.generation = old.generation
      /\ cl.egress_inflight = old.egress_inflight
      /\ cl.egress_batch_count = old.egress_batch_count
      /\ ~cl.egress_retry_queued
  BY <1>3, UnqueuedRecord DEF SlotOK
<1>5. \/ FlushInto(c, cl, rest, writevs)
      \/ /\ clients' = [clients EXCEPT ![c] = cl]
         /\ flush_queue' = rest
         /\ UNCHANGED writevs
         /\ cl.generation # Head(flush_queue)[2]
  BY DEF RetryFlush, Unqueued
<1> HIDE DEF cl
<1>6. Matches(c, cl, writevs) /\ Flagged(c, cl, rest)
  BY <1>3, <1>4 DEF SlotOK, Matches, OpsFor, Live, Flagged
<1>7. LoopsOK' /\ IInv'
  BY <1>1, IdleLoops, RetryFlushStep DEF EInv
<1>8. CASE FlushInto(c, cl, rest, writevs)
  <2>1. writevs \in SUBSET writevs /\ \A op \in writevs : op.slot # c => op \in writevs
    OBVIOUS
  <2> HIDE DEF rest, c
  <2> QED
    BY <1>1, <1>2, <1>4, <1>6, <1>7, <1>8, <2>1, FlushSlot
<1>9. CASE /\ clients' = [clients EXCEPT ![c] = cl]
           /\ flush_queue' = rest
           /\ UNCHANGED writevs
           /\ cl.generation # Head(flush_queue)[2]
  <2>1. SlotOK(c, cl, writevs', flush_queue')
    BY <1>4, <1>6, <1>9 DEF SlotOK
  <2>2. old.generation <= cl.generation
    <3>1. old.generation \in Int
      BY <1>3 DEF SlotOK, RecordOK, ClientOK, Client, Generations
    <3> QED
      BY <1>4, <3>1
  <2>3. \A op \in writevs' : OpOK(op, clients')
    <3>1. clients'[c] = cl /\ \A d \in Slots \ {c} : clients'[d] = clients[d]
      BY <1>2, <1>9 DEF EInv, IInv, TypeOK
    <3>2. \A op \in writevs : op.slot \in Slots /\ OpOK(op, clients)
      BY DEF EInv, IInv, TypeOK, OpsOK
    <3> QED
      BY <1>4, <1>9, <3>1, <3>2 DEF OpOK
  <2>4. WakesAt(c, old, cl, flush_queue, flush_queue')
    <3>1. <<c, cl.generation>> # Head(flush_queue)
      BY <1>9
    <3>2. InQueue(c, cl.generation, flush_queue) => InQueue(c, cl.generation, rest)
      BY <1>2, <3>1
    <3> QED
      BY <1>4, <1>9, <3>2 DEF WakesAt, Waits
  <2> HIDE DEF rest, c
  <2> QED
    BY <1>2, <1>7, <1>9, <2>1, <2>2, <2>3, <2>4, OneSlot
<1> QED
  BY <1>5, <1>8, <1>9

(* The invariant is inductive.                                                 *)
LEMMA NextEInv == EInv /\ [Next]_vars => EInv' /\ Wakes
<1> SUFFICES ASSUME EInv, [Next]_vars PROVE EInv' /\ Wakes
  OBVIOUS
<1>1. ASSUME NEW c \in Slots, Accept(c) PROVE EInv' /\ Wakes
  BY <1>1, AcceptEStep
<1>2. ASSUME NEW c \in Slots, SubmitClose(c) PROVE EInv' /\ Wakes
  BY <1>2, SubmitCloseEStep
<1>3. ASSUME NEW c \in Slots, NEW clean \in BOOLEAN, HandleClose(c, clean) PROVE EInv' /\ Wakes
  BY <1>3, HandleCloseEStep
<1>4. ASSUME NEW c \in Slots, NEW qos \in PubQos, NEW id \in PubIds, NEW buffer,
             NEW targets \in SUBSET {t \in Slots : clients[t].state = "ACTIVE"},
             Publish(c, qos, id, targets, buffer)
      PROVE  EInv' /\ Wakes
  BY <1>4, PublishEStep
<1>5. ASSUME NEW c \in Slots, Forward(c) PROVE EInv' /\ Wakes
  BY <1>5, ForwardEStep
<1>6. ASSUME NEW c \in Slots, NEW id \in PubIds, Pubrel(c, id) PROVE EInv' /\ Wakes
  BY <1>6, PubrelEStep
<1>7. ASSUME NEW c \in Slots, Puback(c) PROVE EInv' /\ Wakes
  BY <1>7, PubackEStep
<1>8. ASSUME NEW c \in Slots, Pubrec(c) PROVE EInv' /\ Wakes
  BY <1>8, PubrecEStep
<1>9. ASSUME NEW c \in Slots, NEW due \in SUBSET Outgoing(clients[c]), SweepClient(c, due)
      PROVE  EInv' /\ Wakes
  BY <1>9, SweepClientEStep
<1>10. ASSUME PublishDone PROVE EInv' /\ Wakes
  BY <1>10, PublishDoneEStep
<1>11. ASSUME SweepEntry \/ SweepDone PROVE EInv' /\ Wakes
  BY <1>11, SweepEntryEStep, SweepDoneEStep
<1>12. ASSUME NEW op \in writevs, NEW k \in 0 .. Len(op.segs), NEW part \in BOOLEAN,
              Transmit(op, k, part)
       PROVE  EInv' /\ Wakes
  BY <1>12, TransmitEStep
<1>13. ASSUME NEW op \in writevs, NEW res \in {Again, Fatal}, TransmitFails(op, res)
       PROVE  EInv' /\ Wakes
  BY <1>13, TransmitFailsEStep
<1>14. ASSUME NEW op \in writevs,
              EgressStale(op) \/ EgressWritten(op) \/ EgressAgain(op) \/ EgressFatal(op)
       PROVE  EInv' /\ Wakes
  BY <1>14, EgressStaleEStep, EgressWrittenEStep, EgressAgainEStep, EgressFatalEStep
<1>15. ASSUME RetryFlush PROVE EInv' /\ Wakes
  BY <1>15, RetryFlushEStep
<1>16. CASE UNCHANGED vars
  <2>1. IInv'
    BY <1>16, NextIInv DEF EInv
  <2>2. UNCHANGED <<clients, flush_queue, writevs, fanout, sweep>>
    BY <1>16 DEF vars
  <2>3. LoopsOK'
    BY <2>2 DEF EInv, LoopsOK, FanoutMsg, DueOK, OneLoop
  <2> QED
    BY <2>1, <2>2, <2>3, SameEgress
<1> QED
  BY <1>1, <1>2, <1>3, <1>4, <1>5, <1>6, <1>7, <1>8, <1>9, <1>10, <1>11, <1>12, <1>13,
     <1>14, <1>15, <1>16 DEF Next

LEMMA EInvAlways == Spec => []EInv
BY InitEInv, NextEInv, PTL DEF Spec

-------------------------------------------------------------------------------
(* The theorems.                                                               *)

(* A completion is applied to the segments it is about, whatever the order of  *)
(* submissions, completions, closes and reconnections: a connection has one    *)
(* writev outstanding exactly when egress_inflight says so, and its segments   *)
(* are still the first egress_batch_count of the queue, each with its id.      *)
THEOREM WritevCorrect == Spec => []WritevMatchesQueue
<1>1. ASSUME EInv PROVE WritevMatchesQueue
  <2> SUFFICES ASSUME NEW c \in Slots
               PROVE  LET cl  == clients[c]
                          ops == {op \in writevs : op.slot = c /\ Current(op)}
                      IN  /\ Cardinality(ops) = IF cl.egress_inflight THEN 1 ELSE 0
                          /\ cl.egress_inflight => cl.egress_batch_count \in 1 .. Len(cl.egress)
                          /\ \A op \in ops :
                               /\ op.segs = SubSeq(cl.egress, 1, cl.egress_batch_count)
                               /\ \A i \in DOMAIN op.segs : ~NeedsId(op.segs[i])
    BY DEF WritevMatchesQueue
  <2> DEFINE cl  == clients[c]
             ops == {op \in writevs : op.slot = c /\ Current(op)}
             n   == cl.egress_batch_count
  <2>1. RecordOK(cl) /\ Matches(c, cl, writevs)
    BY <1>1 DEF EInv, SlotsOK, SlotOK
  <2>2. ops = OpsFor(c, cl, writevs)
    BY DEF OpsFor, Current, Connected, Live
  <2> HIDE DEF ops
  <2>3. CASE cl.egress_inflight
    <3>1. PICK o \in writevs : ops = {o} /\ o.segs = SubSeq(cl.egress, 1, n)
      BY <2>1, <2>2, <2>3 DEF Matches
    <3>2. Cardinality(ops) = 1
      BY <3>1, FS_Singleton
    <3>3. n \in 1 .. Len(cl.egress) /\ \A i \in 1 .. n : ~NeedsId(cl.egress[i])
      BY <2>1, <2>3 DEF RecordOK, BatchOK
    <3>4. cl.egress \in Seq(Segment) /\ Len(cl.egress) \in Nat
      BY <2>1, LenProperties DEF RecordOK, ClientOK, Client
    <3>5. /\ o.segs \in Seq(Segment)
          /\ Len(o.segs) = n - 1 + 1
          /\ \A i \in 1 .. n - 1 + 1 : o.segs[i] = cl.egress[1 + i - 1]
      <4>1. 1 \in Int /\ n \in Int /\ 1 <= n
            /\ \A i \in 1 .. n : cl.egress[i] \in Segment
        BY <3>3, <3>4, ElementOfSeq
      <4> DEFINE b == SubSeq(cl.egress, 1, n)
      <4>2. /\ b \in Seq(Segment)
            /\ Len(b) = IF 1 <= n THEN n - 1 + 1 ELSE 0
            /\ \A i \in 1 .. n - 1 + 1 : b[i] = cl.egress[1 + i - 1]
        BY <4>1, SubSeqProperties
      <4> QED
        BY <3>1, <4>1, <4>2
    <3>6. DOMAIN o.segs = 1 .. n
      BY <3>3, <3>5, LenProperties
    <3>7. \A i \in DOMAIN o.segs : ~NeedsId(o.segs[i])
      <4> SUFFICES ASSUME NEW i \in 1 .. n PROVE ~NeedsId(o.segs[i])
        BY <3>6
      <4>1. i \in 1 .. n - 1 + 1 /\ 1 + i - 1 = i
        BY <3>3
      <4>2. o.segs[i] = cl.egress[i]
        BY <3>5, <4>1
      <4> QED
        BY <3>3, <4>2
    <3> QED
      BY <2>3, <3>1, <3>2, <3>3, <3>7 DEF ops
  <2>4. CASE ~cl.egress_inflight
    <3>1. ops = {}
      BY <2>1, <2>2, <2>4 DEF Matches
    <3>2. Cardinality(ops) = 0
      BY <3>1, FS_EmptySet
    <3> QED
      BY <2>4, <3>1, <3>2 DEF ops
  <2> QED
    BY <2>3, <2>4
<1> QED
  BY <1>1, EInvAlways, PTL

(* An acknowledgement finds its entry: the packet id of every outgoing entry   *)
(* leads back to it by (packet_id - 1) & mask, for every size of the table and  *)
(* however often the u16 id has wrapped.                                       *)
THEOREM EntriesCorrect == Spec => []EntriesFindable
<1>1. ASSUME EInv PROVE EntriesFindable
  <2> SUFFICES ASSUME NEW c \in Slots, NEW s \in Outgoing(clients[c])
               PROVE  FindDirect(clients[c], clients[c].inflight[s].packet_id) = {s}
    BY DEF EntriesFindable
  <2>1. TableOK(clients[c])
    BY <1>1 DEF EInv, SlotsOK, SlotOK, RecordOK
  <2>2. /\ s \in Used(clients[c])
        /\ clients[c].inflight[s].packet_id # 0
        /\ (clients[c].inflight[s].packet_id - 1) % MaxInflight = s
    BY <2>1 DEF TableOK, Outgoing
  <2> QED
    BY <2>2 DEF FindDirect
<1> QED
  BY <1>1, EInvAlways, PTL

(* A slot marked as queued for a retry is in the retry queue under its present *)
(* generation, also when entries of earlier connections are dequeued.          *)
THEOREM RetryFlagCorrect == Spec => []RetryFlagSound
<1>1. ASSUME EInv PROVE RetryFlagSound
  BY <1>1 DEF EInv, SlotsOK, SlotOK, Flagged, InQueue, RetryFlagSound, InFlushQueue
<1> QED
  BY <1>1, EInvAlways, PTL

-------------------------------------------------------------------------------
(***************************************************************************)
(* Reference counting: the count of a message is the number of its owners, *)
(* and a message is free exactly when it has none.                         *)
(***************************************************************************)

(* Counting pairs.                                                             *)

(* The pairs <<d, x>> with x in f[d]. *)
Pairs(f, U) == {h \in Slots \X U : h[2] \in f[h[1]]}

(* When f changes at c only, the number of pairs changes by what c has.        *)
LEMMA PairsChange ==
  ASSUME NEW U, IsFiniteSet(U), NEW c \in Slots,
         NEW f, NEW g, f[c] \in SUBSET U, g[c] \in SUBSET U,
         \A d \in Slots \ {c} : g[d] = f[d]
  PROVE  /\ Cardinality(Pairs(f, U)) \in Nat /\ Cardinality(Pairs(g, U)) \in Nat
         /\ Cardinality(f[c]) \in Nat /\ Cardinality(g[c]) \in Nat
         /\ Cardinality(f[c]) <= Cardinality(Pairs(f, U))
         /\ Cardinality(Pairs(g, U)) = Cardinality(Pairs(f, U)) - Cardinality(f[c])
                                         + Cardinality(g[c])
<1> DEFINE Rest == {h \in (Slots \ {c}) \X U : h[2] \in f[h[1]]}
<1>1. IsFiniteSet(Slots \X U) /\ IsFiniteSet({c})
  BY SlotsAssumption, FS_Product, FS_Singleton
<1>2. ASSUME NEW e, e[c] \in SUBSET U, \A d \in Slots \ {c} : e[d] = f[d]
      PROVE  /\ Cardinality(Rest) \in Nat /\ Cardinality(e[c]) \in Nat
             /\ Cardinality(Pairs(e, U)) = Cardinality(Rest) + Cardinality(e[c])
  <2>1. IsFiniteSet(e[c]) /\ Cardinality(e[c]) \in Nat
    BY <1>2, FS_Subset, FS_CardinalityType
  <2>2. IsFiniteSet({c} \X e[c]) /\ Cardinality({c} \X e[c]) = Cardinality(e[c])
    <3>1. /\ IsFiniteSet({c} \X e[c])
          /\ Cardinality({c} \X e[c]) = Cardinality({c}) * Cardinality(e[c])
      BY <1>1, <2>1, FS_Product
    <3>2. Cardinality({c}) = 1
      BY FS_Singleton
    <3> QED
      BY <2>1, <3>1, <3>2
  <2>3. Rest \in SUBSET (Slots \X U)
    OBVIOUS
  <2>4. IsFiniteSet(Rest) /\ Cardinality(Rest) \in Nat
    BY <1>1, <2>3, FS_Subset, FS_CardinalityType
  <2>5. Pairs(e, U) = Rest \cup ({c} \X e[c])
    <3>1. ASSUME NEW h \in Pairs(e, U) PROVE h \in Rest \cup ({c} \X e[c])
      <4>1. h \in Slots \X U /\ h[2] \in e[h[1]]
        BY <3>1 DEF Pairs
      <4>2. CASE h[1] = c
        BY <4>1, <4>2
      <4>3. CASE h[1] # c
        BY <1>2, <4>1, <4>3
      <4> QED
        BY <4>2, <4>3
    <3>2. ASSUME NEW h \in Rest PROVE h \in Pairs(e, U)
      BY <1>2, <3>2 DEF Pairs
    <3>3. ASSUME NEW h \in {c} \X e[c] PROVE h \in Pairs(e, U)
      BY <1>2, <3>3 DEF Pairs
    <3> QED
      BY <3>1, <3>2, <3>3
  <2>6. Rest \cap ({c} \X e[c]) = {}
    OBVIOUS
  <2> HIDE DEF Rest
  <2>7. Cardinality(Rest \cup ({c} \X e[c]))
          = Cardinality(Rest) + Cardinality({c} \X e[c]) - Cardinality({})
    BY <2>2, <2>4, <2>6, FS_Union
  <2> QED
    BY <2>1, <2>2, <2>4, <2>5, <2>7, FS_EmptySet
<1> HIDE DEF Rest
<1>3. /\ Cardinality(Rest) \in Nat /\ Cardinality(f[c]) \in Nat
      /\ Cardinality(Pairs(f, U)) = Cardinality(Rest) + Cardinality(f[c])
  BY <1>2
<1>4. /\ Cardinality(g[c]) \in Nat
      /\ Cardinality(Pairs(g, U)) = Cardinality(Rest) + Cardinality(g[c])
  BY <1>2
<1> QED
  BY <1>3, <1>4

-------------------------------------------------------------------------------
(* The holders of a message.                                                   *)

QueuedIn(cls, m) == [d \in Slots |-> Queued(cls[d], m)]
HeldIn(cls, m)   == [d \in Slots |-> Held(cls[d], m)]
HoldersOf(cls, m) == Cardinality(Pairs(QueuedIn(cls, m), 1 .. EgressCap))
                       + Cardinality(Pairs(HeldIn(cls, m), InflightIdx))
Base(fan, m) == IF fan.msg_idx = m THEN 1 ELSE 0

LEMMA HoldersIs ==
  ASSUME NEW m
  PROVE  /\ Holders(m) = HoldersOf(clients, m) + Base(fanout, m)
         /\ Holders(m)' = HoldersOf(clients', m) + Base(fanout', m)
<1>1. /\ QueueHolders(m) = Pairs(QueuedIn(clients, m), 1 .. EgressCap)
      /\ QueueHolders(m)' = Pairs(QueuedIn(clients', m), 1 .. EgressCap)
  BY DEF QueueHolders, Pairs, QueuedIn, Queued
<1>2. /\ TableHolders(m) = Pairs(HeldIn(clients, m), InflightIdx)
      /\ TableHolders(m)' = Pairs(HeldIn(clients', m), InflightIdx)
  BY DEF TableHolders, Pairs, HeldIn, Held, Connected, Live
<1> QED
  BY <1>1, <1>2 DEF Holders, HoldersOf, Base

LEMMA HoldersNat ==
  ASSUME NEW cls, NEW m
  PROVE  HoldersOf(cls, m) \in Nat
<1>1. ASSUME NEW U, IsFiniteSet(U), NEW f PROVE Cardinality(Pairs(f, U)) \in Nat
  <2>1. IsFiniteSet(Slots \X U)
    BY <1>1, SlotsAssumption, FS_Product
  <2>2. Pairs(f, U) \in SUBSET (Slots \X U)
    BY DEF Pairs
  <2> QED
    BY <2>1, <2>2, FS_Subset, FS_CardinalityType
<1>2. IsFiniteSet(1 .. EgressCap) /\ IsFiniteSet(InflightIdx)
  BY EgressAssumption, FS_Interval, TableFinite
<1>3. /\ Cardinality(Pairs(QueuedIn(cls, m), 1 .. EgressCap)) \in Nat
      /\ Cardinality(Pairs(HeldIn(cls, m), InflightIdx)) \in Nat
  BY <1>1, <1>2
<1> QED
  BY <1>3 DEF HoldersOf

(* A queue in order fits the ring. *)
LEMMA OwnedParts ==
  ASSUME NEW cl, RecordOK(cl), NEW m
  PROVE  /\ Queued(cl, m) \in SUBSET (1 .. EgressCap) /\ Held(cl, m) \in SUBSET InflightIdx
         /\ Cardinality(Queued(cl, m)) \in Nat /\ Cardinality(Held(cl, m)) \in Nat
<1>1. Len(cl.egress) \in Nat /\ Len(cl.egress) <= EgressCap /\ EgressCap \in Nat
  BY LenProperties, EgressAssumption DEF RecordOK, ClientOK, Shaped, Client
<1>2. 1 .. Len(cl.egress) \subseteq 1 .. EgressCap
  BY <1>1
<1> QED
  BY <1>2, OwnedNat DEF RecordOK

(* When slot c changes, the holders change by what its record owns.            *)
LEMMA HoldersChange ==
  ASSUME EInv, NEW c \in Slots, NEW new, RecordOK(new),
         clients' = [clients EXCEPT ![c] = new], NEW m
  PROVE  /\ HoldersOf(clients, m) \in Nat /\ HoldersOf(clients', m) \in Nat
         /\ Owned(clients[c], m) \in Nat /\ Owned(new, m) \in Nat
         /\ Owned(clients[c], m) <= HoldersOf(clients, m)
         /\ HoldersOf(clients', m) = HoldersOf(clients, m) - Owned(clients[c], m)
                                       + Owned(new, m)
<1> DEFINE cl == clients[c]
           qf == QueuedIn(clients, m)
           qg == QueuedIn(clients', m)
           tf == HeldIn(clients, m)
           tg == HeldIn(clients', m)
           U == 1 .. EgressCap
<1>1. RecordOK(cl) /\ clients'[c] = new /\ \A d \in Slots \ {c} : clients'[d] = clients[d]
  BY DEF EInv, IInv, TypeOK, SlotsOK, SlotOK
<1>2. /\ qf[c] = Queued(cl, m) /\ qg[c] = Queued(new, m)
      /\ \A d \in Slots \ {c} : qg[d] = qf[d]
  BY <1>1 DEF QueuedIn
<1>3. /\ tf[c] = Held(cl, m) /\ tg[c] = Held(new, m)
      /\ \A d \in Slots \ {c} : tg[d] = tf[d]
  BY <1>1 DEF HeldIn
<1>4. /\ IsFiniteSet(U) /\ IsFiniteSet(InflightIdx)
      /\ qf[c] \in SUBSET U /\ qg[c] \in SUBSET U
      /\ tf[c] \in SUBSET InflightIdx /\ tg[c] \in SUBSET InflightIdx
  <2>1. IsFiniteSet(U) /\ IsFiniteSet(InflightIdx)
    BY TableFinite, EgressAssumption, FS_Interval
  <2>2. /\ Queued(cl, m) \in SUBSET U /\ Held(cl, m) \in SUBSET InflightIdx
        /\ Queued(new, m) \in SUBSET U /\ Held(new, m) \in SUBSET InflightIdx
    BY <1>1, OwnedParts
  <2> QED
    BY <1>2, <1>3, <2>1, <2>2
<1> HIDE DEF qf, qg, tf, tg, U
<1>5. /\ Cardinality(Pairs(qf, U)) \in Nat /\ Cardinality(Pairs(qg, U)) \in Nat
      /\ Cardinality(qf[c]) \in Nat /\ Cardinality(qg[c]) \in Nat
      /\ Cardinality(qf[c]) <= Cardinality(Pairs(qf, U))
      /\ Cardinality(Pairs(qg, U)) = Cardinality(Pairs(qf, U)) - Cardinality(qf[c])
                                       + Cardinality(qg[c])
  BY <1>2, <1>4, PairsChange
<1>6. /\ Cardinality(Pairs(tf, InflightIdx)) \in Nat /\ Cardinality(Pairs(tg, InflightIdx)) \in Nat
      /\ Cardinality(tf[c]) \in Nat /\ Cardinality(tg[c]) \in Nat
      /\ Cardinality(tf[c]) <= Cardinality(Pairs(tf, InflightIdx))
      /\ Cardinality(Pairs(tg, InflightIdx)) = Cardinality(Pairs(tf, InflightIdx))
                                                 - Cardinality(tf[c]) + Cardinality(tg[c])
  BY <1>3, <1>4, PairsChange
<1>7. /\ HoldersOf(clients, m) = Cardinality(Pairs(qf, U)) + Cardinality(Pairs(tf, InflightIdx))
      /\ HoldersOf(clients', m) = Cardinality(Pairs(qg, U)) + Cardinality(Pairs(tg, InflightIdx))
      /\ Owned(cl, m) = Cardinality(qf[c]) + Cardinality(tf[c])
      /\ Owned(new, m) = Cardinality(qg[c]) + Cardinality(tg[c])
  BY <1>2, <1>3 DEF HoldersOf, Owned, qf, qg, tf, tg, U
<1> QED
  BY <1>5, <1>6, <1>7

-------------------------------------------------------------------------------
(* The count of a message follows its holders.                                 *)

(* A handler that gives back drop[m] references to every m, and as many owners. *)
LEMMA ReleaseRefs ==
  ASSUME EInv, RefsExact, NEW c \in Slots, NEW new, RecordOK(new),
         clients' = [clients EXCEPT ![c] = new],
         NEW drop, \A m \in Msgs : /\ drop[m] \in Nat
                                   /\ Owned(new, m) = Owned(clients[c], m) - drop[m],
         Release(drop), UNCHANGED fanout
  PROVE  RefsExact'
<1> SUFFICES ASSUME NEW m \in Msgs
             PROVE  ref_count'[m] = Holders(m)' /\ (m \in msg_free' <=> Holders(m)' = 0)
  BY DEF RefsExact
<1> DEFINE H == HoldersOf(clients, m)
           HH == HoldersOf(clients', m)
           b == Base(fanout, m)
<1>1. /\ H \in Nat /\ HH \in Nat /\ Owned(clients[c], m) \in Nat /\ Owned(new, m) \in Nat
      /\ HH = H - Owned(clients[c], m) + Owned(new, m)
  BY HoldersChange
<1>2. Holders(m) = H + b /\ Holders(m)' = HH + b /\ b \in Nat
  BY HoldersIs DEF Base
<1>3. ref_count[m] = Holders(m) /\ (m \in msg_free <=> Holders(m) = 0)
  BY DEF RefsExact
<1>4. /\ ref_count'[m] = ref_count[m] - drop[m]
      /\ m \in msg_free' <=> m \in msg_free \/ (drop[m] > 0 /\ ref_count[m] = drop[m])
  BY DEF Release
<1>5. drop[m] \in Nat /\ Owned(new, m) = Owned(clients[c], m) - drop[m]
  OBVIOUS
<1> HIDE DEF H, HH, b
<1>6. /\ Holders(m)' = Holders(m) - drop[m]
      /\ Holders(m) \in Nat /\ Holders(m)' \in Nat
  BY <1>1, <1>2, <1>5
<1> QED
  BY <1>3, <1>4, <1>5, <1>6

(* A handler that keeps the owners and the counts. *)
LEMMA KeptRefs ==
  ASSUME EInv, RefsExact, NEW c \in Slots, NEW new, RecordOK(new),
         clients' = [clients EXCEPT ![c] = new],
         \A m \in Msgs : Owned(new, m) = Owned(clients[c], m),
         UNCHANGED <<ref_count, msg_free, fanout>>
  PROVE  RefsExact'
<1> SUFFICES ASSUME NEW m \in Msgs
             PROVE  ref_count'[m] = Holders(m)' /\ (m \in msg_free' <=> Holders(m)' = 0)
  BY DEF RefsExact
<1>1. /\ HoldersOf(clients, m) \in Nat /\ Owned(clients[c], m) \in Nat
      /\ HoldersOf(clients', m) = HoldersOf(clients, m) - Owned(clients[c], m) + Owned(new, m)
  BY HoldersChange
<1>2. HoldersOf(clients', m) = HoldersOf(clients, m)
  BY <1>1
<1>3. Holders(m)' = Holders(m)
  BY <1>2, HoldersIs
<1> QED
  BY <1>3 DEF RefsExact

LEMMA SameRefs ==
  ASSUME RefsExact, UNCHANGED <<clients, ref_count, msg_free, fanout>>
  PROVE  RefsExact'
<1>1. \A m : Holders(m)' = Holders(m)
  BY HoldersIs
<1> QED
  BY <1>1 DEF RefsExact

LEMMA FlushOwned ==
  ASSUME NEW c, NEW cl, RecordOK(cl), NEW queue, NEW requests,
         FlushInto(c, cl, queue, requests)
  PROVE  \E new : /\ clients' = [clients EXCEPT ![c] = new] /\ RecordOK(new)
                  /\ \A m : Owned(new, m) = Owned(cl, m)
BY FlushRecord

(* The same for handlers that end in a flush. *)
LEMMA ReleaseFlush ==
  ASSUME EInv, RefsExact, NEW c \in Slots, NEW cl, RecordOK(cl),
         NEW queue, NEW requests, FlushInto(c, cl, queue, requests),
         NEW drop, \A m \in Msgs : /\ drop[m] \in Nat
                                   /\ Owned(cl, m) = Owned(clients[c], m) - drop[m],
         Release(drop), UNCHANGED fanout
  PROVE  RefsExact'
<1>1. PICK new : /\ clients' = [clients EXCEPT ![c] = new] /\ RecordOK(new)
                 /\ \A m : Owned(new, m) = Owned(cl, m)
  BY FlushOwned
<1> QED
  BY <1>1, ReleaseRefs

LEMMA KeptFlushRefs ==
  ASSUME EInv, RefsExact, NEW c \in Slots, NEW cl, RecordOK(cl),
         NEW queue, NEW requests, FlushInto(c, cl, queue, requests),
         \A m \in Msgs : Owned(cl, m) = Owned(clients[c], m),
         UNCHANGED <<ref_count, msg_free, fanout>>
  PROVE  RefsExact'
<1>1. PICK new : /\ clients' = [clients EXCEPT ![c] = new] /\ RecordOK(new)
                 /\ \A m : Owned(new, m) = Owned(cl, m)
  BY FlushOwned
<1> QED
  BY <1>1, KeptRefs

(* Nothing but a connection owns references. *)
LEMMA IdleOwnsNothing ==
  ASSUME NEW cl, RecordOK(cl), ~Live(cl), NEW m
  PROVE  Owned(cl, m) = 0
<1>1. cl.egress = << >>
  BY DEF RecordOK, ClientOK, Shaped, Live
<1>2. Queued(cl, m) = {} /\ Held(cl, m) = {}
  BY <1>1, EmptySeq DEF Queued, Held
<1> QED
  BY <1>2, FS_EmptySet DEF Owned

(* What a connection being closed gives back. *)
LEMMA CloseOwned ==
  ASSUME NEW cl, RecordOK(cl), Live(cl), NEW m
  PROVE  QueueRefs(cl, Len(cl.egress), m) + EntryRefs(cl, Outgoing(cl), m) = Owned(cl, m)
<1>1. DOMAIN cl.egress = 1 .. Len(cl.egress)
  BY LenProperties DEF RecordOK, ClientOK, Client
<1>2. /\ Queued(cl, m) = {i \in 1 .. Len(cl.egress) : i \in DOMAIN cl.egress
                                                        /\ OwnsRef(cl.egress[i])
                                                        /\ cl.egress[i].msg_idx = m}
      /\ Held(cl, m) = {s \in Outgoing(cl) : cl.inflight[s].msg_idx = m}
  BY <1>1 DEF Queued, Held
<1> QED
  BY <1>2 DEF QueueRefs, EntryRefs, Owned

-------------------------------------------------------------------------------
(* Every step keeps the counts: one lemma per action that changes a record.    *)

LEMMA InitRefs == Init => RefsExact
<1> SUFFICES ASSUME Init, NEW m \in Msgs
             PROVE  ref_count[m] = Holders(m) /\ (m \in msg_free <=> Holders(m) = 0)
  BY DEF RefsExact
<1>1. ASSUME NEW c \in Slots PROVE Queued(clients[c], m) = {} /\ Held(clients[c], m) = {}
  <2>1. clients[c] = UnusedClient
    BY DEF Init
  <2>2. UnusedClient.egress = << >> /\ ~Live(UnusedClient)
    BY DEF UnusedClient, Live
  <2> QED
    BY <2>1, <2>2, EmptySeq DEF Queued, Held
<1>2. Pairs(QueuedIn(clients, m), 1 .. EgressCap) = {} /\ Pairs(HeldIn(clients, m), InflightIdx) = {}
  BY <1>1 DEF Pairs, QueuedIn, HeldIn
<1>3. HoldersOf(clients, m) = 0
  BY <1>2, FS_EmptySet DEF HoldersOf
<1>4. Base(fanout, m) = 0
  BY NoMsgAssumption DEF Init, NoFanout, Base
<1>5. Holders(m) = 0
  BY <1>3, <1>4, HoldersIs
<1> QED
  BY <1>5 DEF Init

LEMMA AcceptRefs ==
  ASSUME EInv, RefsExact, NEW c \in Slots, Accept(c)
  PROVE  RefsExact'
<1> DEFINE cl == clients[c]
<1>1. /\ RecordOK(cl) /\ cl \in Client /\ cl.generation < MaxGen /\ ~Live(cl)
      /\ clients' = [clients EXCEPT ![c] = ClientInit(cl)]
      /\ UNCHANGED <<ref_count, msg_free, fanout>>
  BY DEF Accept, EInv, IInv, TypeOK, SlotsOK, SlotOK, Live
<1>2. RecordOK(ClientInit(cl)) /\ \A m \in Msgs : Owned(ClientInit(cl), m) = Owned(cl, m)
  BY <1>1, ClientInitRecord, IdleOwnsNothing
<1> QED
  BY <1>1, <1>2, KeptRefs

LEMMA SubmitCloseRefs ==
  ASSUME EInv, RefsExact, NEW c \in Slots, SubmitClose(c)
  PROVE  RefsExact'
<1> DEFINE cl == clients[c]
           new == [cl EXCEPT !.state = "CLOSING"]
<1>1. /\ RecordOK(cl) /\ cl \in Client /\ cl.state = "ACTIVE"
      /\ clients' = [clients EXCEPT ![c] = new]
      /\ UNCHANGED <<ref_count, msg_free, fanout>>
  BY DEF SubmitClose, EInv, IInv, TypeOK, SlotsOK, SlotOK
<1>2. /\ new \in Client /\ new.egress = cl.egress /\ new.inflight = cl.inflight
      /\ new.inflight_count = cl.inflight_count
      /\ Live(cl) /\ Live(new) /\ new.generation = cl.generation
      /\ new.egress_inflight = cl.egress_inflight
      /\ new.egress_batch_count = cl.egress_batch_count
  BY <1>1 DEF Client, Live
<1> HIDE DEF new
<1>3. RecordOK(new) /\ \A m : Owned(new, m) = Owned(cl, m)
  BY <1>1, <1>2, SameRecord
<1> QED
  BY <1>1, <1>3, KeptRefs

LEMMA HandleCloseRefs ==
  ASSUME EInv, RefsExact, NEW c \in Slots, NEW clean \in BOOLEAN, HandleClose(c, clean)
  PROVE  RefsExact'
<1> DEFINE cl == clients[c]
           drained == [cl EXCEPT !.egress = << >>]
           new == IF clean THEN ClientFree(FreeAll(drained)) ELSE ClientGoDormant(drained)
           drop == [m \in Msgs |-> QueueRefs(cl, Len(cl.egress), m)
                                     + EntryRefs(cl, Outgoing(cl), m)]
<1>1. /\ RecordOK(cl) /\ Live(cl)
      /\ clients' = [clients EXCEPT ![c] = new] /\ Release(drop) /\ UNCHANGED fanout
  BY DEF HandleClose, EInv, SlotsOK, SlotOK, Live
<1>2. RecordOK(new) /\ \A m : Owned(new, m) = 0
  BY <1>1, CloseRecord
<1>3. \A m \in Msgs : drop[m] = Owned(cl, m)
  BY <1>1, CloseOwned
<1>4. \A m : Owned(cl, m) \in Nat
  BY <1>1, OwnedNat DEF RecordOK
<1> HIDE DEF new, drop
<1>5. \A m \in Msgs : drop[m] \in Nat /\ Owned(new, m) = Owned(cl, m) - drop[m]
  BY <1>2, <1>3, <1>4
<1> QED
  BY <1>1, <1>2, <1>5, ReleaseRefs

(* The message a PUBLISH takes from the pool starts with the base reference.   *)
LEMMA PublishRefs ==
  ASSUME EInv, RefsExact, NEW p \in Slots, NEW qos \in PubQos, NEW id \in PubIds, NEW buffer,
         NEW targets \in SUBSET {t \in Slots : clients[t].state = "ACTIVE"},
         Publish(p, qos, id, targets, buffer)
  PROVE  RefsExact'
<1> DEFINE new == Tracked(clients[p], qos, id)
<1>1. /\ id \in PacketIds /\ RecordOK(clients[p]) /\ fanout = NoFanout
      /\ clients' = [clients EXCEPT ![p] = new]
  BY PubAssumption DEF Publish, Ready, EInv, SlotsOK, SlotOK
<1>2. RecordOK(new) /\ \A m : Owned(new, m) = Owned(clients[p], m)
  BY <1>1, TrackedKept
<1> HIDE DEF new
<1>3. CASE UNCHANGED <<msg_free, ref_count, fanout>>
  BY <1>1, <1>2, <1>3, KeptRefs
<1>4. ASSUME NEW m \in msg_free, FanOut(m, qos, targets)
      PROVE  RefsExact'
  <2> SUFFICES ASSUME NEW x \in Msgs
               PROVE  ref_count'[x] = Holders(x)' /\ (x \in msg_free' <=> Holders(x)' = 0)
    BY DEF RefsExact
  <2>1. /\ HoldersOf(clients, x) \in Nat /\ Owned(clients[p], x) \in Nat
        /\ HoldersOf(clients', x) = HoldersOf(clients, x) - Owned(clients[p], x) + Owned(new, x)
    BY <1>1, <1>2, HoldersChange
  <2>2. HoldersOf(clients', x) = HoldersOf(clients, x)
    BY <1>2, <2>1
  <2>3. Base(fanout, x) = 0 /\ Base(fanout', x) = IF x = m THEN 1 ELSE 0
    BY <1>1, <1>4, NoMsgAssumption DEF Base, NoFanout, FanOut
  <2>4. Holders(x) = HoldersOf(clients, x) + Base(fanout, x)
        /\ Holders(x)' = HoldersOf(clients', x) + Base(fanout', x)
    BY HoldersIs
  <2>5. ref_count[x] = Holders(x) /\ (x \in msg_free <=> Holders(x) = 0)
    BY DEF RefsExact
  <2>6. /\ ref_count'[x] = IF x = m THEN 1 ELSE ref_count[x]
        /\ x \in msg_free' <=> x \in msg_free /\ x # m
    BY <1>4 DEF EInv, IInv, TypeOK, FanOut
  <2> QED
    BY <1>4, <2>1, <2>2, <2>3, <2>4, <2>5, <2>6
<1> QED
  BY <1>3, <1>4 DEF Publish, NoBuffer

(* A forwarded message gains an owner, and keeps the base reference.           *)
LEMMA ForwardRefs ==
  ASSUME EInv, RefsExact, NEW c \in Slots, Forward(c)
  PROVE  RefsExact'
<1> DEFINE cl == clients[c]
           m == fanout.msg_idx
           push == Push(cl, PublishSeg(cl, m, fanout.qos, 0, FALSE))
<1>1. /\ RecordOK(cl) /\ Live(cl) /\ m \in Msgs /\ fanout.qos \in 0..2
      /\ UNCHANGED msg_free
  BY DEF Forward, EInv, SlotsOK, SlotOK, IInv, FanoutOK, TypeOK, Live, LoopsOK, FanoutMsg
<1>2. fanout'.msg_idx = m
  BY DEF Forward, EInv, IInv, TypeOK
<1>3. \A x : Base(fanout', x) = Base(fanout, x)
  BY <1>2 DEF Base
<1>4. CASE EgressFull(cl)
  <2>1. UNCHANGED <<clients, ref_count, msg_free>>
    BY <1>1, <1>4 DEF Forward
  <2>2. \A x : Holders(x)' = Holders(x)
    BY <1>3, <2>1, HoldersIs
  <2> QED
    BY <2>1, <2>2 DEF RefsExact
<1>5. CASE ~EgressFull(cl)
  <2>1. ref_count' = [ref_count EXCEPT ![m] = @ + 1]
        /\ FlushInto(c, push, flush_queue, writevs)
    BY <1>5 DEF Forward, Flush
  <2>2. /\ RecordOK(push)
        /\ \A x : Owned(push, x) = Owned(cl, x) + (IF x = m THEN 1 ELSE 0)
    BY <1>1, <1>5, ForwardKept
  <2> HIDE DEF push
  <2>3. PICK new : /\ clients' = [clients EXCEPT ![c] = new] /\ RecordOK(new)
                   /\ \A x : Owned(new, x) = Owned(push, x)
    BY <2>1, <2>2, FlushOwned
  <2> SUFFICES ASSUME NEW x \in Msgs
               PROVE  ref_count'[x] = Holders(x)' /\ (x \in msg_free' <=> Holders(x)' = 0)
    BY DEF RefsExact
  <2>4. /\ HoldersOf(clients, x) \in Nat /\ Owned(cl, x) \in Nat
        /\ HoldersOf(clients', x) = HoldersOf(clients, x) - Owned(cl, x) + Owned(new, x)
    BY <2>3, HoldersChange
  <2>5. HoldersOf(clients', x) = HoldersOf(clients, x) + (IF x = m THEN 1 ELSE 0)
    BY <2>2, <2>3, <2>4
  <2>6. Holders(x) = HoldersOf(clients, x) + Base(fanout, x)
        /\ Holders(x)' = HoldersOf(clients', x) + Base(fanout, x)
    BY <1>3, HoldersIs
  <2>7. ref_count[x] = Holders(x) /\ (x \in msg_free <=> Holders(x) = 0)
    BY DEF RefsExact
  <2>8. ref_count'[x] = IF x = m THEN ref_count[x] + 1 ELSE ref_count[x]
    BY <2>1 DEF EInv, IInv, TypeOK
  <2>9. x = m => Base(fanout, x) = 1
    BY DEF Base
  <2>10. Base(fanout, x) \in Nat
    BY DEF Base
  <2> QED
    BY <1>1, <2>4, <2>5, <2>6, <2>7, <2>8, <2>9, <2>10
<1> QED
  BY <1>4, <1>5

(* The end of a fan-out gives the base reference back. *)
LEMMA PublishDoneRefs ==
  ASSUME EInv, RefsExact, PublishDone
  PROVE  RefsExact'
<1> DEFINE b == fanout.msg_idx
<1>1. /\ clients' = clients /\ fanout' = NoFanout /\ Release(Once(b))
  BY DEF PublishDone
<1> SUFFICES ASSUME NEW x \in Msgs
             PROVE  ref_count'[x] = Holders(x)' /\ (x \in msg_free' <=> Holders(x)' = 0)
  BY DEF RefsExact
<1>2. Holders(x) = HoldersOf(clients, x) + Base(fanout, x)
      /\ Holders(x)' = HoldersOf(clients, x) + Base(fanout', x)
  BY <1>1, HoldersIs
<1>3. Base(fanout, x) = (IF b = x THEN 1 ELSE 0) /\ Base(fanout', x) = 0
  BY <1>1, NoMsgAssumption DEF Base, NoFanout
<1>4. Once(b)[x] = IF x = b THEN 1 ELSE 0
  BY DEF Once
<1>5. /\ ref_count'[x] = ref_count[x] - Once(b)[x]
      /\ x \in msg_free' <=> x \in msg_free \/ (Once(b)[x] > 0 /\ ref_count[x] = Once(b)[x])
  BY <1>1 DEF Release
<1>6. ref_count[x] = Holders(x) /\ (x \in msg_free <=> Holders(x) = 0)
  BY DEF RefsExact
<1>7. HoldersOf(clients, x) \in Nat
  BY HoldersNat
<1> QED
  BY <1>2, <1>3, <1>4, <1>5, <1>6, <1>7

(* An entry of a message being received holds no message. *)
LEMMA PubrelRefs ==
  ASSUME EInv, RefsExact, NEW p \in Slots, NEW id \in PubIds, Pubrel(p, id)
  PROVE  RefsExact'
<1> DEFINE cl == clients[p]
<1>1. /\ RecordOK(cl) /\ Live(cl) /\ UNCHANGED <<ref_count, msg_free, fanout>>
  BY DEF Pubrel, EInv, SlotsOK, SlotOK, Live
<1>2. PICK s \in Used(cl) : /\ cl.inflight[s].direction = "in"
                            /\ clients' = [clients EXCEPT ![p] = FreeSlot(cl, s)]
  BY DEF Pubrel, Find, FindDirect, Incoming
<1>3. cl.inflight[s].msg_idx = NoMsg
  BY <1>1, <1>2 DEF RecordOK, TableOK
<1>4. /\ RecordOK(FreeSlot(cl, s))
      /\ \A m \in Msgs : Owned(FreeSlot(cl, s), m)
                           = Owned(cl, m) - (IF cl.inflight[s].msg_idx = m THEN 1 ELSE 0)
  BY <1>1, FreeSlotKept
<1>5. \A m \in Msgs : Owned(FreeSlot(cl, s), m) = Owned(cl, m)
  <2>1. \A m : Owned(cl, m) \in Nat
    BY <1>1, OwnedNat DEF RecordOK
  <2> QED
    BY <1>3, <1>4, <2>1, NoMsgAssumption
<1> QED
  BY <1>1, <1>2, <1>4, <1>5, KeptRefs

(* Freeing an outgoing entry gives its reference back. *)
LEMMA FreeSlotOwned ==
  ASSUME NEW cl, RecordOK(cl), Live(cl), NEW s \in Used(cl)
  PROVE  /\ RecordOK(FreeSlot(cl, s)) /\ Live(FreeSlot(cl, s))
         /\ \A m \in Msgs :
              /\ Once(cl.inflight[s].msg_idx)[m] \in Nat
              /\ Owned(FreeSlot(cl, s), m) = Owned(cl, m) - Once(cl.inflight[s].msg_idx)[m]
<1>1. /\ RecordOK(FreeSlot(cl, s)) /\ Kept(cl, FreeSlot(cl, s))
      /\ \A m \in Msgs : Owned(FreeSlot(cl, s), m)
                           = Owned(cl, m) - (IF cl.inflight[s].msg_idx = m THEN 1 ELSE 0)
  BY FreeSlotKept
<1>2. \A m \in Msgs : Once(cl.inflight[s].msg_idx)[m]
                        = IF cl.inflight[s].msg_idx = m THEN 1 ELSE 0
  BY DEF Once
<1>3. Live(FreeSlot(cl, s))
  BY <1>1 DEF Kept, Live
<1> HIDE DEF Once
<1> QED
  BY <1>1, <1>2, <1>3

LEMMA PubackRefs ==
  ASSUME EInv, RefsExact, NEW c \in Slots, Puback(c)
  PROVE  RefsExact'
<1> DEFINE cl == clients[c]
           hit == AckedEntry(cl, Head(owed[c]).packet_id, "WAIT_PUBACK")
<1>1. /\ RecordOK(cl) /\ Live(cl) /\ UNCHANGED fanout
  BY DEF Puback, EInv, SlotsOK, SlotOK, Live
<1>2. CASE hit = {}
  <2>1. UNCHANGED <<clients, ref_count, msg_free>>
    BY <1>2 DEF Puback
  <2> QED
    BY <1>1, <2>1, SameRefs
<1>3. CASE hit # {}
  <2>1. PICK s \in hit : /\ Release(Once(cl.inflight[s].msg_idx))
                         /\ FlushInto(c, FreeSlot(cl, s), flush_queue, writevs)
    BY <1>3 DEF Puback, Flush
  <2>2. s \in Used(cl)
    BY DEF AckedEntry, FindDirect
  <2> DEFINE drop == Once(cl.inflight[s].msg_idx)
             freed == FreeSlot(cl, s)
  <2>3. /\ RecordOK(freed)
        /\ \A m \in Msgs : drop[m] \in Nat /\ Owned(freed, m) = Owned(cl, m) - drop[m]
    BY <1>1, <2>2, FreeSlotOwned
  <2>4. Release(drop) /\ FlushInto(c, freed, flush_queue, writevs)
    BY <2>1
  <2> HIDE DEF drop, freed
  <2> QED
    BY <1>1, <2>3, <2>4, ReleaseFlush
<1> QED
  BY <1>2, <1>3

LEMMA PubrecRefs ==
  ASSUME EInv, RefsExact, NEW c \in Slots, Pubrec(c)
  PROVE  RefsExact'
<1> DEFINE cl == clients[c]
           hit == AckedEntry(cl, Head(owed[c]).packet_id, "WAIT_PUBREC")
<1>1. /\ RecordOK(cl) /\ Live(cl) /\ UNCHANGED fanout
  BY DEF Pubrec, EInv, SlotsOK, SlotOK, Live
<1>2. ASSUME NEW x, RecordOK(x), Live(x)
      PROVE  RecordOK(WithPubrel(x)) /\ \A m : Owned(WithPubrel(x), m) = Owned(x, m)
  <2>1. Kept(x, x)
    BY DEF Kept
  <2> QED
    BY <1>2, <2>1, WithPubrelKept
<1>3. CASE hit = {}
  <2>1. FlushInto(c, WithPubrel(cl), flush_queue, writevs)
        /\ UNCHANGED <<ref_count, msg_free>>
    BY <1>3 DEF Pubrec, Flush
  <2> QED
    BY <1>1, <1>2, <2>1, KeptFlushRefs
<1>4. CASE hit # {}
  <2>1. PICK s \in hit : /\ Release(Once(cl.inflight[s].msg_idx))
                         /\ FlushInto(c, WithPubrel(FreeSlot(cl, s)), flush_queue, writevs)
    BY <1>4 DEF Pubrec, Flush
  <2>2. s \in Used(cl)
    BY DEF AckedEntry, FindDirect
  <2> DEFINE drop == Once(cl.inflight[s].msg_idx)
             freed == FreeSlot(cl, s)
             new == WithPubrel(freed)
  <2>3. /\ RecordOK(freed) /\ Live(freed)
        /\ \A m \in Msgs : drop[m] \in Nat /\ Owned(freed, m) = Owned(cl, m) - drop[m]
    BY <1>1, <2>2, FreeSlotOwned
  <2>4. Release(drop) /\ FlushInto(c, new, flush_queue, writevs)
    BY <2>1
  <2> HIDE DEF drop, freed
  <2>5. /\ RecordOK(new)
        /\ \A m \in Msgs : drop[m] \in Nat /\ Owned(new, m) = Owned(cl, m) - drop[m]
    BY <1>2, <2>3
  <2> HIDE DEF new
  <2> QED
    BY <1>1, <2>4, <2>5, ReleaseFlush
<1> QED
  BY <1>3, <1>4

LEMMA SweepEntryRefs ==
  ASSUME EInv, RefsExact, SweepEntry
  PROVE  RefsExact'
<1> DEFINE c == sweep.slot
           cl == clients[c]
           s == sweep.i
<1>1. /\ c \in Slots /\ RecordOK(cl) /\ Live(cl) /\ UNCHANGED fanout
  BY DEF SweepEntry, EInv, IInv, SweepOK, SlotsOK, SlotOK, Live
<1>2. CASE UNCHANGED <<clients, ref_count, msg_free, flush_queue, writevs>>
  BY <1>1, <1>2, SameRefs
<1>3. CASE s \in Used(cl) /\ s \in sweep.due /\ Timeout(c, s)
  <2> DEFINE entry == cl.inflight[s]
             retry == [cl EXCEPT !.inflight[s].dup_count = @ + 1]
             new == Push(retry, PublishSeg(cl, entry.msg_idx, entry.qos, entry.packet_id, TRUE))
             drop == Once(entry.msg_idx)
             freed == FreeSlot(cl, s)
  <2>1. CASE entry.dup_count >= MaxRetries \/ EgressFull(cl)
    <3>1. Release(drop) /\ clients' = [clients EXCEPT ![c] = freed]
      BY <1>3, <2>1 DEF Timeout
    <3>2. /\ RecordOK(freed)
          /\ \A m \in Msgs : drop[m] \in Nat /\ Owned(freed, m) = Owned(cl, m) - drop[m]
      BY <1>1, <1>3, FreeSlotOwned
    <3> HIDE DEF drop, freed
    <3> QED
      BY <1>1, <3>1, <3>2, ReleaseRefs
  <2>2. CASE ~(entry.dup_count >= MaxRetries \/ EgressFull(cl))
    <3>1. FlushInto(c, new, flush_queue, writevs) /\ UNCHANGED <<ref_count, msg_free>>
      BY <1>3, <2>2 DEF Timeout, Flush
    <3>2. s \in Outgoing(cl)
      BY <1>3, DueOutgoing
    <3>3. RecordOK(new) /\ \A m : Owned(new, m) = Owned(cl, m)
      BY <1>1, <2>2, <3>2, TimeoutKept
    <3> HIDE DEF new
    <3> QED
      BY <1>1, <3>1, <3>3, KeptFlushRefs
  <2> QED
    BY <2>1, <2>2
<1> QED
  BY <1>2, <1>3 DEF SweepEntry

LEMMA EgressWrittenRefs ==
  ASSUME EInv, RefsExact, NEW op \in writevs, EgressWritten(op)
  PROVE  RefsExact'
<1> DEFINE c == op.slot
           cl == Completed(c)
           k == op.res.done
           new == Resumed(Drop(cl, k), op.res.part)
           drop == [m \in Msgs |-> Completions(cl, k, m)]
<1>1. /\ Current(op) /\ c \in Slots /\ op.res.part \in BOOLEAN /\ UNCHANGED fanout
      /\ Release(drop) /\ FlushInto(c, new, flush_queue, writevs \ {op})
  BY DEF EgressWritten, Completes, EInv, IInv, TypeOK
<1>2. RecordOK(cl) /\ ~cl.egress_inflight /\ \A m : Owned(cl, m) = Owned(clients[c], m)
  BY <1>1, CompletedRecord DEF Settled
<1>3. k \in Nat /\ k <= Len(cl.egress) /\ \A i \in 1 .. k : ~NeedsId(cl.egress[i])
  BY <1>1, WrittenPrefix
<1> HIDE DEF cl, k
<1>4. /\ RecordOK(new)
      /\ \A m \in Msgs : /\ Completions(cl, k, m) \in Nat
                         /\ Owned(new, m) = Owned(cl, m) - Completions(cl, k, m)
  BY <1>1, <1>2, <1>3, WrittenRecord
<1>5. \A m \in Msgs : drop[m] \in Nat /\ Owned(new, m) = Owned(clients[c], m) - drop[m]
  BY <1>2, <1>4
<1> HIDE DEF new, drop
<1> QED
  BY <1>1, <1>4, <1>5, ReleaseFlush

LEMMA EgressAgainRefs ==
  ASSUME EInv, RefsExact, NEW op \in writevs, EgressAgain(op)
  PROVE  RefsExact'
<1>1. /\ op.slot \in Slots /\ UNCHANGED <<ref_count, msg_free, fanout>>
      /\ FlushInto(op.slot, Completed(op.slot), flush_queue, writevs \ {op})
  BY DEF EgressAgain, Completes, EInv, IInv, TypeOK
<1>2. RecordOK(Completed(op.slot))
      /\ \A m : Owned(Completed(op.slot), m) = Owned(clients[op.slot], m)
  BY <1>1, CompletedRecord
<1> QED
  BY <1>1, <1>2, KeptFlushRefs

LEMMA EgressFatalRefs ==
  ASSUME EInv, RefsExact, NEW op \in writevs, EgressFatal(op)
  PROVE  RefsExact'
<1> DEFINE c == op.slot
           cl == Completed(c)
           n == BatchOf(cl)
           new == Discarded(cl, n)
           drop == [m \in Msgs |-> QueueRefs(cl, n, m) + EntryRefs(cl, Undone(cl, n), m)]
<1>1. /\ Current(op) /\ c \in Slots /\ UNCHANGED fanout
      /\ Release(drop) /\ FlushInto(c, new, flush_queue, writevs \ {op})
  BY DEF EgressFatal, Completes, EInv, IInv, TypeOK
<1>2. /\ RecordOK(cl) /\ ~cl.egress_inflight /\ Live(cl)
      /\ \A m : Owned(cl, m) = Owned(clients[c], m)
  BY <1>1, CompletedRecord DEF Settled, Live, Current, Connected
<1> HIDE DEF cl
<1>3. n \in Nat
  BY <1>2, LenProperties DEF BatchOf, RecordOK, ClientOK, Client
<1> HIDE DEF n
<1>4. /\ RecordOK(new)
      /\ \A m \in Msgs : /\ QueueRefs(cl, n, m) \in Nat /\ EntryRefs(cl, Undone(cl, n), m) \in Nat
                         /\ Owned(new, m) = Owned(cl, m)
                              - (QueueRefs(cl, n, m) + EntryRefs(cl, Undone(cl, n), m))
  BY <1>2, <1>3, DiscardedRecord
<1>5. \A m \in Msgs : drop[m] \in Nat /\ Owned(new, m) = Owned(clients[c], m) - drop[m]
  BY <1>2, <1>4
<1> HIDE DEF new, drop
<1> QED
  BY <1>1, <1>4, <1>5, ReleaseFlush

LEMMA RetryFlushRefs ==
  ASSUME EInv, RefsExact, RetryFlush
  PROVE  RefsExact'
<1> DEFINE c == Head(flush_queue)[1]
           cl == Unqueued(clients[c])
           rest == Tail(flush_queue)
<1>1. /\ c \in Slots /\ UNCHANGED <<ref_count, msg_free, fanout>>
  BY RetryTail DEF RetryFlush
<1>2. \/ FlushInto(c, cl, rest, writevs)
      \/ clients' = [clients EXCEPT ![c] = cl]
  BY DEF RetryFlush, Unqueued
<1>3. RecordOK(cl) /\ \A m : Owned(cl, m) = Owned(clients[c], m)
  BY <1>1, UnqueuedRecord DEF EInv, SlotsOK, SlotOK
<1> HIDE DEF cl, c, rest
<1> QED
  BY <1>1, <1>2, <1>3, KeptFlushRefs, KeptRefs

-------------------------------------------------------------------------------
(* The invariant is inductive.                                                 *)

(* A message without a buffer is free. *)
BareFree == bare \subseteq msg_free

RInv == EInv /\ RefsExact /\ BareFree

LEMMA NextBare == BareFree /\ [Next]_vars => BareFree'
<1> SUFFICES ASSUME BareFree, [Next]_vars PROVE BareFree'
  OBVIOUS
<1>1. CASE UNCHANGED bare /\ msg_free \subseteq msg_free'
  BY <1>1 DEF BareFree
<1>2. ASSUME NEW drop, Release(drop) PROVE msg_free \subseteq msg_free'
  BY <1>2 DEF Release
<1>3. CASE \E c \in Slots :
             \/ Accept(c) \/ SubmitClose(c) \/ Forward(c)
             \/ \E id \in PubIds : Pubrel(c, id)
             \/ \E due \in SUBSET Outgoing(clients[c]) : SweepClient(c, due)
  BY <1>1, <1>3 DEF Accept, SubmitClose, Forward, Pubrel, SweepClient
<1>4. ASSUME NEW c \in Slots, NEW clean \in BOOLEAN, HandleClose(c, clean)
      PROVE  BareFree'
  BY <1>1, <1>2, <1>4 DEF HandleClose
<1>5. ASSUME NEW c \in Slots, NEW qos, NEW id, NEW targets, NEW buffer,
             Publish(c, qos, id, targets, buffer)
      PROVE  BareFree'
  BY <1>5 DEF Publish, FanOut, NoBuffer, BareFree
<1>6. ASSUME NEW c \in Slots, Puback(c) PROVE BareFree'
  BY <1>1, <1>2, <1>6 DEF Puback
<1>7. ASSUME NEW c \in Slots, Pubrec(c) PROVE BareFree'
  BY <1>1, <1>2, <1>7 DEF Pubrec
<1>8. CASE PublishDone
  BY <1>1, <1>2, <1>8 DEF PublishDone
<1>9. CASE SweepEntry
  BY <1>1, <1>2, <1>9 DEF SweepEntry, Timeout
<1>10. CASE SweepDone
  BY <1>1, <1>10 DEF SweepDone
<1>11. ASSUME NEW op \in writevs, NEW k \in 0 .. Len(op.segs), NEW part \in BOOLEAN,
              Transmit(op, k, part)
       PROVE  BareFree'
  BY <1>1, <1>11 DEF Transmit
<1>12. ASSUME NEW op \in writevs, NEW res \in {Again, Fatal}, TransmitFails(op, res)
       PROVE  BareFree'
  BY <1>1, <1>12 DEF TransmitFails
<1>13. ASSUME NEW op \in writevs, EgressStale(op) \/ EgressAgain(op) PROVE BareFree'
  BY <1>1, <1>13 DEF EgressStale, EgressAgain, Completes
<1>14. ASSUME NEW op \in writevs, EgressWritten(op) \/ EgressFatal(op) PROVE BareFree'
  BY <1>1, <1>2, <1>14 DEF EgressWritten, EgressFatal, Completes
<1>15. CASE RetryFlush \/ UNCHANGED vars
  BY <1>1, <1>15 DEF RetryFlush, vars
<1> QED
  BY <1>3, <1>4, <1>5, <1>6, <1>7, <1>8, <1>9, <1>10, <1>11, <1>12, <1>13, <1>14, <1>15
     DEF Next

LEMMA NextRefs == RInv /\ [Next]_vars => RInv'
<1> SUFFICES ASSUME EInv, RefsExact, BareFree, [Next]_vars PROVE EInv' /\ RefsExact' /\ BareFree'
  BY DEF RInv
<1> EInv' /\ BareFree'
  BY NextEInv, NextBare
<1>1. ASSUME NEW c \in Slots, Accept(c) PROVE RefsExact'
  BY <1>1, AcceptRefs
<1>2. ASSUME NEW c \in Slots, SubmitClose(c) PROVE RefsExact'
  BY <1>2, SubmitCloseRefs
<1>3. ASSUME NEW c \in Slots, NEW clean \in BOOLEAN, HandleClose(c, clean) PROVE RefsExact'
  BY <1>3, HandleCloseRefs
<1>4. ASSUME NEW c \in Slots, NEW qos \in PubQos, NEW id \in PubIds, NEW buffer,
             NEW targets \in SUBSET {t \in Slots : clients[t].state = "ACTIVE"},
             Publish(c, qos, id, targets, buffer)
      PROVE  RefsExact'
  BY <1>4, PublishRefs
<1>5. ASSUME NEW c \in Slots, Forward(c) PROVE RefsExact'
  BY <1>5, ForwardRefs
<1>6. ASSUME NEW c \in Slots, NEW id \in PubIds, Pubrel(c, id) PROVE RefsExact'
  BY <1>6, PubrelRefs
<1>7. ASSUME NEW c \in Slots, Puback(c) PROVE RefsExact'
  BY <1>7, PubackRefs
<1>8. ASSUME NEW c \in Slots, Pubrec(c) PROVE RefsExact'
  BY <1>8, PubrecRefs
<1>9. ASSUME NEW c \in Slots, NEW due \in SUBSET Outgoing(clients[c]), SweepClient(c, due)
      PROVE  RefsExact'
  BY <1>9, SameRefs DEF SweepClient
<1>10. ASSUME PublishDone PROVE RefsExact'
  BY <1>10, PublishDoneRefs
<1>11. ASSUME SweepEntry PROVE RefsExact'
  BY <1>11, SweepEntryRefs
<1>12. ASSUME SweepDone PROVE RefsExact'
  BY <1>12, SameRefs DEF SweepDone
<1>13. ASSUME NEW op \in writevs, NEW k \in 0 .. Len(op.segs), NEW part \in BOOLEAN,
              Transmit(op, k, part)
       PROVE  RefsExact'
  BY <1>13, SameRefs DEF Transmit
<1>14. ASSUME NEW op \in writevs, NEW res \in {Again, Fatal}, TransmitFails(op, res)
       PROVE  RefsExact'
  BY <1>14, SameRefs DEF TransmitFails
<1>15. ASSUME NEW op \in writevs, EgressStale(op) PROVE RefsExact'
  BY <1>15, SameRefs DEF EgressStale, Completes
<1>16. ASSUME NEW op \in writevs, EgressWritten(op) \/ EgressAgain(op) \/ EgressFatal(op)
       PROVE  RefsExact'
  BY <1>16, EgressWrittenRefs, EgressAgainRefs, EgressFatalRefs
<1>17. ASSUME RetryFlush PROVE RefsExact'
  BY <1>17, RetryFlushRefs
<1>18. CASE UNCHANGED vars
  BY <1>18, SameRefs DEF vars
<1> QED
  BY <1>1, <1>2, <1>3, <1>4, <1>5, <1>6, <1>7, <1>8, <1>9, <1>10, <1>11, <1>12, <1>13,
     <1>14, <1>15, <1>16, <1>17, <1>18 DEF Next

LEMMA RInvAlways == Spec => []RInv
<1>1. Init => RInv
  BY InitEInv, InitRefs DEF RInv, BareFree, Init
<1> QED
  BY <1>1, NextRefs, PTL DEF Spec

-------------------------------------------------------------------------------
(* The theorems.                                                               *)

(* Whatever the order of fan-outs, completions, acknowledgements, timeouts,    *)
(* failures and disconnects, the reference count of a message is the number of *)
(* its owners, and a message is in the free pool exactly when it has none: no  *)
(* buffer leaks and none is freed twice, for any number of slots and messages  *)
(* and any size of queue and table.                                            *)
THEOREM RefsCorrect == Spec => []RefsExact
<1>1. RInv => RefsExact
  BY DEF RInv
<1> QED
  BY <1>1, RInvAlways, PTL

(* A message that some record accounts for is not free.                        *)
LEMMA OwnedLive ==
  ASSUME EInv, RefsExact, NEW c \in Slots, NEW m \in Msgs, Queued(clients[c], m) # {}
  PROVE  m \notin msg_free
<1> DEFINE cl == clients[c]
<1>1. RecordOK(cl)
  BY DEF EInv, SlotsOK, SlotOK
<1>2. c \in Slots /\ [clients EXCEPT ![c] = cl] = clients
  BY DEF EInv, IInv, TypeOK
<1>3. PICK h : h \in Queued(cl, m)
  OBVIOUS
<1>4. h \in 1 .. EgressCap
  BY <1>1, <1>3, OwnedParts
<1>5. <<c, h>> \in Pairs(QueuedIn(clients, m), 1 .. EgressCap)
  BY <1>3, <1>4 DEF Pairs, QueuedIn
<1>6. QueueHolders(m) = Pairs(QueuedIn(clients, m), 1 .. EgressCap)
  BY DEF QueueHolders, Pairs, QueuedIn, Queued
<1>7. IsFiniteSet(QueueHolders(m))
  <2>1. IsFiniteSet(1 .. EgressCap)
    BY EgressAssumption, FS_Interval
  <2>2. IsFiniteSet(Slots \X (1 .. EgressCap))
    BY <2>1, SlotsAssumption, FS_Product
  <2> QED
    BY <2>2, FS_Subset DEF QueueHolders
<1>8. Cardinality(QueueHolders(m)) \in Nat /\ Cardinality(QueueHolders(m)) # 0
  <2>1. Cardinality(QueueHolders(m)) \in Nat
    BY <1>7, FS_CardinalityType
  <2>2. QueueHolders(m) # {}
    BY <1>5, <1>6
  <2> QED
    BY <1>7, <2>1, <2>2, FS_EmptySet
<1>9. Cardinality(TableHolders(m)) \in Nat
  <2>1. IsFiniteSet(Slots \X InflightIdx)
    BY SlotsAssumption, TableFinite, FS_Product
  <2>2. TableHolders(m) \in SUBSET (Slots \X InflightIdx)
    BY DEF TableHolders
  <2>3. IsFiniteSet(TableHolders(m))
    BY <2>1, <2>2, FS_Subset
  <2> QED
    BY <2>3, FS_CardinalityType
<1>10. Holders(m) # 0
  BY <1>8, <1>9 DEF Holders
<1> QED
  BY <1>10 DEF RefsExact

(* No step of any handler leaves a connection with segments to send and nothing *)
(* under way to send them, but at a head that waits for an inflight entry, at   *)
(* one whose own reference is gone and whose message has lost its buffer, or    *)
(* when the retry queue is full.                                               *)
HeadsLive ==
  \A c \in Slots :
    LET queue == clients[c].egress
    IN  queue # << >> /\ OwnsRef(Head(queue)) => ~Bare(Head(queue), bare)

THEOREM WakeupCorrect == Spec => NoLostWakeup
<1>1. ASSUME RInv PROVE HeadsLive
  <2> SUFFICES ASSUME NEW c \in Slots, clients[c].egress # << >>,
                      OwnsRef(Head(clients[c].egress))
               PROVE  ~Bare(Head(clients[c].egress), bare)
    BY DEF HeadsLive
  <2> DEFINE cl   == clients[c]
             head == cl.egress[1]
  <2>1. EInv /\ RefsExact /\ BareFree
    BY <1>1 DEF RInv
  <2>2. RecordOK(cl)
    BY <2>1 DEF EInv, SlotsOK, SlotOK
  <2>3. 1 \in DOMAIN cl.egress /\ Head(cl.egress) = head
    BY <2>2, LenProperties, HeadTailProperties, EmptySeq DEF RecordOK, ClientOK, Client
  <2>4. head.msg_idx \in Msgs
    BY <2>2, <2>3 DEF RecordOK, QueueOK, OwnsRef
  <2>5. 1 \in Queued(cl, head.msg_idx)
    BY <2>3 DEF Queued
  <2>6. head.msg_idx \notin msg_free
    BY <2>1, <2>4, <2>5, OwnedLive
  <2> QED
    BY <2>1, <2>3, <2>6 DEF Bare, BareFree
<1>2. ASSUME EInv, HeadsLive', [Next]_vars
      PROVE  [\A c \in Slots :
                Stalled(c)' /\ ~Stalled(c) =>
                  \/ NeedsId(Head(clients'[c].egress))
                  \/ HeadDangles(c)'
                  \/ FlushQueueFull(flush_queue)]_vars
  <2>1. Wakes
    BY <1>2, NextEInv
  <2>2. \A c \in Slots : /\ Stalled(c) <=> Waits(c, clients[c], flush_queue)
                         /\ Stalled(c)' <=> Waits(c, clients'[c], flush_queue')
    BY DEF Stalled, Waits, InFlushQueue, InQueue
  <2>3. ASSUME NEW c \in Slots, Stalled(c)', Bare(Head(clients'[c].egress), bare')
        PROVE  HeadDangles(c)'
    BY <1>2, <2>3 DEF HeadsLive, HeadDangles, Stalled
  <2> QED
    BY <2>1, <2>2, <2>3 DEF Wakes, WakesAt
<1> QED
  BY <1>1, <1>2, EInvAlways, RInvAlways, PTL DEF Spec, NoLostWakeup

(* The kernel never sends a QoS 0 message of a live connection whose buffer was *)
(* given back: the queue keeps its reference until the completion.             *)
THEOREM Qos0LiveCorrect == Spec => []Qos0Live
<1>1. ASSUME RInv PROVE Qos0Live
  <2> SUFFICES ASSUME NEW op \in writevs, Current(op), NEW i \in DOMAIN op.segs,
                      op.segs[i].kind = "PUBLISH", op.segs[i].qos = 0
               PROVE  op.segs[i].msg_idx \notin msg_free
    BY DEF Qos0Live
  <2> DEFINE c  == op.slot
             cl == clients[c]
             n  == cl.egress_batch_count
             b  == SubSeq(cl.egress, 1, n)
  <2>1. EInv /\ RefsExact
    BY <1>1 DEF RInv
  <2>2. c \in Slots /\ cl.egress_inflight /\ op.segs = b
    BY <2>1, CurrentOp
  <2>3. RecordOK(cl)
    BY <2>1, <2>2 DEF EInv, SlotsOK, SlotOK
  <2>4. n \in 1 .. Len(cl.egress) /\ cl.egress \in Seq(Segment) /\ Len(cl.egress) \in Nat
    BY <2>2, <2>3, LenProperties DEF RecordOK, BatchOK, ClientOK, Client
  <2>5. 1 \in Int /\ n \in Int /\ 1 <= n /\ \A j \in 1 .. n : cl.egress[j] \in Segment
    BY <2>4, ElementOfSeq
  <2>6. /\ b \in Seq(Segment)
        /\ Len(b) = IF 1 <= n THEN n - 1 + 1 ELSE 0
        /\ \A j \in 1 .. n - 1 + 1 : b[j] = cl.egress[1 + j - 1]
    BY <2>5, SubSeqProperties
  <2>7. DOMAIN b = 1 .. n
    BY <2>5, <2>6, LenProperties
  <2>8. i \in 1 .. n /\ i \in 1 .. n - 1 + 1 /\ 1 + i - 1 = i
    BY <2>2, <2>5, <2>7
  <2>9. op.segs[i] = cl.egress[i]
    BY <2>2, <2>6, <2>8
  <2>10. i \in DOMAIN cl.egress
    BY <2>4, <2>8, LenProperties
  <2> HIDE DEF b, n
  <2>11. cl.egress[i].packet_id = 0 /\ cl.egress[i].msg_idx \in Msgs
    BY <2>3, <2>9, <2>10 DEF RecordOK, QueueOK
  <2>12. i \in Queued(cl, cl.egress[i].msg_idx)
    BY <2>9, <2>10, <2>11 DEF Queued, OwnsRef
  <2> QED
    BY <2>1, <2>2, <2>9, <2>11, <2>12, OwnedLive
<1> QED
  BY <1>1, RInvAlways, PTL
===============================================================================
