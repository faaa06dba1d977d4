---------------------------- MODULE DeliveryProofs ----------------------------
(***************************************************************************)
(* Delivery preserves its types, the count of every inflight table and the *)
(* shape of every egress queue, for any number of slots and messages and   *)
(* any size of tables, queues and batches.                                 *)
(***************************************************************************)
EXTENDS Delivery, ClientSlotProofs

(* The inductive invariant.  A handler that loops (fan-out, sweep) works on    *)
(* connections that stay active until it ends.                                 *)
ClientsOK == \A c \in Slots : ClientOK(clients[c])
FanoutOK  == \A c \in fanout.todo : clients[c].state = "ACTIVE"
SweepOK   == sweep # NoSweep => /\ sweep.slot \in Slots
                                /\ clients[sweep.slot].state = "ACTIVE"

IInv == TypeOK /\ ClientsOK /\ FanoutOK /\ SweepOK

Requests == [slot : Slots, gen : Generations, segs : Seq(Segment),
             res : [kind : {"busy", "again", "fatal", "written"},
                    done : Nat, part : BOOLEAN]]

Queues == Seq(Slots \X Generations)

-------------------------------------------------------------------------------
(* What the steps have in common.                                              *)

(* Replacing one record by one that is in order.                               *)
LEMMA UpdateOK ==
  ASSUME TypeOK, ClientsOK, NEW c \in Slots, NEW new, ClientOK(new),
         clients' = [clients EXCEPT ![c] = new]
  PROVE  clients' \in [Slots -> Client] /\ ClientsOK'
<1>1. new \in Client /\ clients \in [Slots -> Client]
  BY DEF ClientOK, TypeOK
<1>2. clients' \in [Slots -> Client]
  BY <1>1
<1>3. ASSUME NEW d \in Slots
      PROVE  ClientOK(clients'[d])
  BY <1>1 DEF ClientsOK
<1> QED
  BY <1>2, <1>3 DEF ClientsOK

(* Giving back a whole number of references keeps the counts and the pool typed. *)
LEMMA ReleaseOK ==
  ASSUME TypeOK, NEW drop, \A m \in Msgs : drop[m] \in Int, Release(drop)
  PROVE  ref_count' \in [Msgs -> Int] /\ msg_free' \subseteq Msgs
BY DEF Release, TypeOK

(* egress_flush_enqueue keeps the record in order and the retry queue typed.   *)
LEMMA EnqueuedOK ==
  ASSUME NEW c \in Slots, NEW cl, ClientOK(cl), NEW a, ClientOK(a), NEW queue \in Queues
  PROVE  /\ ClientOK(Enqueued(a, queue))
         /\ Enqueued(a, queue).state = a.state
         /\ Enqueue(c, cl, queue) \in Queues
<1> DEFINE new == Enqueued(a, queue)
<1>1. /\ new \in Client /\ new.egress = a.egress /\ new.inflight = a.inflight
      /\ new.inflight_count = a.inflight_count
      /\ new.state = a.state /\ new.generation = a.generation
  <2>1. a.egress_retry_queued \/ CanEnqueue(a, queue) \in BOOLEAN
    BY DEF CanEnqueue, ClientOK, Client
  <2> QED
    BY <2>1 DEF Enqueued, ClientOK, Client
<1>2. ClientOK(new)
  BY <1>1, SameQueueAndTable
<1>3. Enqueue(c, cl, queue) \in Queues
  <2>1. <<c, cl.generation>> \in Slots \X Generations
    BY DEF ClientOK, Client
  <2> QED
    BY <2>1 DEF Enqueue, Queues
<1> QED
  BY <1>1, <1>2, <1>3

(* A flush leaves a record in order in slot c, in the same state. *)
LEMMA FlushIntoOK ==
  ASSUME TypeOK, ClientsOK, NEW c \in Slots, NEW cl, ClientOK(cl),
         NEW queue \in Queues, NEW requests \in SUBSET Requests,
         FlushInto(c, cl, queue, requests)
  PROVE  /\ clients' \in [Slots -> Client] /\ ClientsOK'
         /\ clients'[c].state = cl.state
         /\ \A d \in Slots \ {c} : clients'[d] = clients[d]
         /\ flush_queue' \in Queues
         /\ writevs' \subseteq Requests
<1>1. ASSUME NEW new, ClientOK(new), new.state = cl.state,
             clients' = [clients EXCEPT ![c] = new]
      PROVE  /\ clients' \in [Slots -> Client] /\ ClientsOK'
             /\ clients'[c].state = cl.state
             /\ \A d \in Slots \ {c} : clients'[d] = clients[d]
  <2>1. clients' \in [Slots -> Client] /\ ClientsOK'
    BY <1>1, UpdateOK
  <2> QED
    BY <1>1, <2>1 DEF TypeOK
<1>2. CASE /\ FlushNoop(cl, bare)
           /\ clients' = [clients EXCEPT ![c] = cl]
           /\ flush_queue' = queue
           /\ writevs' = requests
  BY <1>1, <1>2
<1>3. CASE /\ clients' = [clients EXCEPT ![c] = Submit(cl, bare)]
           /\ flush_queue' = queue
           /\ writevs' = requests \cup {[slot |-> c, gen |-> cl.generation, res |-> Busy,
                                   segs |-> SubSeq(Assign(cl, bare).egress, 1, BatchLen(cl, bare))]}
  <2>1. ClientOK(Submit(cl, bare)) /\ Submit(cl, bare).state = cl.state
        /\ SubSeq(Assign(cl, bare).egress, 1, BatchLen(cl, bare)) \in Seq(Segment)
    BY SubmitOK
  <2>2. [slot |-> c, gen |-> cl.generation, res |-> Busy,
         segs |-> SubSeq(Assign(cl, bare).egress, 1, BatchLen(cl, bare))] \in Requests
    BY <2>1 DEF Requests, Busy, ClientOK, Client
  <2> QED
    BY <1>1, <1>3, <2>1, <2>2
<1>4. CASE /\ clients' = [clients EXCEPT ![c] = Enqueued(Assign(cl, bare), queue)]
           /\ flush_queue' = Enqueue(c, cl, queue)
           /\ writevs' = requests
  <2>1. ClientOK(Assign(cl, bare)) /\ Assign(cl, bare).state = cl.state
    BY AssignOK
  <2>2. /\ ClientOK(Enqueued(Assign(cl, bare), queue))
        /\ Enqueued(Assign(cl, bare), queue).state = cl.state
        /\ Enqueue(c, cl, queue) \in Queues
    BY <2>1, EnqueuedOK
  <2> QED
    BY <1>1, <1>4, <2>2
<1> QED
  BY <1>2, <1>3, <1>4 DEF FlushInto

(* Numbers of references are natural numbers. *)
LEMMA RefsNat ==
  ASSUME NEW cl, NEW n \in Nat, NEW m
  PROVE  /\ QueueRefs(cl, n, m) \in Nat
         /\ Completions(cl, n, m) \in Nat
         /\ \A S \in SUBSET InflightIdx : EntryRefs(cl, S, m) \in Nat
<1>1. ASSUME NEW S \in SUBSET (1 .. n)
      PROVE  Cardinality(S) \in Nat
  <2>1. IsFiniteSet(1 .. n)
    BY FS_Interval
  <2> QED
    BY <2>1, FS_Subset, FS_CardinalityType
<1>2. QueueRefs(cl, n, m) \in Nat
  BY <1>1 DEF QueueRefs
<1>3. Completions(cl, n, m) \in Nat
  BY <1>1 DEF Completions
<1>4. ASSUME NEW S \in SUBSET InflightIdx
      PROVE  EntryRefs(cl, S, m) \in Nat
  <2>1. {s \in S : cl.inflight[s].msg_idx = m} \in SUBSET InflightIdx
    OBVIOUS
  <2> QED
    BY <2>1, TableFinite DEF EntryRefs
<1> QED
  BY <1>2, <1>3, <1>4

(* Once gives back a whole number of references to every message.              *)
LEMMA OnceInt == \A m : \A x \in Msgs : Once(m)[x] \in Int
BY DEF Once

(* The record a completion or a failure leaves to be flushed. *)
LEMMA CompletedOK ==
  ASSUME TypeOK, ClientsOK, NEW c \in Slots
  PROVE  /\ ClientOK(Completed(c))
         /\ Completed(c).state = clients[c].state
<1> DEFINE new == Completed(c)
<1>1. clients[c] \in Client /\ ClientOK(clients[c])
  BY DEF TypeOK, ClientsOK
<1>2. /\ new \in Client /\ new.egress = clients[c].egress
      /\ new.inflight = clients[c].inflight
      /\ new.inflight_count = clients[c].inflight_count
      /\ new.state = clients[c].state /\ new.generation = clients[c].generation
  BY <1>1 DEF Completed, Client
<1> QED
  BY <1>1, <1>2, SameQueueAndTable

(* The cursor of the head segment may move when no other segment has begun.    *)
LEMMA ResumedOK ==
  ASSUME NEW cl, ClientOK(cl), NEW part \in BOOLEAN,
         \A i \in DOMAIN cl.egress : i > 1 => cl.egress[i].cursor = 0
  PROVE  ClientOK(Resumed(cl, part)) /\ Resumed(cl, part).state = cl.state
<1>1. CASE ~part
  BY <1>1 DEF Resumed
<1>2. CASE part
  <2> DEFINE new == Resumed(cl, part)
             queue == [cl.egress EXCEPT ![1].cursor = 1]
  <2>1. cl.egress \in Seq(Segment) /\ Len(cl.egress) \in Nat
        /\ DOMAIN cl.egress = 1 .. Len(cl.egress)
        /\ \A i \in 1 .. Len(cl.egress) : cl.egress[i] \in Segment
    BY LenProperties, ElementOfSeq DEF ClientOK, Client
  <2>2. /\ queue \in Seq(Segment) /\ Len(queue) = Len(cl.egress)
        /\ DOMAIN queue = 1 .. Len(cl.egress)
        /\ \A i \in 1 .. Len(cl.egress) :
             /\ queue[i].slot_gen = cl.egress[i].slot_gen
             /\ i > 1 => queue[i].cursor = cl.egress[i].cursor
    <3>1. ASSUME NEW i \in 1 .. Len(cl.egress)
          PROVE  /\ queue[i] \in Segment
                 /\ queue[i].slot_gen = cl.egress[i].slot_gen
                 /\ i > 1 => queue[i].cursor = cl.egress[i].cursor
      <4>1. CASE i = 1
        <5>1. queue[i] = [cl.egress[i] EXCEPT !.cursor = 1]
          BY <2>1, <4>1
        <5> QED
          BY <2>1, <4>1, <5>1 DEF Segment
      <4>2. CASE i # 1
        BY <2>1, <4>2
      <4> QED
        BY <4>1, <4>2
    <3>2. queue \in [1 .. Len(cl.egress) -> Segment]
      BY <2>1, <3>1
    <3>3. queue \in Seq(Segment)
      BY <2>1, <3>2, SeqDef
    <3>4. DOMAIN queue = 1 .. Len(cl.egress) /\ DOMAIN queue = 1 .. Len(queue)
          /\ Len(queue) \in Nat
      BY <3>2, <3>3, LenProperties
    <3>5. Len(queue) = Len(cl.egress)
      BY <2>1, <3>4
    <3> QED
      BY <3>1, <3>3, <3>4, <3>5
  <2>3. cl.egress = << >> => queue = << >>
    OBVIOUS
  <2> HIDE DEF queue
  <2>4. /\ new \in Client /\ new.egress = queue /\ new.inflight = cl.inflight
        /\ new.inflight_count = cl.inflight_count
        /\ new.state = cl.state /\ new.generation = cl.generation
    BY <1>2, <2>2 DEF Resumed, queue, ClientOK, Client
  <2>5. Counted(new)
    BY <2>4 DEF Counted, Used, ClientOK
  <2>6. Shaped(new)
    BY <2>1, <2>2, <2>3, <2>4 DEF Shaped, ClientOK
  <2> QED
    BY <2>4, <2>5, <2>6 DEF ClientOK
<1> QED
  BY <1>1, <1>2

(* Discarding a failed batch keeps a record in order.                          *)
LEMMA DiscardedOK ==
  ASSUME NEW cl, ClientOK(cl), NEW n \in Nat
  PROVE  /\ Undone(cl, n) \in SUBSET InflightIdx
         /\ ClientOK(Discarded(cl, n))
         /\ Discarded(cl, n).state = cl.state
<1> DEFINE undone == Undone(cl, n)
           freed == [cl EXCEPT !.inflight = [s \in InflightIdx |->
                                               IF s \in undone THEN FreeEntry ELSE @[s]],
                               !.inflight_count = @ - Cardinality(undone)]
<1>1. undone \in SUBSET Used(cl)
  BY DEF Undone, FindDirect
<1>2. ClientOK(freed)
  BY <1>1, FreeEntriesOK
<1>3. freed.state = cl.state
  BY DEF ClientOK, Client
<1>4. Discarded(cl, n) = Drop(freed, n)
  BY DEF Discarded
<1> HIDE DEF freed
<1>5. ClientOK(Drop(freed, n)) /\ Drop(freed, n).state = freed.state
  BY <1>2, DropOK
<1> QED
  BY <1>1, <1>3, <1>4, <1>5 DEF Used

-------------------------------------------------------------------------------
(* The invariant holds at the start.                                           *)

(* The broker starts with every record, the fan-out and the sweep in order.    *)
LEMMA InitIInv == Init => IInv
<1> SUFFICES ASSUME Init PROVE IInv
  OBVIOUS
<1>1. TypeOK
  <2>1. clients \in [Slots -> Client]
    BY UnusedClientOK DEF Init
  <2>2. fanout \in [msg_idx : Msgs \cup {NoMsg}, qos : 0..2, todo : SUBSET Slots]
    BY DEF Init, NoFanout
  <2>3. sweep \in [slot : Slots \cup {NoSlot}, i : 0..MaxInflight, found : Nat,
                   due : SUBSET InflightIdx]
    BY TableFinite DEF Init, NoSweep
  <2> QED
    BY <2>1, <2>2, <2>3 DEF TypeOK, Init
<1>2. ClientsOK
  BY UnusedClientOK DEF ClientsOK, Init
<1>3. FanoutOK /\ SweepOK
  BY DEF FanoutOK, SweepOK, Init, NoFanout
<1> QED
  BY <1>1, <1>2, <1>3 DEF IInv

-------------------------------------------------------------------------------
(* Every step preserves it: one lemma per action.                              *)

(* With the thread in its event loop before and after, no handler is half done. *)
LEMMA IdleOK ==
  ASSUME Ready, UNCHANGED <<fanout, sweep>>
  PROVE  FanoutOK' /\ SweepOK'
BY DEF Ready, FanoutOK, SweepOK, NoFanout

(* handle_accept starts a connection whose record is in order.                 *)
LEMMA AcceptStep ==
  ASSUME IInv, NEW c \in Slots, Accept(c)
  PROVE  IInv'
<1>1. clients[c] \in Client /\ clients[c].generation < MaxGen
      /\ clients' = [clients EXCEPT ![c] = ClientInit(clients[c])]
  BY DEF Accept, IInv, TypeOK
<1>2. ClientOK(ClientInit(clients[c]))
  BY <1>1, ClientInitOK
<1>3. clients' \in [Slots -> Client] /\ ClientsOK'
  BY <1>1, <1>2, UpdateOK DEF IInv
<1>4. FanoutOK' /\ SweepOK'
  BY IdleOK DEF Accept
<1> QED
  BY <1>3, <1>4 DEF IInv, TypeOK, Accept

(* submit_close changes the state of the slot only.                            *)
LEMMA SubmitCloseStep ==
  ASSUME IInv, NEW c \in Slots, SubmitClose(c)
  PROVE  IInv'
<1> DEFINE new == [clients[c] EXCEPT !.state = "CLOSING"]
<1>1. clients[c] \in Client /\ ClientOK(clients[c])
      /\ clients' = [clients EXCEPT ![c] = new]
  BY DEF SubmitClose, IInv, TypeOK, ClientsOK
<1>2. ClientOK(new)
  <2>1. /\ new \in Client /\ new.egress = clients[c].egress
        /\ new.inflight = clients[c].inflight
        /\ new.inflight_count = clients[c].inflight_count
        /\ new.state = "CLOSING" /\ new.generation = clients[c].generation
    BY <1>1 DEF Client
  <2> QED
    BY <1>1, <2>1, SameQueueAndTable
<1>3. clients' \in [Slots -> Client] /\ ClientsOK'
  BY <1>1, <1>2, UpdateOK DEF IInv
<1>4. FanoutOK' /\ SweepOK'
  BY IdleOK DEF SubmitClose
<1>5. owed' \in [Slots -> Seq(Delivered)]
  BY EmptySeq DEF SubmitClose, IInv, TypeOK
<1> QED
  BY <1>3, <1>4, <1>5 DEF IInv, TypeOK, SubmitClose

(* handle_close empties the queue, and frees the table or keeps it.            *)
LEMMA HandleCloseStep ==
  ASSUME IInv, NEW c \in Slots, NEW clean \in BOOLEAN, HandleClose(c, clean)
  PROVE  IInv'
<1> DEFINE drained == [clients[c] EXCEPT !.egress = << >>]
           new == IF clean THEN ClientFree(FreeAll(drained)) ELSE ClientGoDormant(drained)
           n == Len(clients[c].egress)
           drop == [m \in Msgs |-> QueueRefs(clients[c], n, m)
                                     + EntryRefs(clients[c], Outgoing(clients[c]), m)]
<1>1. ClientOK(clients[c]) /\ n \in Nat
  BY LenProperties DEF IInv, ClientsOK, ClientOK, Client
<1>2. clients' = [clients EXCEPT ![c] = new] /\ Release(drop)
  BY DEF HandleClose
<1>3. ClientOK(new)
  BY <1>1, CloseOK
<1>4. clients' \in [Slots -> Client] /\ ClientsOK'
  BY <1>2, <1>3, UpdateOK DEF IInv
<1>5. ref_count' \in [Msgs -> Int] /\ msg_free' \subseteq Msgs
  <2>1. \A m \in Msgs : drop[m] \in Int
    <3>1. Outgoing(clients[c]) \in SUBSET InflightIdx
      BY DEF Outgoing, Used
    <3> QED
      BY <1>1, <3>1, RefsNat
  <2> QED
    BY <1>2, <2>1, ReleaseOK DEF IInv
<1>6. FanoutOK' /\ SweepOK'
  BY IdleOK DEF HandleClose
<1> QED
  BY <1>4, <1>5, <1>6 DEF IInv, TypeOK, HandleClose

(* A PUBLISH from a client tracks its packet id and starts a fan-out.          *)
LEMMA PublishStep ==
  ASSUME IInv, NEW p \in Slots, NEW qos \in PubQos, NEW id \in PubIds, NEW buffer,
         NEW targets \in SUBSET {t \in Slots : clients[t].state = "ACTIVE"},
         Publish(p, qos, id, targets, buffer)
  PROVE  IInv'
<1> DEFINE new == Tracked(clients[p], qos, id)
<1>1. ClientOK(clients[p]) /\ id \in PacketIds /\ qos \in 0..2
  BY PubAssumption DEF IInv, ClientsOK
<1>2. ClientOK(new) /\ new.state = clients[p].state
  BY <1>1, TrackIncomingOK DEF Tracked
<1>3. clients' = [clients EXCEPT ![p] = new] /\ Ready
  BY DEF Publish
<1>4. clients' \in [Slots -> Client] /\ ClientsOK'
  BY <1>2, <1>3, UpdateOK DEF IInv
<1>5. \A c \in Slots : clients'[c].state = clients[c].state
  BY <1>2, <1>3 DEF IInv, TypeOK
<1>6. SweepOK'
  BY <1>3 DEF Publish, Ready, SweepOK
<1>7. CASE UNCHANGED <<msg_free, ref_count, fanout>> /\ bare' \subseteq Msgs
  <2>1. FanoutOK'
    BY <1>3, <1>7 DEF Ready, FanoutOK, NoFanout
  <2> QED
    BY <1>4, <1>6, <1>7, <2>1 DEF IInv, TypeOK, Publish
<1>8. CASE UNCHANGED <<msg_free, ref_count, bare, fanout>>
  BY <1>7, <1>8 DEF IInv, TypeOK
<1>9. CASE \E m \in msg_free : NoBuffer(m)
  BY <1>7, <1>9 DEF NoBuffer, IInv, TypeOK
<1>10. CASE \E m \in msg_free : FanOut(m, qos, targets)
  <2>1. PICK m \in msg_free : FanOut(m, qos, targets)
    BY <1>10
  <2>2. fanout' = [msg_idx |-> m, qos |-> qos, todo |-> targets]
    BY <2>1 DEF FanOut
  <2>3. FanoutOK'
    BY <1>5, <2>2 DEF FanoutOK
  <2>4. fanout' \in [msg_idx : Msgs \cup {NoMsg}, qos : 0..2, todo : SUBSET Slots]
    BY <1>1, <2>2 DEF IInv, TypeOK
  <2>5. msg_free' \subseteq Msgs /\ ref_count' \in [Msgs -> Int] /\ bare' \subseteq Msgs
    BY <2>1 DEF FanOut, IInv, TypeOK
  <2> QED
    BY <1>4, <1>6, <2>3, <2>4, <2>5 DEF IInv, TypeOK, Publish
<1> QED
  BY <1>8, <1>9, <1>10 DEF Publish

(* One iteration of the fan-out appends one segment to a queue with room for it. *)
LEMMA ForwardStep ==
  ASSUME IInv, NEW c \in Slots, Forward(c)
  PROVE  IInv'
<1> DEFINE cl == clients[c]
           m == fanout.msg_idx
           seg == PublishSeg(cl, m, fanout.qos, 0, FALSE)
<1>1. ClientOK(cl) /\ cl \in Client /\ cl.state = "ACTIVE"
      /\ fanout \in [msg_idx : Msgs \cup {NoMsg}, qos : 0..2, todo : SUBSET Slots]
  BY DEF Forward, IInv, ClientsOK, FanoutOK, TypeOK
<1>2. fanout' = [fanout EXCEPT !.todo = @ \ {c}]
      /\ fanout' \in [msg_idx : Msgs \cup {NoMsg}, qos : 0..2, todo : SUBSET Slots]
      /\ fanout'.todo = fanout.todo \ {c}
  BY <1>1 DEF Forward
<1>3. CASE EgressFull(cl)
  <2>1. UNCHANGED <<clients, ref_count, flush_queue, writevs>>
    BY <1>3 DEF Forward
  <2>2. FanoutOK' /\ ClientsOK' /\ SweepOK'
    BY <1>2, <2>1 DEF IInv, FanoutOK, ClientsOK, SweepOK, Forward
  <2> QED
    BY <1>2, <2>1, <2>2 DEF IInv, TypeOK, Forward
<1>4. CASE ~EgressFull(cl)
  <2>1. ref_count' = [ref_count EXCEPT ![m] = @ + 1]
        /\ FlushInto(c, Push(cl, seg), flush_queue, writevs)
    BY <1>4 DEF Forward, Flush
  <2>2. seg \in Segment /\ seg.slot_gen = cl.generation /\ seg.cursor = 0
    BY <1>1, InflightAssumption DEF PublishSeg, Segment, PacketIds, Client
  <2>3. ClientOK(Push(cl, seg)) /\ Push(cl, seg).state = "ACTIVE"
    BY <1>1, <1>4, <2>2, PushOK
  <2>4. /\ clients' \in [Slots -> Client] /\ ClientsOK'
        /\ clients'[c].state = "ACTIVE"
        /\ \A d \in Slots \ {c} : clients'[d] = clients[d]
        /\ flush_queue' \in Queues /\ writevs' \subseteq Requests
    BY <2>1, <2>3, FlushIntoOK DEF IInv, TypeOK, Queues, Requests
  <2>5. ref_count' \in [Msgs -> Int]
    <3>1. ref_count \in [Msgs -> Int]
      BY DEF IInv, TypeOK
    <3>2. ref_count' = [x \in Msgs |-> IF x = m THEN ref_count[x] + 1 ELSE ref_count[x]]
      BY <2>1, <3>1
    <3> QED
      BY <3>1, <3>2
  <2>6. FanoutOK'
    BY <1>1, <1>2, <2>4 DEF IInv, FanoutOK
  <2>7. SweepOK'
    <3>1. sweep' = sweep
      BY DEF Forward
    <3> QED
      BY <2>4, <3>1 DEF IInv, SweepOK
  <2> QED
    BY <1>2, <2>4, <2>5, <2>6, <2>7 DEF IInv, TypeOK, Forward, Queues, Requests
<1> QED
  BY <1>3, <1>4

(* The end of a fan-out gives back the base reference.                         *)
LEMMA PublishDoneStep ==
  ASSUME IInv, PublishDone
  PROVE  IInv'
<1>1. ref_count' \in [Msgs -> Int] /\ msg_free' \subseteq Msgs
  BY ReleaseOK, OnceInt DEF PublishDone, IInv
<1>2. fanout' = NoFanout /\ UNCHANGED <<clients, sweep>>
  BY DEF PublishDone
<1>3. FanoutOK' /\ ClientsOK' /\ SweepOK'
  BY <1>2 DEF IInv, FanoutOK, ClientsOK, SweepOK, NoFanout
<1>4. fanout' \in [msg_idx : Msgs \cup {NoMsg}, qos : 0..2, todo : SUBSET Slots]
  BY <1>2 DEF NoFanout
<1> QED
  BY <1>1, <1>2, <1>3, <1>4 DEF IInv, TypeOK, PublishDone

(* A PUBREL frees the entry of the message it releases.                        *)
LEMMA PubrelStep ==
  ASSUME IInv, NEW p \in Slots, NEW id \in PubIds, Pubrel(p, id)
  PROVE  IInv'
<1>1. PICK s : clients' = [clients EXCEPT ![p] = FreeSlot(clients[p], s)]
  BY DEF Pubrel
<1>2. ClientOK(FreeSlot(clients[p], s))
  BY FreeSlotOK DEF IInv, ClientsOK
<1>3. clients' \in [Slots -> Client] /\ ClientsOK'
  BY <1>1, <1>2, UpdateOK DEF IInv
<1>4. FanoutOK' /\ SweepOK'
  BY IdleOK DEF Pubrel
<1> QED
  BY <1>3, <1>4 DEF IInv, TypeOK, Pubrel

(* A handler that ends by flushing a record that is in order. *)
LEMMA FlushStep ==
  ASSUME IInv, Ready, NEW c \in Slots, NEW cl, ClientOK(cl),
         NEW queue \in Queues, NEW requests \in SUBSET Requests,
         FlushInto(c, cl, queue, requests),
         UNCHANGED <<bare, fanout, sweep>>,
         ref_count' \in [Msgs -> Int], msg_free' \subseteq Msgs,
         owed' \in [Slots -> Seq(Delivered)]
  PROVE  IInv'
<1>1. /\ clients' \in [Slots -> Client] /\ ClientsOK'
      /\ flush_queue' \in Queues /\ writevs' \subseteq Requests
  BY FlushIntoOK DEF IInv
<1>2. FanoutOK' /\ SweepOK'
  BY IdleOK
<1> QED
  BY <1>1, <1>2 DEF IInv, TypeOK, Queues, Requests

(* The acknowledged PUBLISH leaves the subscriber's list. *)
LEMMA OwedTail ==
  ASSUME IInv, NEW c \in Slots, owed[c] # << >>, owed' = [owed EXCEPT ![c] = Tail(@)]
  PROVE  owed' \in [Slots -> Seq(Delivered)]
<1>1. owed \in [Slots -> Seq(Delivered)]
  BY DEF IInv, TypeOK
<1>2. Tail(owed[c]) \in Seq(Delivered)
  BY <1>1, HeadTailProperties
<1> QED
  BY <1>1, <1>2

(* A PUBACK frees the entry it completes and flushes the queue.                *)
LEMMA PubackStep ==
  ASSUME IInv, NEW c \in Slots, Puback(c)
  PROVE  IInv'
<1> DEFINE cl == clients[c]
           hit == AckedEntry(cl, Head(owed[c]).packet_id, "WAIT_PUBACK")
<1>1. Ready /\ UNCHANGED <<bare, fanout, sweep>> /\ owed' \in [Slots -> Seq(Delivered)]
  BY OwedTail DEF Puback
<1>2. CASE hit = {}
  <2>1. UNCHANGED <<clients, ref_count, msg_free, flush_queue, writevs>>
    BY <1>2 DEF Puback
  <2>2. FanoutOK' /\ SweepOK'
    BY <1>1, IdleOK
  <2>3. ClientsOK'
    BY <2>1 DEF IInv, ClientsOK
  <2> QED
    BY <1>1, <2>1, <2>2, <2>3 DEF IInv, TypeOK
<1>3. CASE hit # {}
  <2>1. PICK s \in hit : /\ Release(Once(cl.inflight[s].msg_idx))
                         /\ FlushInto(c, FreeSlot(cl, s), flush_queue, writevs)
    BY <1>3 DEF Puback, Flush
  <2>2. ClientOK(FreeSlot(cl, s))
    BY FreeSlotOK DEF IInv, ClientsOK
  <2>3. ref_count' \in [Msgs -> Int] /\ msg_free' \subseteq Msgs
    BY <2>1, ReleaseOK, OnceInt DEF IInv
  <2>4. flush_queue \in Queues /\ writevs \in SUBSET Requests
    BY DEF IInv, TypeOK, Queues, Requests
  <2> QED
    BY <1>1, <2>1, <2>2, <2>3, <2>4, FlushStep
<1> QED
  BY <1>2, <1>3

(* enqueue_pubrel appends a control segment to a queue with room for it.       *)
LEMMA WithPubrelOK ==
  ASSUME NEW cl, ClientOK(cl), cl.state = "ACTIVE"
  PROVE  ClientOK(WithPubrel(cl))
<1>1. CtrlSeg(cl) \in Segment /\ CtrlSeg(cl).slot_gen = cl.generation
      /\ CtrlSeg(cl).cursor = 0
  BY InflightAssumption DEF CtrlSeg, Segment, PacketIds, ClientOK, Client
<1> QED
  BY <1>1, PushOK DEF WithPubrel

(* A PUBREC frees the entry it completes, and a PUBREL goes into the queue.    *)
LEMMA PubrecStep ==
  ASSUME IInv, NEW c \in Slots, Pubrec(c)
  PROVE  IInv'
<1> DEFINE cl == clients[c]
           hit == AckedEntry(cl, Head(owed[c]).packet_id, "WAIT_PUBREC")
<1>1. Ready /\ UNCHANGED <<bare, fanout, sweep>> /\ owed' \in [Slots -> Seq(Delivered)]
  BY OwedTail DEF Pubrec
<1>2. ClientOK(cl) /\ cl.state = "ACTIVE"
      /\ flush_queue \in Queues /\ writevs \in SUBSET Requests
  BY DEF Pubrec, IInv, ClientsOK, TypeOK, Queues, Requests
<1>3. CASE hit = {}
  <2>1. FlushInto(c, WithPubrel(cl), flush_queue, writevs)
        /\ UNCHANGED <<ref_count, msg_free>>
    BY <1>3 DEF Pubrec, Flush
  <2>2. ref_count' \in [Msgs -> Int] /\ msg_free' \subseteq Msgs
    BY <2>1 DEF IInv, TypeOK
  <2>3. ClientOK(WithPubrel(cl))
    BY <1>2, WithPubrelOK
  <2> QED
    BY <1>1, <1>2, <2>1, <2>2, <2>3, FlushStep
<1>4. CASE hit # {}
  <2>1. PICK s \in hit : /\ Release(Once(cl.inflight[s].msg_idx))
                         /\ FlushInto(c, WithPubrel(FreeSlot(cl, s)), flush_queue, writevs)
    BY <1>4 DEF Pubrec, Flush
  <2>2. ClientOK(WithPubrel(FreeSlot(cl, s)))
    BY <1>2, FreeSlotOK, WithPubrelOK
  <2>3. ref_count' \in [Msgs -> Int] /\ msg_free' \subseteq Msgs
    BY <2>1, ReleaseOK, OnceInt DEF IInv
  <2> QED
    BY <1>1, <1>2, <2>1, <2>2, <2>3, FlushStep
<1> QED
  BY <1>3, <1>4

(* The sweep begins with a connection that is active.                          *)
LEMMA SweepClientStep ==
  ASSUME IInv, NEW c \in Slots, NEW due, SweepClient(c, due)
  PROVE  IInv'
<1>1. sweep' = [slot |-> c, i |-> 0, found |-> 0, due |-> due]
      /\ due \subseteq InflightIdx /\ clients[c].state = "ACTIVE"
      /\ UNCHANGED <<clients, ref_count, msg_free, bare, fanout, flush_queue, writevs, owed>>
  BY DEF SweepClient, Outgoing, Used
<1>2. sweep' \in [slot : Slots \cup {NoSlot}, i : 0..MaxInflight, found : Nat,
                  due : SUBSET InflightIdx]
  BY <1>1, TableFinite
<1>3. FanoutOK' /\ ClientsOK' /\ SweepOK'
  BY <1>1 DEF IInv, FanoutOK, ClientsOK, SweepOK
<1> QED
  BY <1>1, <1>2, <1>3 DEF IInv, TypeOK

(* One iteration of the sweep gives an entry up, sends it again or leaves it.  *)
LEMMA SweepEntryStep ==
  ASSUME IInv, SweepEntry
  PROVE  IInv'
<1> DEFINE c == sweep.slot
           cl == clients[c]
           s == sweep.i
           entry == cl.inflight[s]
           retry == [cl EXCEPT !.inflight[s].dup_count = @ + 1]
           seg == PublishSeg(cl, entry.msg_idx, entry.qos, entry.packet_id, TRUE)
           Sweeps == [slot : Slots \cup {NoSlot}, i : 0..MaxInflight, found : Nat,
                      due : SUBSET InflightIdx]
<1>1. c \in Slots /\ ClientOK(cl) /\ cl \in Client /\ cl.state = "ACTIVE"
      /\ sweep \in Sweeps /\ sweep.i < MaxInflight
      /\ flush_queue \in Queues /\ writevs \in SUBSET Requests
  BY DEF SweepEntry, SweepMore, IInv, SweepOK, ClientsOK, TypeOK, Queues, Requests
<1>2. sweep' \in Sweeps /\ sweep'.slot = c
  <2> DEFINE i == sweep.i + 1
             found == IF sweep.i \in Used(cl) THEN sweep.found + 1 ELSE sweep.found
  <2>1. i \in 0..MaxInflight /\ found \in Nat
    BY <1>1, TableFinite
  <2>2. sweep' = [sweep EXCEPT !.i = i, !.found = found]
    BY DEF SweepEntry
  <2> HIDE DEF i, found
  <2> QED
    BY <1>1, <2>1, <2>2
<1>3. UNCHANGED <<bare, fanout, owed>>
  BY DEF SweepEntry
<1>4. ASSUME clients' \in [Slots -> Client], ClientsOK', clients'[c].state = "ACTIVE",
             \A d \in Slots \ {c} : clients'[d] = clients[d],
             ref_count' \in [Msgs -> Int], msg_free' \subseteq Msgs,
             flush_queue' \in Queues, writevs' \subseteq Requests
      PROVE  IInv'
  <2>1. FanoutOK'
    <3>1. fanout.todo \in SUBSET Slots
      BY DEF IInv, TypeOK
    <3> QED
      BY <1>3, <1>4, <3>1 DEF IInv, FanoutOK
  <2>2. SweepOK'
    BY <1>1, <1>2, <1>4 DEF SweepOK
  <2> QED
    BY <1>2, <1>3, <1>4, <2>1, <2>2 DEF IInv, TypeOK, Queues, Requests
<1>5. CASE UNCHANGED <<clients, ref_count, msg_free, flush_queue, writevs>>
  BY <1>1, <1>4, <1>5 DEF IInv, TypeOK, ClientsOK
<1>6. CASE s \in Used(cl) /\ Timeout(c, s)
  <2>1. CASE entry.dup_count >= MaxRetries \/ EgressFull(cl)
    <3>1. /\ Release(Once(entry.msg_idx))
          /\ clients' = [clients EXCEPT ![c] = FreeSlot(cl, s)]
          /\ UNCHANGED <<flush_queue, writevs>>
      BY <1>6, <2>1 DEF Timeout
    <3>2. ClientOK(FreeSlot(cl, s)) /\ FreeSlot(cl, s).state = "ACTIVE"
      BY <1>1, FreeSlotOK
    <3>3. clients' \in [Slots -> Client] /\ ClientsOK'
      BY <1>1, <3>1, <3>2, UpdateOK DEF IInv
    <3>4. clients'[c].state = "ACTIVE" /\ \A d \in Slots \ {c} : clients'[d] = clients[d]
      BY <1>1, <3>1, <3>2 DEF IInv, TypeOK
    <3>5. ref_count' \in [Msgs -> Int] /\ msg_free' \subseteq Msgs
      BY <3>1, ReleaseOK, OnceInt DEF IInv
    <3> QED
      BY <1>1, <1>4, <3>1, <3>3, <3>4, <3>5
  <2>2. CASE ~(entry.dup_count >= MaxRetries \/ EgressFull(cl))
    <3>1. /\ FlushInto(c, Push(retry, seg), flush_queue, writevs)
          /\ UNCHANGED <<ref_count, msg_free>>
      BY <1>6, <2>2 DEF Timeout, Flush
    <3>2. ClientOK(retry) /\ retry.state = "ACTIVE"
          /\ retry.generation = cl.generation /\ retry.egress = cl.egress
      BY <1>1, <1>6, RetryOK
    <3>3. entry \in Entry
      BY <1>1, <1>6 DEF Client, Used
    <3>4. seg \in Segment /\ seg.slot_gen = cl.generation /\ seg.cursor = 0
      BY <1>1, <3>3 DEF PublishSeg, Segment, Entry, Client
    <3>5. ~EgressFull(retry)
      BY <2>2, <3>2 DEF EgressFull
    <3> HIDE DEF retry, seg
    <3>6. ClientOK(Push(retry, seg)) /\ Push(retry, seg).state = "ACTIVE"
      BY <3>2, <3>4, <3>5, PushOK
    <3>7. /\ clients' \in [Slots -> Client] /\ ClientsOK'
          /\ clients'[c].state = "ACTIVE"
          /\ \A d \in Slots \ {c} : clients'[d] = clients[d]
          /\ flush_queue' \in Queues /\ writevs' \subseteq Requests
      BY <1>1, <3>1, <3>6, FlushIntoOK DEF IInv
    <3>8. ref_count' \in [Msgs -> Int] /\ msg_free' \subseteq Msgs
      BY <3>1 DEF IInv, TypeOK
    <3> QED
      BY <1>4, <3>7, <3>8
  <2> QED
    BY <2>1, <2>2
<1> QED
  BY <1>5, <1>6 DEF SweepEntry

(* The sweep of a client ends.                                                 *)
LEMMA SweepDoneStep ==
  ASSUME IInv, SweepDone
  PROVE  IInv'
<1>1. sweep' = NoSweep
      /\ UNCHANGED <<clients, ref_count, msg_free, bare, fanout, flush_queue, writevs, owed>>
  BY DEF SweepDone
<1>2. NoSweep \in [slot : Slots \cup {NoSlot}, i : 0..MaxInflight, found : Nat,
                   due : SUBSET InflightIdx]
  BY TableFinite DEF NoSweep
<1>3. FanoutOK' /\ ClientsOK' /\ SweepOK'
  BY <1>1 DEF IInv, FanoutOK, ClientsOK, SweepOK
<1> QED
  BY <1>1, <1>2, <1>3 DEF IInv, TypeOK

(* A request that changes its outcome is a request. *)
LEMMA OutcomeOK ==
  ASSUME TypeOK, NEW op \in writevs,
         NEW res \in [kind : {"busy", "again", "fatal", "written"}, done : Nat, part : BOOLEAN]
  PROVE  (writevs \ {op}) \cup {[op EXCEPT !.res = res]} \subseteq Requests
<1>1. op \in Requests /\ writevs \subseteq Requests
  BY DEF TypeOK, Requests
<1>2. [op EXCEPT !.res = res] \in Requests
  BY <1>1 DEF Requests
<1> QED
  BY <1>1, <1>2

(* What arrives at a subscriber is a sequence of PUBLISHes to acknowledge. *)
LEMMA ArrivingOK ==
  ASSUME NEW op \in Requests, NEW k \in 0 .. Len(op.segs)
  PROVE  Arriving(op, k) \in Seq(Delivered)
<1> DEFINE acked == {i \in 1..k : op.segs[i].qos > 0}
           n == Cardinality(acked)
           seg(j) == op.segs[Nth(acked, j)]
           heard(j) == [msg_idx |-> seg(j).msg_idx, packet_id |-> seg(j).packet_id,
                        qos |-> seg(j).qos]
<1>1. op.segs \in Seq(Segment) /\ Len(op.segs) \in Nat /\ k \in Nat
  BY LenProperties DEF Requests
<1>2. acked \subseteq Int /\ IsFiniteSet(acked) /\ n \in Nat
  <2>1. IsFiniteSet(1 .. k) /\ acked \subseteq 1 .. k
    BY <1>1, FS_Interval
  <2>2. IsFiniteSet(acked)
    BY <2>1, FS_Subset
  <2> QED
    BY <2>1, <2>2, FS_CardinalityType
<1>3. ASSUME NEW j \in 1 .. n
      PROVE  heard(j) \in Delivered
  <2>1. Nth(acked, j) \in acked
    BY <1>2, NthLemma
  <2>2. Nth(acked, j) \in 1 .. Len(op.segs)
    BY <1>1, <2>1
  <2>3. seg(j) \in Segment
    BY <1>1, <2>2, ElementOfSeq
  <2> QED
    BY <2>3 DEF Segment, Delivered
<1>4. Arriving(op, k) = [j \in 1 .. n |-> heard(j)]
  BY DEF Arriving
<1> HIDE DEF heard, n
<1>5. Arriving(op, k) \in [1 .. n -> Delivered]
  BY <1>3, <1>4
<1> QED
  BY <1>2, <1>5, SeqDef

(* A writev that succeeds hands PUBLISHes to the subscriber.                   *)
LEMMA TransmitStep ==
  ASSUME IInv, NEW op \in writevs, NEW k \in 0 .. Len(op.segs), NEW part \in BOOLEAN,
         Transmit(op, k, part)
  PROVE  IInv'
<1>1. op \in Requests /\ k \in Nat
  <2>1. op \in Requests
    BY DEF IInv, TypeOK, Requests
  <2> QED
    BY <2>1, LenProperties DEF Requests
<1>2. Written(k, part) \in [kind : {"busy", "again", "fatal", "written"},
                            done : Nat, part : BOOLEAN]
  BY <1>1 DEF Written
<1>3. writevs' \subseteq Requests
  BY <1>2, OutcomeOK DEF Transmit, IInv
<1>4. owed' \in [Slots -> Seq(Delivered)]
  <2>1. owed \in [Slots -> Seq(Delivered)] /\ op.slot \in Slots
    BY <1>1 DEF IInv, TypeOK, Requests
  <2>2. owed[op.slot] \o Arriving(op, k) \in Seq(Delivered)
    BY <1>1, <2>1, ArrivingOK, ConcatProperties
  <2> QED
    BY <2>1, <2>2 DEF Transmit
<1>5. FanoutOK' /\ ClientsOK' /\ SweepOK'
  BY DEF Transmit, IInv, FanoutOK, ClientsOK, SweepOK
<1> QED
  BY <1>3, <1>4, <1>5 DEF IInv, TypeOK, Transmit, Requests

(* A writev that fails only changes its outcome.                               *)
LEMMA TransmitFailsStep ==
  ASSUME IInv, NEW op \in writevs, NEW res \in {Again, Fatal}, TransmitFails(op, res)
  PROVE  IInv'
<1>1. writevs' \subseteq Requests
  <2>1. res \in [kind : {"busy", "again", "fatal", "written"}, done : Nat, part : BOOLEAN]
    <3>1. res = Again \/ res = Fatal
      OBVIOUS
    <3>2. /\ Again \in [kind : {"busy", "again", "fatal", "written"}, done : Nat, part : BOOLEAN]
          /\ Fatal \in [kind : {"busy", "again", "fatal", "written"}, done : Nat, part : BOOLEAN]
      BY DEF Again, Fatal
    <3> QED
      BY <3>1, <3>2
  <2> QED
    BY <2>1, OutcomeOK DEF TransmitFails, IInv
<1>2. FanoutOK' /\ ClientsOK' /\ SweepOK'
  BY DEF TransmitFails, IInv, FanoutOK, ClientsOK, SweepOK
<1> QED
  BY <1>1, <1>2 DEF IInv, TypeOK, TransmitFails, Requests

(* A completion for an earlier connection is dropped.                          *)
LEMMA EgressStaleStep ==
  ASSUME IInv, NEW op \in writevs, EgressStale(op)
  PROVE  IInv'
<1>1. FanoutOK' /\ ClientsOK' /\ SweepOK'
  BY DEF EgressStale, Completes, IInv, FanoutOK, ClientsOK, SweepOK
<1> QED
  BY <1>1 DEF IInv, TypeOK, EgressStale, Completes

(* What every completion of a current request starts from. *)
LEMMA CompletesOK ==
  ASSUME IInv, NEW op \in writevs, Completes(op)
  PROVE  /\ op \in Requests /\ op.slot \in Slots /\ Ready
         /\ ClientOK(Completed(op.slot))
         /\ UNCHANGED <<bare, fanout, sweep>>
         /\ owed' \in [Slots -> Seq(Delivered)]
         /\ flush_queue \in Queues /\ writevs \ {op} \in SUBSET Requests
<1>1. writevs \subseteq Requests /\ op.slot \in Slots /\ flush_queue \in Queues
  BY DEF IInv, TypeOK, Requests, Queues
<1>2. ClientOK(Completed(op.slot))
  BY <1>1, CompletedOK DEF IInv
<1> QED
  BY <1>1, <1>2 DEF Completes, IInv, TypeOK

(* A successful completion drops what was written and moves the head cursor.   *)
LEMMA EgressWrittenStep ==
  ASSUME IInv, NEW op \in writevs, EgressWritten(op)
  PROVE  IInv'
<1> DEFINE c == op.slot
           cl == Completed(c)
           k == op.res.done
           left == Drop(cl, k)
           freed == [m \in Msgs |-> Completions(cl, k, m)]
<1>1. /\ op \in Requests /\ c \in Slots /\ Ready /\ ClientOK(cl)
      /\ UNCHANGED <<bare, fanout, sweep>> /\ owed' \in [Slots -> Seq(Delivered)]
      /\ flush_queue \in Queues /\ writevs \ {op} \in SUBSET Requests
  BY CompletesOK DEF EgressWritten
<1>2. k \in Nat /\ op.res.part \in BOOLEAN
  BY <1>1 DEF Requests
<1>3. Release(freed) /\ FlushInto(c, Resumed(left, op.res.part), flush_queue, writevs \ {op})
  BY DEF EgressWritten
<1>4. ref_count' \in [Msgs -> Int] /\ msg_free' \subseteq Msgs
  <2>1. \A m \in Msgs : freed[m] \in Int
    BY <1>2, RefsNat
  <2> QED
    BY <1>3, <2>1, ReleaseOK DEF IInv
<1>5. ClientOK(left)
  BY <1>1, <1>2, DropOK
<1>6. \A i \in DOMAIN left.egress : i > 1 => left.egress[i].cursor = 0
  BY <1>1, <1>2, DropOK
<1> HIDE DEF left
<1>7. ClientOK(Resumed(left, op.res.part))
  BY <1>2, <1>5, <1>6, ResumedOK
<1> QED
  BY <1>1, <1>3, <1>4, <1>7, FlushStep

(* A completion with EAGAIN sends the batch again.                             *)
LEMMA EgressAgainStep ==
  ASSUME IInv, NEW op \in writevs, EgressAgain(op)
  PROVE  IInv'
<1>1. /\ op.slot \in Slots /\ Ready /\ ClientOK(Completed(op.slot))
      /\ UNCHANGED <<bare, fanout, sweep>> /\ owed' \in [Slots -> Seq(Delivered)]
      /\ flush_queue \in Queues /\ writevs \ {op} \in SUBSET Requests
  BY CompletesOK DEF EgressAgain
<1>2. FlushInto(op.slot, Completed(op.slot), flush_queue, writevs \ {op})
  BY DEF EgressAgain
<1>3. ref_count' \in [Msgs -> Int] /\ msg_free' \subseteq Msgs
  BY DEF EgressAgain, IInv, TypeOK
<1> QED
  BY <1>1, <1>2, <1>3, FlushStep

(* A completion with an error discards the batch.                              *)
LEMMA EgressFatalStep ==
  ASSUME IInv, NEW op \in writevs, EgressFatal(op)
  PROVE  IInv'
<1> DEFINE c == op.slot
           cl == Completed(c)
           n == BatchOf(cl)
           freed == [m \in Msgs |-> QueueRefs(cl, n, m) + EntryRefs(cl, Undone(cl, n), m)]
<1>1. /\ c \in Slots /\ Ready /\ ClientOK(cl)
      /\ UNCHANGED <<bare, fanout, sweep>> /\ owed' \in [Slots -> Seq(Delivered)]
      /\ flush_queue \in Queues /\ writevs \ {op} \in SUBSET Requests
  BY CompletesOK DEF EgressFatal
<1>2. Release(freed) /\ FlushInto(c, Discarded(cl, n), flush_queue, writevs \ {op})
  BY DEF EgressFatal
<1>3. n \in Nat
  BY <1>1, LenProperties DEF BatchOf, ClientOK, Client
<1>4. Undone(cl, n) \in SUBSET InflightIdx /\ ClientOK(Discarded(cl, n))
  BY <1>1, <1>3, DiscardedOK
<1>5. ref_count' \in [Msgs -> Int] /\ msg_free' \subseteq Msgs
  <2>1. \A m \in Msgs : freed[m] \in Int
    BY <1>3, <1>4, RefsNat
  <2> QED
    BY <1>2, <2>1, ReleaseOK DEF IInv
<1> QED
  BY <1>1, <1>2, <1>4, <1>5, FlushStep

(* One entry of the retry queue is flushed, or dropped when it is stale.       *)
LEMMA RetryFlushStep ==
  ASSUME IInv, RetryFlush
  PROVE  IInv'
<1> DEFINE c == Head(flush_queue)[1]
           cl == [clients[c] EXCEPT !.egress_retry_queued = FALSE]
<1>1. /\ c \in Slots /\ Tail(flush_queue) \in Queues
      /\ writevs \in SUBSET Requests
  <2>1. flush_queue \in Seq(Slots \X Generations) /\ flush_queue # << >>
    BY DEF RetryFlush, IInv, TypeOK
  <2>2. Head(flush_queue) \in Slots \X Generations
        /\ Tail(flush_queue) \in Seq(Slots \X Generations)
    BY <2>1, HeadTailProperties
  <2> QED
    BY <2>2 DEF Queues, IInv, TypeOK, Requests
<1>2. ClientOK(cl)
  <2>1. ClientOK(clients[c]) /\ clients[c] \in Client
    BY <1>1 DEF IInv, ClientsOK, ClientOK
  <2>2. /\ cl \in Client /\ cl.egress = clients[c].egress
        /\ cl.inflight = clients[c].inflight
        /\ cl.inflight_count = clients[c].inflight_count
        /\ cl.state = clients[c].state /\ cl.generation = clients[c].generation
    BY <2>1 DEF Client
  <2> QED
    BY <2>1, <2>2, SameQueueAndTable
<1>3. /\ Ready /\ UNCHANGED <<bare, fanout, sweep>>
      /\ ref_count' \in [Msgs -> Int] /\ msg_free' \subseteq Msgs
      /\ owed' \in [Slots -> Seq(Delivered)]
  BY DEF RetryFlush, IInv, TypeOK
<1>4. CASE FlushInto(c, cl, Tail(flush_queue), writevs)
  BY <1>1, <1>2, <1>3, <1>4, FlushStep
<1>5. CASE /\ clients' = [clients EXCEPT ![c] = cl]
           /\ flush_queue' = Tail(flush_queue)
           /\ UNCHANGED writevs
  <2>1. clients' \in [Slots -> Client] /\ ClientsOK'
    BY <1>1, <1>2, <1>5, UpdateOK DEF IInv
  <2>2. FanoutOK' /\ SweepOK'
    BY <1>3, IdleOK
  <2> QED
    BY <1>1, <1>3, <1>5, <2>1, <2>2 DEF IInv, TypeOK, Queues, Requests
<1> QED
  BY <1>4, <1>5 DEF RetryFlush

(* The invariant is inductive.                                                 *)
LEMMA NextIInv == IInv /\ [Next]_vars => IInv'
<1> SUFFICES ASSUME IInv, [Next]_vars PROVE IInv'
  OBVIOUS
<1>1. ASSUME NEW c \in Slots, Accept(c) PROVE IInv'
  BY <1>1, AcceptStep
<1>2. ASSUME NEW c \in Slots, SubmitClose(c) PROVE IInv'
  BY <1>2, SubmitCloseStep
<1>3. ASSUME NEW c \in Slots, NEW clean \in BOOLEAN, HandleClose(c, clean) PROVE IInv'
  BY <1>3, HandleCloseStep
<1>4. ASSUME NEW c \in Slots, NEW qos \in PubQos, NEW id \in PubIds, NEW buffer,
             NEW targets \in SUBSET {t \in Slots : clients[t].state = "ACTIVE"},
             Publish(c, qos, id, targets, buffer)
      PROVE  IInv'
  BY <1>4, PublishStep
<1>5. ASSUME NEW c \in Slots, Forward(c) PROVE IInv'
  BY <1>5, ForwardStep
<1>6. ASSUME NEW c \in Slots, NEW id \in PubIds, Pubrel(c, id) PROVE IInv'
  BY <1>6, PubrelStep
<1>7. ASSUME NEW c \in Slots, Puback(c) PROVE IInv'
  BY <1>7, PubackStep
<1>8. ASSUME NEW c \in Slots, Pubrec(c) PROVE IInv'
  BY <1>8, PubrecStep
<1>9. ASSUME NEW c \in Slots, NEW due \in SUBSET Outgoing(clients[c]), SweepClient(c, due)
      PROVE  IInv'
  BY <1>9, SweepClientStep
<1>10. ASSUME PublishDone PROVE IInv'
  BY <1>10, PublishDoneStep
<1>11. ASSUME SweepEntry \/ SweepDone PROVE IInv'
  BY <1>11, SweepEntryStep, SweepDoneStep
<1>12. ASSUME NEW op \in writevs, NEW k \in 0 .. Len(op.segs), NEW part \in BOOLEAN,
              Transmit(op, k, part)
       PROVE  IInv'
  BY <1>12, TransmitStep
<1>13. ASSUME NEW op \in writevs, NEW res \in {Again, Fatal}, TransmitFails(op, res)
       PROVE  IInv'
  BY <1>13, TransmitFailsStep
<1>14. ASSUME NEW op \in writevs,
              EgressStale(op) \/ EgressWritten(op) \/ EgressAgain(op) \/ EgressFatal(op)
       PROVE  IInv'
  BY <1>14, EgressStaleStep, EgressWrittenStep, EgressAgainStep, EgressFatalStep
<1>15. ASSUME RetryFlush PROVE IInv'
  BY <1>15, RetryFlushStep
<1>16. CASE UNCHANGED vars
  BY <1>16 DEF vars, IInv, TypeOK, ClientsOK, FanoutOK, SweepOK
<1> QED
  BY <1>1, <1>2, <1>3, <1>4, <1>5, <1>6, <1>7, <1>8, <1>9, <1>10, <1>11, <1>12, <1>13,
     <1>14, <1>15, <1>16 DEF Next

-------------------------------------------------------------------------------
(* The theorems.                                                               *)

(* Every behaviour of the broker keeps every variable of its type, and more:   *)
(* the inductive invariant.                                                    *)
THEOREM TypeCorrect == Spec => []TypeOK
<1>1. IInv => TypeOK
  BY DEF IInv
<1> QED
  BY <1>1, InitIInv, NextIInv, PTL DEF Spec

(* inflight_count is the number of entries in use, in every reachable state of *)
(* a broker with any number of clients and any size of tables.                 *)
THEOREM CountCorrect == Spec => []CountExact
<1>1. IInv => CountExact
  BY DEF IInv, ClientsOK, ClientOK, Counted, CountExact
<1> QED
  BY <1>1, InitIInv, NextIInv, PTL DEF Spec

(* Every egress queue fits its ring, holds only segments of the connection that *)
(* has the slot now, and is partly written at its head only.                    *)
THEOREM QueueCorrect == Spec => []QueueShape
<1>1. IInv => QueueShape
  BY DEF IInv, ClientsOK, ClientOK, Shaped, QueueShape, Connected, TypeOK, Client
<1> QED
  BY <1>1, InitIInv, NextIInv, PTL DEF Spec
===============================================================================
