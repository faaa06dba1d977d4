---------------------------------- MODULE Ring ----------------------------------
(***************************************************************************)
(* The io_uring wrapper (src/sys/io_uring.h) and what the kernel does with *)
(* it, as operators on one record:                                         *)
(*                                                                         *)
(*   sq       SQEs prepared and not taken by the kernel yet; the first     *)
(*            "visible" of them lie before *sq_tail, the others only       *)
(*            before sq_tail_local                                         *)
(*   cq       CQEs posted and not consumed; the first "seen" of them lie   *)
(*            before cq_tail_local, the snapshot the dispatch loop works on*)
(*   pending  requests the kernel holds; accepts counts the accepts, which *)
(*            are all alike                                                *)
(*   open     file descriptors of connections that are open                *)
(*                                                                         *)
(* The kernel is external.  It takes SQEs only when it is entered, in      *)
(* order, and with MayRefuse possibly none (io_uring_enter fails) or fewer *)
(* than it was asked to (it stops short).  Closing a socket does not       *)
(* block, so it is done, and its CQE posted, while the SQE is taken; with  *)
(* Reorder the CQE may also come later, which is all that io_uring         *)
(* promises.  All else completes at a moment of its own.                   *)
(***************************************************************************)
EXTENDS Integers, Sequences, FiniteSets

CONSTANTS
  SqEntries,   \* sq_entries of the ring
  MayRefuse,   \* BOOLEAN: the kernel may take fewer than it was asked to, or none
  Reorder      \* BOOLEAN: a close may be reported after later events

ASSUME SqAssumption == SqEntries \in Nat \ {0}
ASSUME KernelAssumption == MayRefuse \in BOOLEAN /\ Reorder \in BOOLEAN

EmptyRing == [sq |-> << >>, visible |-> 0, cq |-> << >>, seen |-> 0,
              pending |-> {}, accepts |-> 0, open |-> {}]

(* ring_sq_pending: what was prepared, visible or not. *)
SqPending(r) == Len(r.sq)

(* ring_get_sqe returns NULL. *)
SqFull(r) == SqPending(r) >= SqEntries

(* ring_get_sqe, and filling the entry in. *)
Prepare(r, sqe) == [r EXCEPT !.sq = Append(@, sqe)]

(* ring_flush_sqes *)
FlushSqes(r) == [r EXCEPT !.visible = Len(r.sq)]

IsClose(e)  == e.op = "CLOSE"
IsAccept(e) == e.op = "ACCEPT"

(* The elements of seq at the places in P, in order. *)
Nth(P, k) == CHOOSE i \in P : Cardinality({j \in P : j <= i}) = k
Selected(seq, P) == [k \in 1..Cardinality(P) |-> seq[Nth(P, k)]]

(* io_uring_enter: the kernel takes the n oldest SQEs, all of them visible. *)
Take(r, n) ==
  LET held   == {r.sq[i] : i \in 1..n}
      closes == Selected(r.sq, {i \in 1..n : IsClose(r.sq[i])})
  IN  [r EXCEPT !.sq      = SubSeq(@, n + 1, Len(@)),
                !.visible = @ - n,
                !.cq      = IF Reorder THEN @ ELSE @ \o closes,
                !.pending = @ \cup {e \in held : ~IsAccept(e) /\ (IsClose(e) => Reorder)},
                !.accepts = @ + Cardinality({i \in 1..n : IsAccept(r.sq[i])}),
                !.open    = @ \ {e.fd : e \in {x \in held : IsClose(x)}}]

(* How many of the visible SQEs the kernel may take when it is entered. *)
Takes(r) == IF MayRefuse THEN 0 .. r.visible ELSE {r.visible}

(* Fault: the SQEs are not made visible first. *)
MakeRoomUnflushed(r) == IF SqFull(r) THEN {Take(r, n) : n \in Takes(r)} ELSE {r}

(* The first half of get_sqe_with_flush: a full SQ is flushed and submitted. *)
MakeRoom(r) ==
  IF SqFull(r) THEN {Take(FlushSqes(r), n) : n \in Takes(FlushSqes(r))} ELSE {r}

(* ring_cq_sync, ring_cq_advance *)
CqSync(r) == [r EXCEPT !.seen = Len(r.cq)]

(* Fault: the dispatch loop ends only when the CQ is empty. *)
CqAdvanceAll(r) == [r EXCEPT !.cq = Tail(@), !.seen = Len(r.cq) - 1]
CqAdvance(r) == [r EXCEPT !.cq = Tail(@), !.seen = @ - 1]

(* The kernel posts a CQE. *)
Post(r, cqe) == [r EXCEPT !.cq = Append(@, cqe)]
================================================================================
