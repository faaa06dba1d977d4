----------------------------- MODULE MCDelivery -----------------------------
(* Small instances of Delivery for TLC. *)
EXTENDS Delivery, TLC

(* Message indices are interchangeable: the pool is a set. *)
MsgSymmetry == Permutations(Msgs)

(* So are the slots, with the messages. *)
Symmetry == Permutations(Msgs) \cup Permutations(Slots)
=============================================================================
