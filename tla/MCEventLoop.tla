------------------------------ MODULE MCEventLoop ------------------------------
(* Instances of the event loop for TLC: the slots, and the buffers, are alike. *)
EXTENDS EventLoop, TLC

Alike == Permutations(Slots) \cup Permutations(Bufs)
================================================================================
