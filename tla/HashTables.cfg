\* Clusters that collide and wrap, in a hash of 8 and a map of 8 positions that leaks.
SPECIFICATION Spec
CONSTANTS
  MaxInflight = 4
  Ids = {6, 7, 8, 14, 15}
  Slots = {0, 1}
  ClientHashes = {6, 7, 15}
  EmptyIdHash = 22
  MapCapacity = 8
INVARIANTS HashExact MapExact MapFinds
\* Once every slot is dormant nothing is left to do.
CHECK_DEADLOCK FALSE
