SPECIFICATION Spec
CONSTANTS
  SqEntries = 2
  MayRefuse = TRUE
  Reorder = FALSE
  Slots = {s1, s2, s3}
  NoSlot = NoSlot
  Bufs = {b1, b2, b3}
  NoBuf = NoBuf
  KernelFds = 4
  MaxFds = 4
  AcceptBatch = 1
  GenMod = 2
  Writers = {}
SYMMETRY Alike
INVARIANTS TypeOK BufferOwners KernelWritesOwned ReceivesExact CloseHitsCloser FdsExact BlockedIdle
