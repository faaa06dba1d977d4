SPECIFICATION FairSpec
CONSTANTS
  SqEntries = 2
  MayRefuse = FALSE
  Reorder = FALSE
  Slots = {s1}
  NoSlot = NoSlot
  Bufs = {b1}
  NoBuf = NoBuf
  KernelFds = 2
  MaxFds = 3
  AcceptBatch = 1
  GenMod = 2
  Writers = {s1}
PROPERTIES ClosingEnds WritevSubmitted SweepReached
