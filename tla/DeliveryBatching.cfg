\* One subscriber, batches of two, two inflight entries, packet ids that wrap.
SPECIFICATION Spec
CONSTANTS
  Msgs = {m1, m2}
  NoMsg = NoMsg
  MaxInflight = 2
  IdSpace = 4
  EgressCap = 2
  BatchMax = 2
  MaxGen = 1
  Slots = {c1}
  NoSlot = NoSlot
  MaxRetries = 1
  PubQos = {0, 1}
  PubIds = {1}
  RunsOut = TRUE
  MaxOwed = 2
SYMMETRY MsgSymmetry
INVARIANT TypeOK
INVARIANT QueueShape
INVARIANT WritevMatchesQueue
INVARIANT EntriesFindable
\* Once every slot is dormant, or has used up MaxGen, nothing is left to do.
CHECK_DEADLOCK FALSE
