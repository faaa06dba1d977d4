\* An inflight entry freed by the sweep without a flush.
SPECIFICATION Spec
CONSTANTS
  Msgs = {m1, m2, m3}
  NoMsg = NoMsg
  MaxInflight = 2
  IdSpace = 8
  EgressCap = 2
  BatchMax = 2
  MaxGen = 1
  Slots = {c1}
  NoSlot = NoSlot
  MaxRetries = 1
  PubQos = {1}
  PubIds = {1}
  RunsOut = FALSE
  MaxOwed = 2
SYMMETRY MsgSymmetry
INVARIANT StalledOnlyWhenFull
\* Once every slot is dormant, or has used up MaxGen, nothing is left to do.
CHECK_DEADLOCK FALSE
