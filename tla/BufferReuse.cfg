\* A PUBLISH given up by the sweep while the kernel still sends it.
SPECIFICATION Spec
CONSTANTS
  Msgs = {m1, m2, m3}
  NoMsg = NoMsg
  MaxInflight = 2
  IdSpace = 8
  EgressCap = 2
  BatchMax = 2
  MaxGen = 1
  Slots = {c1}
  NoSlot = NoSlot
  MaxRetries = 1
  PubQos = {1}
  PubIds = {1}
  RunsOut = FALSE
  MaxOwed = 2
SYMMETRY MsgSymmetry
INVARIANT KernelReadsLive
\* Once every slot is dormant, or has used up MaxGen, nothing is left to do.
CHECK_DEADLOCK FALSE
