\* Two subscribers share one message, QoS 0 and 1.
SPECIFICATION Spec
CONSTANTS
  Msgs = {m1}
  NoMsg = NoMsg
  MaxInflight = 1
  IdSpace = 2
  EgressCap = 1
  BatchMax = 1
  MaxGen = 1
  Slots = {c1, c2}
  NoSlot = NoSlot
  MaxRetries = 1
  PubQos = {0, 1}
  PubIds = {1}
  RunsOut = TRUE
  MaxOwed = 1
SYMMETRY Symmetry
INVARIANT RefsExact
PROPERTY NoLostWakeup
\* Once every slot is dormant, or has used up MaxGen, nothing is left to do.
CHECK_DEADLOCK FALSE
