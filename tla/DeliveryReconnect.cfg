\* Two connections served by one slot, all levels of QoS in both directions.
SPECIFICATION Spec
CONSTANTS
  Msgs = {m1, m2}
  NoMsg = NoMsg
  MaxInflight = 1
  IdSpace = 2
  EgressCap = 1
  BatchMax = 1
  MaxGen = 2
  Slots = {c1}
  NoSlot = NoSlot
  MaxRetries = 1
  PubQos = {0, 1, 2}
  PubIds = {1}
  RunsOut = FALSE
  MaxOwed = 1
SYMMETRY MsgSymmetry
INVARIANTS WritevMatchesQueue RetryFlagSound Qos0Live RefsExact CountExact
\* Once every slot is dormant, or has used up MaxGen, nothing is left to do.
CHECK_DEADLOCK FALSE
