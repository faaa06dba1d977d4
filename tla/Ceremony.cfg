\* Two packet ids compete for one entry, one is used again; one response slot.
SPECIFICATION FairSpec
CONSTANTS
  Msgs = {}
  NoMsg = NoMsg
  MaxInflight = 1
  IdSpace = 4
  EgressCap = 1
  BatchMax = 1
  MaxGen = 2
  Ids = {1, 3}
  MaxMessages = 2
  MaxPings = 1
  MaxInbox = 2
  MaxOutbox = 1
  RespSlots = 1
INVARIANTS TypeOK ResponsesIntact AckedForwarded
PROPERTIES ImplementsPublishOnce PublishCompletes
\* The publisher may have nothing left to publish.
CHECK_DEADLOCK FALSE
