\* The publisher also receives: its ids meet those the broker assigns.
SPECIFICATION SharedSpec
CONSTANTS
  Msgs = {}
  NoMsg = NoMsg
  MaxInflight = 4
  IdSpace = 8
  EgressCap = 1
  BatchMax = 1
  MaxGen = 1
  Ids = {1}
  MaxMessages = 1
  MaxPings = 1
  MaxInbox = 2
  MaxOutbox = 2
  RespSlots = 1
INVARIANT DuplicateDropped
\* The publisher may have nothing left to publish.
CHECK_DEADLOCK FALSE
