SPECIFICATION FairSpec
CONSTANTS
  Bufs = {b1, b2}
  BufSize = 8
  VbiBase = 4
  VbiMaxBytes = 2
  Packets <- MCPackets
  MaxPackets = 4
INVARIANTS TypeOK PacketsExact StolenIntact CloseJustified
PROPERTY AllHandled
\* A closed connection does nothing more.
CHECK_DEADLOCK FALSE
