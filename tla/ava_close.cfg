SPECIFICATION FairSpec
CONSTANTS
  LastFrame = 6
  QueueCap = 3
  UnusedCap = 3
  PacketCap = 3
  Tokens = 2
PROPERTY CloseEnds
CHECK_DEADLOCK FALSE
