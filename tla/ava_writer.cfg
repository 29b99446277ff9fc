SPECIFICATION FairSpec
CONSTANTS
  LastFrame = 6
  QueueCap = 3
  UnusedCap = 3
  PacketCap = 3
  Tokens = 2
INVARIANTS TypeOK ObjectsBounded FramesAccountedFor EveryPacketIsShown FilmIsDeveloped
PROPERTIES KeepsClip CloseEndsIfPoolHolds
CHECK_DEADLOCK FALSE
