SPECIFICATION Spec
CONSTANTS
  Total = 6
  End <- SixPackets
  HeaderSize = 2
  BufferSize = 3
  BufferCount = 3
  Window = 8
  Cuts <- Anywhere
  GarbageSizes = {0, 1, 3}
INVARIANTS TypeOK UnreadAreLast TornBySplit RoomUnlessUnread ClosedOnlyFull
PROPERTY LoopEnds
CHECK_DEADLOCK FALSE
