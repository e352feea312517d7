SPECIFICATION Spec
CONSTANTS
  Total = 6
  End <- SixPackets
  HeaderSize = 2
  BufferSize = 2
  BufferCount = 4
  Window = 8
  Cuts <- Boundaries
  GarbageSizes = {0, 1, 3}
INVARIANT DispatchesWhole
PROPERTY ChannelSpec
CHECK_DEADLOCK FALSE
