SPECIFICATION Spec
CONSTANTS
  Total = 4
  End <- FourPackets
  HeaderSize = 2
  BufferSize = 2
  BufferCount = 3
  Window = 8
  Cuts <- Anywhere
  GarbageSizes = {0, 1, 3}
INVARIANT DispatchesWhole
CHECK_DEADLOCK FALSE
