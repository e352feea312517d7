SPECIFICATION Spec
CONSTANTS
  Threads = {t1, t2}
  Chunks = {c1, c2, c3, c4, c5, c6}
  NoChunk = NoChunk
  Buffers = {b1, b2}
  NoBuffer = NoBuffer
  ChunkSize = 3
  Reserve = 2
  HeaderSize = 1
  UInt16 = 4
  Payloads = {0, 1, 2, 3, 5}
SYMMETRY PoolSymmetry
INVARIANTS NeverNull
