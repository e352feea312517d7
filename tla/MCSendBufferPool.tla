-------------------------- MODULE MCSendBufferPool --------------------------
(* SendBufferPool on small instances.  Threads and buffers are interchangeable; *)
(* chunks are not, since NewChunk chooses one.                               *)
EXTENDS SendBufferPool, TLC

PoolSymmetry ==
  Permutations(Threads) \cup Permutations(Buffers)
=============================================================================
