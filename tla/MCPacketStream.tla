--------------------------- MODULE MCPacketStream ---------------------------
(* PacketStream on short streams: packets of 2 (a bare header), 3 and 4      *)
(* bytes; the first three together fill the buffer of the run on whole ones. *)
EXTENDS PacketStream

SixPackets ==
  [p \in 0 .. 6 |-> CASE p = 0 -> 0 [] p = 1 -> 2 [] p = 2 -> 5 [] p = 3 -> 8
                      [] p = 4 -> 12 [] p = 5 -> 14 [] p = 6 -> 16]
FourPackets == [p \in 0 .. 4 |-> SixPackets[p]]

Boundaries == {SixPackets[p] : p \in 0 .. 6}
Anywhere == 0 .. SixPackets[6]
=============================================================================
