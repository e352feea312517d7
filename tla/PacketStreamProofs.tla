------------------------- MODULE PacketStreamProofs -------------------------
(***************************************************************************)
(* Proofs about PacketStream, for streams, buffers and headers of every    *)
(* size.  The first part holds wherever receives end; the second one says  *)
(* what holds as long as each has ended where a packet ends.               *)
(***************************************************************************)
EXTENDS PacketStream, TLAPS

\* A buffer has room for at least one bufferSize.
LEMMA CapacityType == Capacity \in Nat /\ BufferSize <= Capacity
<1>1. BufferSize \in Nat \ {0} /\ BufferCount \in Nat \ {0}
  BY StreamAssumption
<1> QED
  BY <1>1 DEF Capacity

\* Packets do not overlap in the stream.
LEMMA EndsGrow ==
  ASSUME NEW p \in 0 .. Total, NEW q \in 0 .. Total
  PROVE  /\ End[p] \in Nat
         /\ p < q => End[p] + HeaderSize <= End[q] /\ End[p] < End[q]
         /\ p <= q => End[p] <= End[q]
<1>1. HeaderSize \in Nat \ {0} /\ Total \in Nat /\ End \in [0 .. Total -> Nat]
  BY StreamAssumption
<1>2. p < q => End[p] + HeaderSize <= End[q]
  BY StreamAssumption
<1> QED
  BY <1>1, <1>2

\* OnRecv is given the unread bytes that have just arrived, or fewer.
ParseInv == pc \in {"OnRecv", "OnRead"} => len <= DataSize

\* It returns less than a header short of what it was given, never more.
ReturnsInside ==
  pc = "OnRead" => len - processLen \in 0 .. HeaderSize - 1

\* Clear has moved what is unread to the start, or there was room without.
ClearedInv == pc = "RegisterRecv" => readPos = 0 \/ FreeSize >= BufferSize

IInv ==
  /\ TypeOK /\ UnreadAreLast /\ ParseInv /\ ReturnsInside
  /\ ClearedInv /\ ClosedOnlyFull

\* A packet that enters the stream changes nothing in the buffer.
LEMMA SendPacketStep ==
  ASSUME IInv, SendPacket
  PROVE  IInv'
<1>1. sent + 1 \in 0 .. Total /\ End[sent] <= End[sent + 1]
  BY EndsGrow, StreamAssumption DEF IInv, TypeOK, SendPacket
<1>2. TypeOK'
  BY <1>1, EndsGrow, StreamAssumption
     DEF IInv, TypeOK, SendPacket, recvVars, bufferVars, parseVars
<1>3. /\ UnreadAreLast' /\ ParseInv' /\ ReturnsInside'
      /\ ClearedInv' /\ ClosedOnlyFull'
  BY DEF IInv, SendPacket, recvVars, bufferVars, parseVars, UnreadAreLast,
     ParseInv, ReturnsInside, ClearedInv, ClosedOnlyFull, DataSize, FreeSize
<1> QED
  BY <1>2, <1>3 DEF IInv

\* What arrives is appended to what is unread.
LEMMA ProcessRecvStep ==
  ASSUME IInv, ProcessRecv
  PROVE  IInv'
<1>1. PICK n \in Arrivals :
        /\ buffer' = [i \in Places |->
                        IF i \in writePos .. writePos + n - 1
                        THEN received + 1 + i - writePos ELSE buffer[i]]
        /\ writePos' = writePos + n /\ received' = received + n
        /\ split' = (split \/ received + n \notin {End[p] : p \in 0 .. Total})
        /\ len' = n /\ processLen' = 0
        /\ pc' = IF n = 0 \/ n > FreeSize THEN "closed" ELSE "OnRecv"
  BY DEF ProcessRecv
<1>2. /\ UNCHANGED <<sent, readPos, dispatched, torn>>
      /\ End[sent] \in Nat /\ Capacity \in Nat
  BY EndsGrow, CapacityType DEF ProcessRecv, IInv, TypeOK
<1>3. n \in 0 .. FreeSize /\ received + n <= End[sent]
  BY <1>2 DEF Arrivals, IInv, TypeOK, FreeSize
<1>4. TypeOK'
  <2>1. split' \in BOOLEAN
    BY <1>1, Zenon DEF IInv, TypeOK
  <2> QED
    BY <1>1, <1>2, <1>3, <2>1 DEF IInv, TypeOK, Labels, FreeSize, Places
<1>5. UnreadAreLast'
  BY <1>1, <1>2, <1>3 DEF IInv, TypeOK, UnreadAreLast, FreeSize, Places
<1>6. ParseInv' /\ ReturnsInside' /\ ClearedInv'
  BY <1>1, <1>2, <1>3
     DEF IInv, TypeOK, ParseInv, ReturnsInside, ClearedInv, DataSize
<1>7. ClosedOnlyFull'
  <2> SUFFICES ASSUME pc' = "closed"
               PROVE  writePos' - readPos' = Capacity
    BY DEF ClosedOnlyFull, DataSize
  <2>1. n = 0 /\ FreeSize = 0
    BY <1>1, <1>2, <1>3 DEF Arrivals, IInv, TypeOK, FreeSize
  <2>2. readPos = 0
    BY <2>1, StreamAssumption DEF IInv, ClearedInv, ProcessRecv
  <2> QED
    BY <1>1, <1>2, <2>1, <2>2 DEF IInv, TypeOK, FreeSize
<1> QED
  BY <1>4, <1>5, <1>6, <1>7 DEF IInv

\* A size is a natural number, a packet's or garbage.
LEMMA SizesType ==
  ASSUME NEW pos \in Int
  PROVE  SizesAt(pos) \subseteq Nat
<1>1. \A p \in Packets : Size(p) \in Nat
  <2> TAKE p \in Packets
  <2>1. p \in 0 .. Total /\ p - 1 \in 0 .. Total /\ p - 1 < p
    BY StreamAssumption DEF Packets
  <2>2. End[p - 1] \in Nat /\ End[p] \in Nat /\ End[p - 1] < End[p]
    BY <2>1, EndsGrow
  <2> QED
    BY <2>2 DEF Size
<1>2. GarbageSizes \subseteq Nat
  BY StreamAssumption
<1> DEFINE known == {p \in Packets : HoldsAt(p, pos, HeaderSize)}
<1>3. {Size(p) : p \in known} \subseteq Nat
  BY <1>1
<1>4. \/ SizesAt(pos) = {Size(p) : p \in known}
      \/ SizesAt(pos) = GarbageSizes
  BY DEF SizesAt
<1> QED
  BY <1>2, <1>3, <1>4, Zenon

\* OnRecv leaves the buffer alone and stops only inside what it was given.
LEMMA OnRecvStep ==
  ASSUME IInv, OnRecv
  PROVE  IInv'
<1>1. /\ UNCHANGED <<sent, received, split, readPos, writePos, buffer, len>>
      /\ pc = "OnRecv"
  BY DEF OnRecv, recvVars, bufferVars
<1>2. processLen' \in Nat /\ dispatched' \in 0 .. Total /\ torn' \in BOOLEAN
  <2>1. CASE UNCHANGED <<processLen, dispatched, torn>>
    BY <2>1 DEF IInv, TypeOK
  <2>2. CASE \E size \in SizesAt(readPos + processLen) :
               /\ Dispatch(readPos + processLen, size)
               /\ processLen' = processLen + size
    <3>1. readPos + processLen \in Int
      BY CapacityType DEF IInv, TypeOK
    <3>2. PICK size \in Nat : /\ Dispatch(readPos + processLen, size)
                              /\ processLen' = processLen + size
      BY <2>2, <3>1, SizesType
    <3>3. processLen' \in Nat
      BY <3>2 DEF IInv, TypeOK
    <3>4. \/ dispatched < Total /\ dispatched' = dispatched + 1 /\ torn' = torn
          \/ dispatched' = dispatched /\ torn' = TRUE
      BY <3>2 DEF Dispatch
    <3>5. dispatched' \in 0 .. Total
      BY <3>4, StreamAssumption DEF IInv, TypeOK
    <3>6. torn' \in BOOLEAN
      BY <3>4, Zenon DEF IInv, TypeOK
    <3> QED
      BY <3>3, <3>5, <3>6
  <2> QED
    BY <2>1, <2>2 DEF OnRecv
<1>3. /\ pc' \in {"OnRecv", "OnRead", "lost"}
      /\ pc' = "OnRead" => /\ LessThanHeader(len - processLen)
                           /\ processLen' = processLen
  BY <1>1 DEF OnRecv
<1>4. TypeOK'
  BY <1>1, <1>2, <1>3 DEF IInv, TypeOK, Labels
<1>5. UnreadAreLast' /\ ParseInv'
  BY <1>1, <1>3 DEF IInv, UnreadAreLast, ParseInv, DataSize
<1>6. ReturnsInside'
  BY <1>1, <1>3 DEF ReturnsInside, LessThanHeader
<1>7. ClearedInv' /\ ClosedOnlyFull'
  BY <1>3 DEF ClearedInv, ClosedOnlyFull
<1> QED
  BY <1>4, <1>5, <1>6, <1>7 DEF IInv

\* Clear keeps the unread bytes, where they are or at the start.
LEMMA OnReadStep ==
  ASSUME IInv, OnRead
  PROVE  IInv'
<1>1. /\ processLen \in 0 .. DataSize /\ Capacity \in Nat
      /\ BufferSize \in Nat /\ HeaderSize \in Nat
  BY CapacityType, StreamAssumption
     DEF IInv, TypeOK, OnRead, ParseInv, ReturnsInside, DataSize
<1>2. /\ pc' = "RegisterRecv" /\ Clear(readPos + processLen)
      /\ UNCHANGED <<sent, received, split, parseVars>>
  BY <1>1 DEF OnRead, IInv, TypeOK, DataSize, recvVars
<1>3. ParseInv' /\ ReturnsInside' /\ ClosedOnlyFull'
  BY <1>2 DEF ParseInv, ReturnsInside, ClosedOnlyFull
<1> DEFINE read == readPos + processLen
           data == writePos - read
<1>4. /\ read \in readPos .. writePos /\ data \in 0 .. writePos
      /\ writePos \in 0 .. Capacity /\ readPos \in Nat /\ received \in Nat
  BY <1>1, EndsGrow DEF IInv, TypeOK, DataSize
<1>5. CASE data = 0
  <2>1. readPos' = 0 /\ writePos' = 0 /\ UNCHANGED buffer
    BY <1>2, <1>5 DEF Clear
  <2> QED
    BY <1>1, <1>2, <1>3, <2>1
       DEF IInv, TypeOK, parseVars, Labels, UnreadAreLast, ClearedInv
<1>6. CASE data # 0 /\ FreeSize < BufferSize
  <2>1. /\ buffer' = [i \in Places |-> IF i < data THEN buffer[read + i]
                                       ELSE buffer[i]]
        /\ readPos' = 0 /\ writePos' = data
    BY <1>2, <1>6 DEF Clear
  <2>2. \A i \in Places : i < data => read + i \in Places
    BY <1>1, <1>4 DEF Places
  <2>3. buffer' \in [Places -> Nat]
    BY <2>1, <2>2 DEF IInv, TypeOK
  <2>4. TypeOK'
    BY <1>1, <1>2, <1>4, <2>1, <2>3 DEF IInv, TypeOK, parseVars, Labels
  <2>5. UnreadAreLast'
    <3> SUFFICES ASSUME NEW i \in 0 .. data - 1
                 PROVE  buffer'[i] = received + 1 + i - data
      BY <1>2, <2>1 DEF UnreadAreLast
    <3>1. i \in Places /\ read + i \in readPos .. writePos - 1
      BY <1>1, <1>4 DEF Places
    <3>2. buffer'[i] = received + 1 + (read + i) - writePos
      BY <2>1, <3>1 DEF IInv, UnreadAreLast
    <3> QED
      BY <1>4, <3>2
  <2> QED
    BY <1>3, <2>1, <2>4, <2>5 DEF IInv, ClearedInv
<1>7. CASE data # 0 /\ ~(FreeSize < BufferSize)
  <2>1. readPos' = read /\ UNCHANGED <<writePos, buffer>>
    BY <1>2, <1>7 DEF Clear
  <2>2. TypeOK'
    BY <1>1, <1>2, <1>4, <2>1 DEF IInv, TypeOK, parseVars, Labels
  <2>3. UnreadAreLast'
    BY <1>2, <1>4, <2>1 DEF IInv, UnreadAreLast
  <2>4. ClearedInv'
    BY <1>1, <1>4, <1>7, <2>1 DEF ClearedInv, FreeSize
  <2> QED
    BY <1>3, <2>2, <2>3, <2>4 DEF IInv
<1> QED
  BY <1>5, <1>6, <1>7

\* The buffer's invariant holds wherever the stream is cut.
THEOREM Invariance == Spec => []IInv
<1>1. Init => IInv
  <2>1. ASSUME Init
        PROVE  TypeOK
    <3>1. Total \in Nat /\ End[0] = 0 /\ Capacity \in Nat
      BY CapacityType, StreamAssumption
    <3>2. sent \in 0 .. Total /\ received \in 0 .. End[sent]
      BY <2>1, <3>1 DEF Init
    <3>3. /\ writePos \in 0 .. Capacity /\ readPos \in 0 .. writePos
          /\ len \in Nat /\ processLen \in Nat /\ dispatched \in 0 .. Total
      BY <2>1, <3>1 DEF Init
    <3>4. buffer \in [Places -> Nat]
      BY <2>1 DEF Init
    <3>5. torn \in BOOLEAN /\ split \in BOOLEAN /\ pc \in Labels
      BY <2>1, Zenon DEF Init, Labels
    <3> QED
      BY <3>2, <3>3, <3>4, <3>5 DEF TypeOK
  <2>2. ASSUME Init
        PROVE  /\ UnreadAreLast /\ ParseInv /\ ReturnsInside
               /\ ClearedInv /\ ClosedOnlyFull
    <3>1. /\ readPos .. writePos - 1 = {} /\ readPos = 0
          /\ pc \notin {"OnRecv", "OnRead", "closed"}
      BY <2>2 DEF Init
    <3> QED
      BY <3>1 DEF UnreadAreLast, ParseInv, ReturnsInside, ClearedInv, ClosedOnlyFull
  <2> QED
    BY <2>1, <2>2 DEF IInv
<1>2. IInv /\ [Next]_vars => IInv'
  <2>1. IInv /\ UNCHANGED vars => IInv'
    BY DEF IInv, vars, recvVars, bufferVars, parseVars, TypeOK, UnreadAreLast,
       ParseInv, ReturnsInside, ClearedInv, ClosedOnlyFull, DataSize, FreeSize
  <2> QED
    BY <2>1, SendPacketStep, ProcessRecvStep, OnRecvStep, OnReadStep DEF Next
<1> QED
  BY <1>1, <1>2, PTL DEF Spec

\* RecvBuffer's positions stay ordered and inside it, whatever sizes the
\* headers claim and wherever the stream is cut (RecvBuffer.cpp:16-59).
THEOREM TypeCorrect == Spec => []TypeOK
<1>1. IInv => TypeOK
  BY DEF IInv
<1> QED
  BY <1>1, Invariance, PTL

\* Clear and the receives keep the unread bytes whole and in order
\* (RecvBuffer.cpp:16-59).
THEOREM UnreadBytesKept == Spec => []UnreadAreLast
<1>1. IInv => UnreadAreLast
  BY DEF IInv
<1> QED
  BY <1>1, Invariance, PTL

\* Clear makes room for a bufferSize before every receive, if the bytes nobody
\* has read leave that much (RecvBuffer.cpp:17-43).
THEOREM ReceivesHaveRoom == Spec => []RoomUnlessUnread
<1>1. IInv => RoomUnlessUnread
  <2> SUFFICES ASSUME IInv, pc = "RegisterRecv", ~(FreeSize >= BufferSize)
               PROVE  DataSize > Capacity - BufferSize
    BY DEF RoomUnlessUnread
  <2>1. readPos = 0
    BY DEF IInv, ClearedInv
  <2> QED
    BY <2>1, CapacityType, StreamAssumption DEF IInv, TypeOK, DataSize, FreeSize
<1> QED
  BY <1>1, Invariance, PTL

\* The overflow branches are never taken: a live connection is given up only
\* when unread bytes fill the buffer and a receive of none is posted
\* (Session.cpp:151, 254-274).
THEOREM ClosedByFullBuffer == Spec => []ClosedOnlyFull
<1>1. IInv => ClosedOnlyFull
  BY DEF IInv
<1> QED
  BY <1>1, Invariance, PTL
-----------------------------------------------------------------------------
\* Every receive starts with an empty buffer at the end of a packet, and the
\* parser stands at the end of the last packet it has dispatched.
Whole ==
  /\ ~torn /\ pc \in {"RegisterRecv", "OnRecv", "OnRead"} /\ readPos = 0
  /\ \E p \in 0 .. sent : received = End[p]
  /\ pc = "RegisterRecv" => writePos = 0 /\ received = End[dispatched]
  /\ pc # "RegisterRecv" =>
       /\ writePos = len /\ processLen <= len
       /\ received - len + processLen = End[dispatched]
  /\ pc = "OnRead" => processLen = len

BoundaryInv == ~split => Whole

\* What the peer sends does not touch what has arrived.
LEMMA SendPacketBoundary ==
  ASSUME IInv, Whole, SendPacket
  PROVE  Whole'
<1>1. sent \in Nat /\ sent' = sent + 1
  BY DEF SendPacket, IInv, TypeOK
<1>2. PICK p \in 0 .. sent : received = End[p]
  BY DEF Whole
<1>3. p \in 0 .. sent'
  BY <1>1
<1> QED
  BY <1>1, <1>2, <1>3 DEF Whole, SendPacket, recvVars, bufferVars, parseVars

\* A receive that ends where a packet ends brings whole packets.
LEMMA ProcessRecvBoundary ==
  ASSUME IInv, Whole, ProcessRecv, ~split'
  PROVE  Whole'
<1>1. /\ pc = "RegisterRecv" /\ readPos = 0 /\ writePos = 0
      /\ received = End[dispatched] /\ FreeSize = Capacity
      /\ sent \in 0 .. Total /\ received \in Nat /\ dispatched \in 0 .. Total
      /\ Total \in Nat
  BY CapacityType, EndsGrow, StreamAssumption
     DEF ProcessRecv, Whole, IInv, TypeOK, FreeSize
<1>2. Capacity \in Nat \ {0} /\ End[sent] \in Nat
  BY <1>1, CapacityType, EndsGrow, StreamAssumption
<1>3. PICK n \in Arrivals :
        /\ writePos' = writePos + n /\ received' = received + n
        /\ split' = (split \/ received + n \notin {End[p] : p \in 0 .. Total})
        /\ len' = n /\ processLen' = 0
        /\ pc' = IF n = 0 \/ n > FreeSize THEN "closed" ELSE "OnRecv"
  BY DEF ProcessRecv
<1>4. n \in 1 .. Capacity /\ received + n <= End[sent]
  BY <1>1, <1>2 DEF Arrivals
<1>5. UNCHANGED <<sent, readPos, dispatched, torn>>
  BY DEF ProcessRecv
<1>6. \E p \in 0 .. sent : received + n = End[p]
  <2>1. received + n \in {End[p] : p \in 0 .. Total}
    BY <1>3, Zenon
  <2>2. PICK p \in 0 .. Total : received + n = End[p]
    BY <2>1
  <2>3. /\ End[p] \in Nat
        /\ sent < p => End[sent] < End[p]
    BY <1>1, EndsGrow
  <2>4. ~(sent < p)
    BY <1>2, <1>4, <2>2, <2>3
  <2> QED
    BY <1>1, <2>2, <2>4
<1>7. pc' = "OnRecv" /\ writePos' = len' /\ processLen' <= len'
  BY <1>1, <1>2, <1>3, <1>4
<1>8. received' - len' + processLen' = End[dispatched']
  BY <1>1, <1>2, <1>3, <1>4, <1>5 DEF Whole
<1>9. ~torn' /\ readPos' = 0
  BY <1>1, <1>5 DEF Whole
<1> QED
  BY <1>3, <1>5, <1>6, <1>7, <1>8, <1>9 DEF Whole

\* The loop either has handled all that arrived or stands at a whole packet,
\* the next one.
LEMMA OnRecvBoundary ==
  ASSUME IInv, Whole, OnRecv
  PROVE  /\ Whole'
         /\ \/ UNCHANGED dispatched
            \/ dispatched < sent /\ dispatched' = dispatched + 1
<1> DEFINE d == dispatched
           pos == processLen
<1>1. /\ pc = "OnRecv" /\ readPos = 0 /\ writePos = len /\ ~torn
      /\ pos \in Nat /\ len \in Nat /\ received \in Nat /\ pos <= len
      /\ received - len + pos = End[d]
      /\ d \in 0 .. Total /\ sent \in 0 .. Total /\ len \in 0 .. Capacity
      /\ readPos + processLen = pos
  BY CapacityType, EndsGrow DEF OnRecv, Whole, IInv, TypeOK
<1>2. UNCHANGED <<sent, received, readPos, writePos, buffer, len>>
  BY DEF OnRecv, recvVars, bufferVars
<1>3. /\ HeaderSize \in Nat \ {0} /\ Capacity \in Nat /\ Total \in Nat
      /\ End[d] \in Nat
  BY <1>1, CapacityType, EndsGrow, StreamAssumption
<1>4. PICK p \in 0 .. sent : received = End[p]
  BY DEF Whole
<1>5. /\ p \in 0 .. Total /\ len - pos = End[p] - End[d] /\ End[p] \in Nat
      /\ p < d => End[p] < End[d]
      /\ d < p => End[d] + HeaderSize <= End[p]
  BY <1>1, <1>3, <1>4, EndsGrow
<1>6. CASE LessThanHeader(len - pos)
  <2>1. pc' = "OnRead" /\ UNCHANGED <<processLen, dispatched, torn>>
    BY <1>1, <1>6 DEF OnRecv
  <2>2. p = d
    BY <1>1, <1>3, <1>5, <1>6 DEF LessThanHeader
  <2>3. pos = len
    BY <1>1, <1>5, <2>2
  <2> QED
    BY <1>1, <1>2, <2>1, <2>3 DEF Whole
<1>7. CASE ~LessThanHeader(len - pos)
  <2>1. len - pos >= HeaderSize
    BY <1>1, <1>3, <1>7 DEF LessThanHeader
  <2>2. d < p
    BY <1>1, <1>3, <1>5, <2>1
  <2>3. /\ d + 1 \in 1 .. sent /\ d + 1 \in Packets /\ (d + 1) - 1 = d
        /\ d + 1 <= p /\ d + 1 \in 0 .. Total
    BY <1>1, <1>3, <2>2 DEF Packets
  <2>4. /\ End[d] + HeaderSize <= End[d + 1] /\ End[d + 1] <= End[p]
        /\ End[d + 1] \in Nat
    BY <1>1, <1>3, <1>5, <2>3, EndsGrow
  <2>5. Size(d + 1) = End[d + 1] - End[d] /\ pos + Size(d + 1) <= len
    BY <1>1, <1>3, <1>5, <2>3, <2>4 DEF Size
  <2>6. \A n \in 0 .. Size(d + 1) : HoldsAt(d + 1, pos, n)
    <3> TAKE n \in 0 .. Size(d + 1)
    <3>1. pos + n <= Capacity
      BY <1>1, <1>3, <2>4, <2>5
    <3>2. \A k \in 0 .. n - 1 : buffer[pos + k] = End[(d + 1) - 1] + 1 + k
      <4> TAKE k \in 0 .. n - 1
      <4>1. pos + k \in 0 .. len - 1 /\ k \in Nat
        BY <1>1, <1>3, <2>4, <2>5
      <4>2. buffer[pos + k] = received + 1 + (pos + k) - writePos
        BY <1>1, <4>1 DEF IInv, UnreadAreLast
      <4> QED
        BY <1>1, <1>3, <2>3, <4>1, <4>2
    <3> QED
      BY <3>1, <3>2 DEF HoldsAt
  <2>7. HeaderSize \in 0 .. Size(d + 1) /\ Size(d + 1) \in 0 .. Size(d + 1)
    BY <1>3, <2>4, <2>5
  <2>8. \A q \in Packets : HoldsAt(q, pos, HeaderSize) <=> q = d + 1
    <3> SUFFICES ASSUME NEW q \in Packets, HoldsAt(q, pos, HeaderSize)
                 PROVE  q = d + 1
      BY <2>3, <2>6, <2>7
    <3>1. 0 \in 0 .. HeaderSize - 1
      BY <1>3
    <3>2. buffer[pos + 0] = End[q - 1] + 1 + 0
      BY <3>1 DEF HoldsAt
    <3>3. buffer[pos + 0] = End[d] + 1 + 0
      <4>1. buffer[pos + 0] = End[(d + 1) - 1] + 1 + 0
        BY <2>6, <2>7, <3>1 DEF HoldsAt
      <4> QED
        BY <2>3, <4>1
    <3>4. q - 1 \in 0 .. Total /\ q \in Nat
      BY <1>3 DEF Packets
    <3>5. /\ End[q - 1] \in Nat
          /\ q - 1 < d => End[q - 1] < End[d]
          /\ d < q - 1 => End[d] < End[q - 1]
      BY <1>1, <3>4, EndsGrow
    <3>6. End[q - 1] = End[d]
      BY <1>3, <3>2, <3>3, <3>5
    <3> QED
      BY <1>1, <1>3, <3>4, <3>5, <3>6
  <2>9. SizesAt(pos) = {Size(d + 1)}
    <3>1. {q \in Packets : HoldsAt(q, pos, HeaderSize)} = {d + 1}
      BY <2>3, <2>8
    <3> QED
      BY <3>1 DEF SizesAt
  <2>10. pos + HeaderSize <= Capacity /\ pos + Size(d + 1) <= Capacity
    BY <1>1, <1>3, <2>5, <2>4
  <2>11. /\ Dispatch(pos, Size(d + 1)) /\ processLen' = pos + Size(d + 1)
         /\ pc' = "OnRecv"
    BY <1>1, <1>3, <1>7, <2>9, <2>10, <2>5, <2>4 DEF OnRecv
  <2>12. dispatched' = d + 1 /\ torn' = torn /\ d < Total /\ d < sent
    BY <1>1, <1>3, <2>3, <2>6, <2>7, <2>11 DEF Dispatch
  <2>13. /\ processLen' <= len'
         /\ received' - len' + processLen' = End[dispatched']
    BY <1>1, <1>2, <1>3, <2>4, <2>5, <2>11, <2>12
  <2> QED
    BY <1>1, <1>2, <2>11, <2>12, <2>13 DEF Whole
<1> QED
  BY <1>6, <1>7

\* With everything handled, Clear rewinds the buffer.
LEMMA OnReadBoundary ==
  ASSUME IInv, Whole, OnRead
  PROVE  Whole'
<1>1. /\ pc = "OnRead" /\ readPos = 0 /\ writePos = len /\ processLen = len
      /\ len \in Nat /\ received \in Nat /\ received = End[dispatched]
  BY EndsGrow DEF OnRead, Whole, IInv, TypeOK
<1>2. /\ pc' = "RegisterRecv" /\ Clear(readPos + processLen)
      /\ UNCHANGED <<sent, received, parseVars>>
  BY <1>1 DEF OnRead, DataSize, recvVars
<1>3. readPos' = 0 /\ writePos' = 0
  BY <1>1, <1>2 DEF Clear
<1> QED
  BY <1>1, <1>2, <1>3 DEF Whole, parseVars

\* Until a receive ends inside a packet the parser stands at packet ends.
LEMMA BoundaryInvariance == Spec => [](IInv /\ BoundaryInv)
<1>1. Init => BoundaryInv
  <2> SUFFICES ASSUME Init
               PROVE  Whole
    BY DEF BoundaryInv
  <2>1. Total \in Nat /\ End[0] = 0
    BY StreamAssumption
  <2>2. ~torn /\ pc = "RegisterRecv"
    BY Zenon DEF Init
  <2>3. sent = 0 /\ received = 0 /\ dispatched = 0 /\ readPos = 0 /\ writePos = 0
    BY DEF Init
  <2> QED
    BY <2>1, <2>2, <2>3 DEF Whole
<1>2. IInv /\ BoundaryInv /\ [Next]_vars => BoundaryInv'
  <2> SUFFICES ASSUME IInv, BoundaryInv, [Next]_vars, ~split'
               PROVE  Whole'
    BY DEF BoundaryInv
  <2>1. ~split
    BY Zenon DEF Next, SendPacket, ProcessRecv, OnRecv, OnRead, recvVars, vars
  <2>2. Whole
    BY <2>1 DEF BoundaryInv
  <2>3. CASE UNCHANGED vars
    BY <2>2, <2>3 DEF Whole, vars, recvVars, bufferVars, parseVars
  <2> QED
    BY <2>2, <2>3, SendPacketBoundary, ProcessRecvBoundary, OnRecvBoundary,
       OnReadBoundary DEF Next
<1> QED
  BY <1>1, <1>2, Invariance, PTL DEF Spec

\* Wherever receives end: as long as none has ended inside a packet,
\* OnRecvPacket only gets the next packet, whole (PacketSession.cpp:4-33).
THEOREM WholePacketsDispatched == Spec => []TornBySplit
<1>1. BoundaryInv => TornBySplit
  BY DEF BoundaryInv, Whole, TornBySplit
<1> QED
  BY <1>1, BoundaryInvariance, PTL

\* Between two receives every byte taken from the socket has been passed on.
AllHandled == pc = "RegisterRecv" => received = End[dispatched] /\ DataSize = 0

\* Until then Clear is never asked to move a packet that is not complete: what
\* has arrived is handled before the next receive is posted
\* (Session.cpp:262-278).
THEOREM NothingLeftBehind == Spec => [](~split => AllHandled)
<1>1. IInv /\ BoundaryInv => (~split => AllHandled)
  BY DEF BoundaryInv, Whole, AllHandled, DataSize
<1> QED
  BY <1>1, BoundaryInvariance, PTL

\* A connection none of whose receives ends inside a packet is the packet
\* channel, its steps and not its fairness: each packet once, in the order
\* sent (PacketSession.cpp:7-33).
THEOREM StreamImplementsChannel ==
  Spec /\ [](~split) => ChannelOf!Init /\ [][ChannelOf!Next]_(ChannelOf!vars)
<1>1. Init => ChannelOf!Init
  BY DEF Init, ChannelOf!Init
<1>2. IInv /\ BoundaryInv /\ ~split /\ [Next]_vars
        => [ChannelOf!Next]_(ChannelOf!vars)
  <2> SUFFICES ASSUME IInv, BoundaryInv, ~split, [Next]_vars
               PROVE  [ChannelOf!Next]_(ChannelOf!vars)
    OBVIOUS
  <2>1. CASE SendPacket
    BY <2>1 DEF SendPacket, parseVars, ChannelOf!Next, ChannelOf!Send
  <2>2. CASE OnRecv
    BY <2>2, OnRecvBoundary
       DEF BoundaryInv, OnRecv, ChannelOf!Next, ChannelOf!Deliver, ChannelOf!vars
  <2>3. CASE ProcessRecv \/ OnRead \/ UNCHANGED vars
    BY <2>3 DEF ProcessRecv, OnRead, vars, parseVars, ChannelOf!vars
  <2> QED
    BY <2>1, <2>2, <2>3 DEF Next
<1> QED
  BY <1>1, <1>2, BoundaryInvariance, PTL DEF Spec
=============================================================================
