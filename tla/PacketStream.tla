---------------------------- MODULE PacketStream ----------------------------
(***************************************************************************)
(* How the bytes of a connection become packets: WSARecv appends to        *)
(* RecvBuffer, PacketSession::OnRecv cuts what arrived into packets by the *)
(* size in their headers, and RecvBuffer::Clear makes room again           *)
(* (ServerCore/RecvBuffer.cpp, PacketSession.cpp, Session.cpp:250-279).    *)
(*                                                                         *)
(* Bytes are numbered from 1 as the peer sends them; a place of the buffer *)
(* holds the number of the byte last written there, 0 before any.  Packet  *)
(* p is the bytes from End[p - 1] + 1 to End[p].  One session receives in  *)
(* one thread at a time (RecvExclusive of Session), so there is one pc.    *)
(***************************************************************************)
EXTENDS Integers

CONSTANTS
  Total,         \* bound: how many packets the peer sends
  End,           \* End[p]: bytes of the first p packets
  HeaderSize,    \* sizeof(PacketHeader)
  BufferSize,    \* RecvBuffer::bufferSize
  BufferCount,   \* RecvBuffer::BUFFER_COUNT
  Window,        \* bound: bytes under way, TCP's window
  Cuts,          \* where in the stream the bytes that have arrived may end
  GarbageSizes   \* what two bytes that are no packet's size may hold

Packets == 1 .. Total
Capacity == BufferSize * BufferCount
Places == 0 .. Capacity - 1

ASSUME StreamAssumption ==
  /\ Total \in Nat /\ End \in [0 .. Total -> Nat] /\ End[0] = 0
  /\ HeaderSize \in Nat \ {0} /\ BufferSize \in Nat \ {0}
  /\ BufferCount \in Nat \ {0} /\ Window \in Nat
  /\ \A p, q \in 0 .. Total : p < q => End[p] + HeaderSize <= End[q]
  /\ Cuts \subseteq Nat /\ GarbageSizes \subseteq Nat /\ GarbageSizes # {}

VARIABLES
  sent,               \* packets the peer has sent
  received,           \* bytes taken from the socket
  split,              \* history: some receive ended inside a packet
  readPos, writePos,  \* RecvBuffer's members
  buffer,             \* RecvBuffer::buffer
  len, processLen,    \* OnRecv's parameter and local
  dispatched,         \* history: packets passed to OnRecvPacket whole, in order
  torn,               \* history: OnRecvPacket was called with anything else
  pc

recvVars == <<received, split>>
bufferVars == <<readPos, writePos, buffer>>
parseVars == <<len, processLen, dispatched, torn>>
vars == <<sent, recvVars, bufferVars, parseVars, pc>>

DataSize == writePos - readPos
FreeSize == Capacity - writePos

Init ==
  /\ sent = 0 /\ received = 0 /\ split = FALSE
  /\ readPos = 0 /\ writePos = 0 /\ buffer = [i \in Places |-> 0]
  /\ len = 0 /\ processLen = 0 /\ dispatched = 0 /\ torn = FALSE
  /\ pc = "RegisterRecv"

-----------------------------------------------------------------------------
\* The peer's MakeSendBuffer and Send: a whole packet enters the stream.
SendPacket ==
  /\ sent < Total /\ End[sent + 1] - received <= Window
  /\ sent' = sent + 1
  /\ UNCHANGED <<recvVars, bufferVars, parseVars, pc>>

\* How many bytes WSARecv may report: all that has arrived, up to the space
\* it was given; with no space it completes with none.
Arrivals ==
  IF FreeSize = 0 THEN {0}
  ELSE {n \in 1 .. FreeSize : /\ received + n <= End[sent]
                              /\ received + n \in Cuts \/ n = FreeSize}

\* The completion of WSARecv and ProcessRecv up to the call of OnRecv, which
\* gets ReadPos() and the number of bytes that have just arrived.
ProcessRecv ==
  /\ pc = "RegisterRecv"
  /\ \E n \in Arrivals :
       /\ buffer' = [i \in Places |->
                       IF i \in writePos .. writePos + n - 1
                       THEN received + 1 + i - writePos ELSE buffer[i]]
       /\ writePos' = writePos + n /\ received' = received + n
       /\ split' = (split \/ received + n \notin {End[p] : p \in 0 .. Total})
       /\ len' = n /\ processLen' = 0
       /\ pc' = IF n = 0 \/ n > FreeSize THEN "closed" ELSE "OnRecv"
  /\ UNCHANGED <<sent, readPos, dispatched, torn>>

-----------------------------------------------------------------------------
Size(p) == End[p] - End[p - 1]

\* Whether the first n bytes of packet p are in the buffer from place pos on.
HoldsAt(p, pos, n) ==
  /\ pos + n <= Capacity
  /\ \A k \in 0 .. n - 1 : buffer[pos + k] = End[p - 1] + 1 + k

\* The size OnRecv reads in the header at pos.  What was not received there is
\* the zeros of resize(), the addresses AcceptEx wrote or bytes already handled.
SizesAt(pos) ==
  LET known == {p \in Packets : HoldsAt(p, pos, HeaderSize)}
  IN  IF known # {} THEN {Size(p) : p \in known} ELSE GarbageSizes

\* Line 17 compares an int with a size_t: a negative dataSize is a huge one.
LessThanHeader(dataSize) == dataSize \in 0 .. HeaderSize - 1

\* What the call of OnRecvPacket for size bytes at pos passes on.
Dispatch(pos, size) ==
  IF /\ dispatched < Total /\ size = Size(dispatched + 1)
     /\ HoldsAt(dispatched + 1, pos, size)
  THEN dispatched' = dispatched + 1 /\ UNCHANGED torn
  ELSE torn' = TRUE /\ UNCHANGED dispatched

\* Mutant: only the first packet of what arrived is handled.
OnRecvOnce ==
  LET pos == readPos + processLen
  IN  /\ pc = "OnRecv"
      /\ IF LessThanHeader(len) THEN UNCHANGED <<processLen, dispatched, torn>>
         ELSE \E size \in SizesAt(pos) :
                Dispatch(pos, size) /\ processLen' = processLen + size
      /\ pc' = "OnRead"
      /\ UNCHANGED <<sent, recvVars, bufferVars, len>>

\* Mutant: the size in the header is taken not to count the header.
OnRecvBodySize ==
  LET pos == readPos + processLen
  IN  /\ pc = "OnRecv"
      /\ IF LessThanHeader(len - processLen)
         THEN pc' = "OnRead" /\ UNCHANGED <<processLen, dispatched, torn>>
         ELSE IF pos + HeaderSize > Capacity
         THEN pc' = "lost" /\ UNCHANGED <<processLen, dispatched, torn>>
         ELSE \E size \in SizesAt(pos) :
                /\ Dispatch(pos, size + HeaderSize) /\ UNCHANGED pc
                /\ processLen' = processLen + size + HeaderSize
      /\ UNCHANGED <<sent, recvVars, bufferVars, len>>

\* Mutant: the comparison of line 17 is made signed and nothing else changed.
OnRecvSigned ==
  LET pos == readPos + processLen
  IN  /\ pc = "OnRecv"
      /\ IF len - processLen < HeaderSize
         THEN pc' = "OnRead" /\ UNCHANGED <<processLen, dispatched, torn>>
         ELSE \E size \in SizesAt(pos) :
                /\ Dispatch(pos, size) /\ UNCHANGED pc
                /\ processLen' = processLen + size
      /\ UNCHANGED <<sent, recvVars, bufferVars, len>>

\* Mutant: what arrived is compared with the header, not what is left of it.
OnRecvTestsLen ==
  LET pos == readPos + processLen
  IN  /\ pc = "OnRecv"
      /\ IF LessThanHeader(len)
         THEN pc' = "OnRead" /\ UNCHANGED <<processLen, dispatched, torn>>
         ELSE IF pos + HeaderSize > Capacity
         THEN pc' = "lost" /\ UNCHANGED <<processLen, dispatched, torn>>
         ELSE \E size \in SizesAt(pos) :
                /\ Dispatch(pos, size) /\ UNCHANGED pc
                /\ processLen' = processLen + size
      /\ UNCHANGED <<sent, recvVars, bufferVars, len>>

\* One round of OnRecv's loop.  Outside the buffer it reads on, or faults: it
\* never comes back.
OnRecv ==
  LET pos == readPos + processLen
  IN  /\ pc = "OnRecv"
      /\ IF LessThanHeader(len - processLen)
         THEN pc' = "OnRead" /\ UNCHANGED <<processLen, dispatched, torn>>
         ELSE IF pos + HeaderSize > Capacity
         THEN pc' = "lost" /\ UNCHANGED <<processLen, dispatched, torn>>
         ELSE \E size \in SizesAt(pos) :
                /\ Dispatch(pos, size)
                /\ processLen' = processLen + size
                /\ pc' \in IF pos + size > Capacity THEN {"OnRecv", "lost"}
                           ELSE {"OnRecv"}
      /\ UNCHANGED <<sent, recvVars, bufferVars, len>>

-----------------------------------------------------------------------------
\* Mutant: the bytes are moved and writePos is not.
ClearKeepsWritePos(read) ==
  LET data == writePos - read
  IN  IF data = 0
      THEN readPos' = 0 /\ writePos' = 0 /\ UNCHANGED buffer
      ELSE IF FreeSize < BufferSize
      THEN /\ buffer' = [i \in Places |-> IF i < data THEN buffer[read + i]
                                          ELSE buffer[i]]
           /\ readPos' = 0 /\ UNCHANGED writePos
      ELSE readPos' = read /\ UNCHANGED <<writePos, buffer>>

\* Mutant: only writePos goes back to the start.
ClearKeepsReadPos(read) ==
  /\ readPos' = read /\ UNCHANGED buffer
  /\ writePos' = IF writePos = read THEN 0 ELSE writePos

\* Mutant: the bytes are moved only when no space is left at all.
ClearLate(read) ==
  LET data == writePos - read
  IN  IF data = 0
      THEN readPos' = 0 /\ writePos' = 0 /\ UNCHANGED buffer
      ELSE IF FreeSize = 0
      THEN /\ buffer' = [i \in Places |-> IF i < data THEN buffer[read + i]
                                          ELSE buffer[i]]
           /\ readPos' = 0 /\ writePos' = data
      ELSE readPos' = read /\ UNCHANGED <<writePos, buffer>>

\* RecvBuffer::Clear, with readPos at read.  The memcpy of an overlap behaves
\* as memmove, as Visual C++ implements it.
Clear(read) ==
  LET data == writePos - read
  IN  IF data = 0
      THEN readPos' = 0 /\ writePos' = 0 /\ UNCHANGED buffer
      ELSE IF FreeSize < BufferSize
      THEN /\ buffer' = [i \in Places |-> IF i < data THEN buffer[read + i]
                                          ELSE buffer[i]]
           /\ readPos' = 0 /\ writePos' = data
      ELSE readPos' = read /\ UNCHANGED <<writePos, buffer>>

\* ProcessRecv after OnRecv has returned: the check of processLen, OnRead,
\* Clear and the next RegisterRecv.
OnRead ==
  /\ pc = "OnRead"
  /\ IF processLen > DataSize
     THEN pc' = "closed" /\ UNCHANGED bufferVars
     ELSE pc' = "RegisterRecv" /\ Clear(readPos + processLen)
  /\ UNCHANGED <<sent, recvVars, parseVars>>

Next == SendPacket \/ ProcessRecv \/ OnRecv \/ OnRead

\* A worker takes each completion and runs its handler to the end.
Fairness == WF_vars(ProcessRecv) /\ WF_vars(OnRecv) /\ WF_vars(OnRead)

Spec == Init /\ [][Next]_vars /\ Fairness
-----------------------------------------------------------------------------
Labels == {"RegisterRecv", "OnRecv", "OnRead", "closed", "lost"}

\* Every variable has its type, and the two positions of RecvBuffer stay
\* ordered and inside it, whatever sizes the headers claim.
TypeOK ==
  /\ sent \in 0 .. Total /\ received \in 0 .. End[sent]
  /\ writePos \in 0 .. Capacity /\ readPos \in 0 .. writePos
  /\ buffer \in [Places -> Nat]
  /\ len \in Nat /\ processLen \in Nat
  /\ dispatched \in 0 .. Total /\ torn \in BOOLEAN /\ split \in BOOLEAN
  /\ pc \in Labels

\* The unread part of the buffer is always the last bytes received, in order:
\* neither a receive nor Clear loses, repeats or moves one out of place
\* (RecvBuffer.cpp:16-59).
UnreadAreLast ==
  \A i \in readPos .. writePos - 1 : buffer[i] = received + 1 + i - writePos

\* Every call of OnRecvPacket is passed one whole packet, the next one
\* (the comments at PacketSession.cpp:4-6 and 23-25).
DispatchesWhole == ~torn

\* It is, as long as every receive has ended where a packet ends, however many
\* packets came in one and whatever was in the buffer before
\* (PacketSession.cpp:11-30).
TornBySplit == torn => split

\* And then the loop of OnRecv comes to an end, and the next receive is
\* posted: dataSize passes below the header's size without going negative
\* (PacketSession.cpp:14-30, Session.cpp:268-279).
LoopEnds == pc = "OnRecv" ~> pc = "RegisterRecv" \/ split

\* A receive has room for one bufferSize, wherever the earlier ones ended,
\* unless the bytes nobody has read leave none (RecvBuffer.cpp:17-43).
RoomUnlessUnread ==
  pc = "RegisterRecv" => FreeSize >= BufferSize \/ DataSize > Capacity - BufferSize

\* A connection is taken for closed, or for broken, only if the buffer is full
\* of bytes nobody has read: then a receive of no bytes is posted.  OnRecv
\* never returns more than there is, and no receive brings more than fits
\* (Session.cpp:151, 254-274).
ClosedOnlyFull == pc = "closed" => DataSize = Capacity

\* With whole packets, the parser is the channel the handlers count on: each
\* packet once, in order, and none left in the buffer (PacketSession.cpp:7-33).
ChannelOf == INSTANCE PacketChannel WITH delivered <- dispatched
ChannelSpec == ChannelOf!Spec
=============================================================================
