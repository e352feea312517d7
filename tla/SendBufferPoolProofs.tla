------------------------ MODULE SendBufferPoolProofs ------------------------
(***************************************************************************)
(* Proofs about SendBufferPool, for every number of threads, chunks and    *)
(* packets and every chunk, reservation and packet size.                   *)
(***************************************************************************)
EXTENDS SendBufferPool, SequenceTheorems, FiniteSetTheorems, TLAPS

\* What each label of Open and Release says of the two pointers a thread holds.
PointersInv ==
  \A t \in Threads :
    /\ pc[t] \in {"idle", "Pop", "Serialize", "crashed"} => held[t] = NoChunk
    /\ pc[t] \in {"Replace", "Recycle", "Return"} => held[t] # NoChunk
    /\ pc[t] \in {"Recycle", "Serialize"} => local[t] # NoChunk

\* Every chunk referred to was created: NewChunk is none of them.
AllocatedInv ==
  /\ \A i \in DOMAIN pool : pool[i] \in allocated
  /\ \A t \in Threads : /\ local[t] \in allocated \cup {NoChunk}
                        /\ held[t] \in allocated \cup {NoChunk}
  /\ \A b \in Live : buffers[b].chunk \in allocated

\* No packet lies in a chunk that is on its way from or to the pool.
HeldFree == \A t \in Threads, b \in Live : buffers[b].chunk # held[t]

\* A chunk Open has chosen has room for the reservation.
RoomInv ==
  \A t \in Threads :
    pc[t] \in {"Recycle", "Serialize"} => FreeSize(local[t]) >= Reserve

IInv ==
  /\ TypeOK /\ PointersInv /\ AllocatedInv /\ HeldFree
  /\ PoolUnreferenced /\ ThreadConfined /\ RoomInv /\ PacketsIntact

-----------------------------------------------------------------------------
\* pop_back leaves the other elements where they are.
LEMMA FrontProperties ==
  ASSUME NEW S, NEW s \in Seq(S), NEW n \in Nat, n <= Len(s)
  PROVE  /\ SubSeq(s, 1, n) \in Seq(S)
         /\ Len(SubSeq(s, 1, n)) = n
         /\ \A i \in 1 .. n : SubSeq(s, 1, n)[i] = s[i]
<1>1. Len(s) \in Nat
  OBVIOUS
<1>2. \A i \in 1 .. n : s[i] \in S
  BY <1>1
<1>3. 1 \in Int /\ n \in Int
  OBVIOUS
<1>4. SubSeq(s, 1, n) \in Seq(S)
  BY <1>2, <1>3, SubSeqProperties
<1> QED
  BY <1>1, <1>4

\* new gives a chunk nobody has seen.
LEMMA NewChunkIsNew ==
  ASSUME Chunks \ allocated # {}
  PROVE  NewChunk \in Chunks \ allocated
  BY DEF NewChunk

\* A packet's size is a natural number, whatever uint16 makes of it.
LEMMA PacketSizeType ==
  ASSUME NEW n \in Payloads
  PROVE  PacketSize(n) \in Nat
<1>1. n \in Nat /\ UInt16 \in Nat \ {0} /\ HeaderSize \in Nat
  BY PoolAssumption
<1>2. DataSize(n) \in Nat
  BY <1>1 DEF DataSize
<1> QED
  BY <1>1, <1>2 DEF PacketSize

\* Open only chooses where to go on: it reads the chunk and writes nothing.
LEMMA OpenStep ==
  ASSUME IInv, NEW t \in Threads, Open(t)
  PROVE  IInv'
<1> USE PoolAssumption
<1>0. TypeOK /\ PointersInv /\ AllocatedInv /\ HeldFree
      /\ PoolUnreferenced /\ ThreadConfined /\ RoomInv /\ PacketsIntact
  BY DEF IInv
<1>1. TypeOK'
  BY <1>0 DEF Open, Step, FreeSize, chunkVars, TypeOK, RefsOK, ChunksOK,
    Labels
<1>2. PointersInv'
  BY <1>0 DEF Open, Step, FreeSize, chunkVars, TypeOK, RefsOK, PointersInv
<1>3. AllocatedInv'
  BY <1>0 DEF Open, Step, FreeSize, chunkVars, TypeOK, RefsOK, AllocatedInv,
    Live
<1>4. HeldFree'
  BY <1>0 DEF Open, Step, FreeSize, chunkVars, TypeOK, RefsOK, HeldFree, Live
<1>5. PoolUnreferenced'
  BY <1>0 DEF Open, Step, FreeSize, chunkVars, TypeOK, RefsOK,
    PoolUnreferenced, Users
<1>6. ThreadConfined'
  BY <1>0 DEF Open, Step, FreeSize, chunkVars, TypeOK, RefsOK, ThreadConfined
<1>7. RoomInv'
  BY <1>0 DEF Open, Step, chunkVars, TypeOK, ChunksOK, RefsOK, Labels,
    RoomInv, FreeSize
<1>8. PacketsIntact'
  BY <1>0 DEF Open, Step, chunkVars, TypeOK, ChunksOK, RefsOK, PacketsIntact,
    Live, FreeSize
<1> QED
  BY <1>1, <1>2, <1>3, <1>4, <1>5, <1>6, <1>7, <1>8 DEF IInv

\* The chunk popped was used by nobody: it left the pool or is new.
LEMMA PopStep ==
  ASSUME IInv, NEW t \in Threads, Pop(t)
  PROVE  IInv'
<1> USE PoolAssumption
<1>0. TypeOK /\ PointersInv /\ AllocatedInv /\ HeldFree
      /\ PoolUnreferenced /\ ThreadConfined /\ RoomInv /\ PacketsIntact
  BY DEF IInv
<1>a. PICK c \in Chunks :
        /\ held' = [held EXCEPT ![t] = c]
        /\ \/ /\ c \notin allocated /\ allocated' = allocated \cup {c}
              /\ pool' = pool
           \/ /\ allocated' = allocated /\ pool # << >> /\ c = pool[Len(pool)]
              /\ pool' = SubSeq(pool, 1, Len(pool) - 1)
  <2>1. CASE pool = << >>
    BY <2>1, NewChunkIsNew DEF Pop
  <2>2. CASE pool # << >>
    <3>1. Len(pool) \in DOMAIN pool /\ pool[Len(pool)] \in Chunks
      BY <1>0, <2>2 DEF TypeOK, RefsOK
    <3> QED
      BY <2>2, <3>1 DEF Pop
  <2> QED
    BY <2>1, <2>2
<1>b. /\ pool' \in Seq(Chunks) /\ Len(pool') <= Len(pool)
      /\ \A i \in DOMAIN pool' : i \in DOMAIN pool /\ pool'[i] = pool[i]
  <2>1. CASE pool' = pool
    BY <1>0, <2>1 DEF TypeOK, RefsOK
  <2>2. CASE pool # << >> /\ pool' = SubSeq(pool, 1, Len(pool) - 1)
    <3>1. /\ pool \in Seq(Chunks) /\ Len(pool) \in Nat
          /\ Len(pool) - 1 \in Nat /\ Len(pool) - 1 <= Len(pool)
      BY <1>0, <2>2 DEF TypeOK, RefsOK
    <3>2. pool' \in Seq(Chunks) /\ Len(pool') = Len(pool) - 1
      BY <2>2, <3>1, FrontProperties
    <3>3. \A i \in 1 .. Len(pool) - 1 : pool'[i] = pool[i]
      BY <2>2, <3>1, FrontProperties
    <3> QED
      BY <3>1, <3>2, <3>3
  <2> QED
    BY <1>a, <2>1, <2>2
<1>c. /\ allocated \subseteq allocated' /\ c \in allocated'
      /\ allocated' \subseteq Chunks
      /\ \A i \in DOMAIN pool' : pool'[i] # c
      /\ Users(c) = {} /\ \A u \in Threads : local[u] # c /\ held[u] # c
  BY <1>0, <1>a, <1>b
     DEF TypeOK, ChunksOK, RefsOK, AllocatedInv, PoolUnreferenced, Users, Live
<1>d. UNCHANGED <<open, usedSize, local, buffers>> /\ Step(t, "Pop", "Replace")
  BY DEF Pop, chunkVars
<1>1. TypeOK'
  BY <1>0, <1>a, <1>b, <1>c, <1>d
     DEF Step, TypeOK, ChunksOK, RefsOK, Labels
<1>2. PointersInv'
  BY <1>0, <1>a, <1>b, <1>c, <1>d
     DEF Step, TypeOK, RefsOK, Labels, PointersInv
<1>3. AllocatedInv'
  BY <1>0, <1>a, <1>b, <1>c, <1>d
     DEF TypeOK, RefsOK, AllocatedInv, Live
<1>4. HeldFree'
  BY <1>0, <1>a, <1>b, <1>c, <1>d
     DEF TypeOK, RefsOK, HeldFree, Users, Live
<1>5. PoolUnreferenced'
  BY <1>0, <1>a, <1>b, <1>c, <1>d
     DEF TypeOK, RefsOK, PoolUnreferenced, Users
<1>6. ThreadConfined'
  BY <1>0, <1>a, <1>b, <1>c, <1>d
     DEF TypeOK, RefsOK, ThreadConfined
<1>7. RoomInv'
  BY <1>0, <1>a, <1>b, <1>c, <1>d
     DEF Step, TypeOK, RefsOK, RoomInv, FreeSize
<1>8. PacketsIntact'
  BY <1>0, <1>a, <1>b, <1>c, <1>d
     DEF Step, TypeOK, RefsOK, PacketsIntact, Live, FreeSize
<1> QED
  BY <1>1, <1>2, <1>3, <1>4, <1>5, <1>6, <1>7, <1>8 DEF IInv

\* The popped chunk becomes the thread's, and the old one is given up only when
\* no packet lies in it.
LEMMA ReplaceStep ==
  ASSUME IInv, NEW t \in Threads, Replace(t)
  PROVE  IInv'
<1> USE PoolAssumption
<1>0. TypeOK /\ PointersInv /\ AllocatedInv /\ HeldFree
      /\ PoolUnreferenced /\ ThreadConfined /\ RoomInv /\ PacketsIntact
  BY DEF IInv
<1>1. TypeOK'
  BY <1>0 DEF Replace, InitChunk, Step, Users, chunkVars, TypeOK, RefsOK, ChunksOK,
    Labels
<1>2. PointersInv'
  BY <1>0 DEF Replace, InitChunk, Step, Users, chunkVars, TypeOK, RefsOK, PointersInv
<1>3. AllocatedInv'
  BY <1>0 DEF Replace, InitChunk, Step, Users, chunkVars, TypeOK, RefsOK, AllocatedInv,
    Live
<1>4. HeldFree'
  BY <1>0 DEF Replace, InitChunk, Step, Users, chunkVars, TypeOK, RefsOK, HeldFree, Live
<1>5. PoolUnreferenced'
  BY <1>0 DEF Replace, InitChunk, Step, Users, chunkVars, TypeOK, RefsOK,
    PoolUnreferenced
<1>6. ThreadConfined'
  BY <1>0 DEF Replace, InitChunk, Step, Users, chunkVars, TypeOK, RefsOK, ThreadConfined
<1>7. RoomInv'
  BY <1>0 DEF Replace, InitChunk, Step, TypeOK, ChunksOK, RefsOK, PointersInv,
    ThreadConfined, RoomInv, FreeSize
<1>8. PacketsIntact'
  BY <1>0 DEF Replace, InitChunk, Step, TypeOK, ChunksOK, RefsOK, PointersInv, HeldFree,
    ThreadConfined, PacketsIntact, Live, FreeSize
<1> QED
  BY <1>1, <1>2, <1>3, <1>4, <1>5, <1>6, <1>7, <1>8 DEF IInv

\* What is pushed is what the thread held alone.
LEMMA PushGlobalStep ==
  ASSUME IInv, NEW t \in Threads, PushGlobal(t)
  PROVE  IInv'
<1> USE PoolAssumption
<1>0. TypeOK /\ PointersInv /\ AllocatedInv /\ HeldFree
      /\ PoolUnreferenced /\ ThreadConfined /\ RoomInv /\ PacketsIntact
  BY DEF IInv
<1>1. TypeOK'
  <2>1. held[t] \in Chunks /\ pool \in Seq(Chunks)
    BY <1>0 DEF PushGlobal, Step, TypeOK, RefsOK, PointersInv
  <2>2. pool' \in Seq(Chunks)
    BY <2>1 DEF PushGlobal
  <2> QED
    BY <1>0, <2>2 DEF PushGlobal, Step, chunkVars, TypeOK, ChunksOK, RefsOK,
       Labels
<1>2. PointersInv'
  BY <1>0 DEF PushGlobal, Step, chunkVars, TypeOK, RefsOK, PointersInv
<1>3. AllocatedInv'
  BY <1>0 DEF PushGlobal, Step, chunkVars, TypeOK, RefsOK, AllocatedInv, Live,
    PointersInv, Labels
<1>4. HeldFree'
  BY <1>0 DEF PushGlobal, Step, chunkVars, TypeOK, RefsOK, HeldFree, Live
<1>5. PoolUnreferenced'
  BY <1>0 DEF PushGlobal, Step, chunkVars, TypeOK, RefsOK, PointersInv,
    HeldFree, Live, ThreadConfined, PoolUnreferenced, Users
<1>6. ThreadConfined'
  BY <1>0 DEF PushGlobal, Step, chunkVars, TypeOK, RefsOK, ThreadConfined
<1>7. RoomInv'
  BY <1>0 DEF PushGlobal, Step, chunkVars, TypeOK, RefsOK, RoomInv, FreeSize
<1>8. PacketsIntact'
  BY <1>0 DEF PushGlobal, Step, chunkVars, TypeOK, ChunksOK, RefsOK, RoomInv,
    PacketsIntact, Live, FreeSize
<1> QED
  BY <1>1, <1>2, <1>3, <1>4, <1>5, <1>6, <1>7, <1>8 DEF IInv

\* A packet goes above every packet of the thread's chunk.
LEMMA SerializeStep ==
  ASSUME IInv, NEW t \in Threads, Serialize(t)
  PROVE  IInv'
<1> USE PoolAssumption
<1>0. TypeOK /\ PointersInv /\ AllocatedInv /\ HeldFree
      /\ PoolUnreferenced /\ ThreadConfined /\ RoomInv /\ PacketsIntact
  BY DEF IInv
<1>a. /\ Step(t, "Serialize", "idle") /\ UNCHANGED <<allocated, pool, local, held>>
      /\ local[t] \in Chunks /\ held[t] = NoChunk
      /\ FreeSize(local[t]) >= Reserve /\ open' \in [Chunks -> BOOLEAN]
  BY <1>0 DEF Serialize, StayOpen, OpenAndClose, Step, TypeOK, ChunksOK, RefsOK, PointersInv, RoomInv,
     chunkVars
<1>b. CASE UNCHANGED <<usedSize, buffers>>
  BY <1>0, <1>a, <1>b DEF IInv, Step, TypeOK, ChunksOK, RefsOK, Labels,
     PointersInv, AllocatedInv, HeldFree, PoolUnreferenced, ThreadConfined,
     RoomInv, FreeSize, PacketsIntact, Users, Live
<1>c. SUFFICES ASSUME NEW size \in Nat, NEW b \in Buffers,
                      size <= Reserve, buffers[b] = NoBuffer,
                      buffers' = [buffers EXCEPT ![b] =
                        [chunk |-> local[t], start |-> usedSize[local[t]],
                         size |-> size]],
                      usedSize' = [usedSize EXCEPT ![local[t]] = @ + size]
               PROVE  IInv'
  BY <1>b, PacketSizeType DEF Serialize, StayOpen, OpenAndClose, NewSendBuffer,
     chunkVars
<1>d. /\ usedSize' \in [Chunks -> Nat]
      /\ \A c \in Chunks : usedSize[c] <= usedSize'[c] /\ usedSize'[c] <= ChunkSize
      /\ buffers'[b] \in [chunk : Chunks, start : Nat, size : Nat]
      /\ buffers'[b] # NoBuffer /\ buffers'[b].chunk = local[t]
      /\ buffers'[b].start = usedSize[local[t]] /\ buffers'[b].size = size
      /\ \A a \in Buffers : a # b => buffers'[a] = buffers[a]
  BY <1>0, <1>a, <1>c DEF TypeOK, ChunksOK, RefsOK, PacketsIntact, FreeSize
<1>1. TypeOK'
  BY <1>0, <1>a, <1>c, <1>d
     DEF Step, TypeOK, ChunksOK, RefsOK, Labels
<1>2. PointersInv'
  BY <1>0, <1>a, <1>c, <1>d
     DEF Step, TypeOK, RefsOK, Labels, PointersInv
<1>3. AllocatedInv'
  BY <1>0, <1>a, <1>c, <1>d
     DEF TypeOK, RefsOK, AllocatedInv, Live
<1>4. HeldFree'
  BY <1>0, <1>a, <1>c, <1>d
     DEF TypeOK, RefsOK, HeldFree, ThreadConfined, Live
<1>5. PoolUnreferenced'
  BY <1>0, <1>a, <1>c, <1>d
     DEF TypeOK, RefsOK, PoolUnreferenced, Users
<1>6. ThreadConfined'
  BY <1>0, <1>a, <1>c, <1>d
     DEF TypeOK, RefsOK, ThreadConfined
<1>7. RoomInv'
  BY <1>0, <1>a, <1>c, <1>d
     DEF Step, TypeOK, ChunksOK, RefsOK, PointersInv, ThreadConfined,
     RoomInv, FreeSize
<1>8. PacketsIntact'
  <2>1. \A a \in Live' : a # b => a \in Live /\ buffers'[a] = buffers[a]
                                 /\ buffers[a].chunk \in Chunks
                                 /\ buffers[a].start \in Nat /\ buffers[a].size \in Nat
    BY <1>0, <1>d DEF TypeOK, RefsOK, Live
  <2>2. \A a \in Live' :
          buffers'[a].start + buffers'[a].size <= usedSize'[buffers'[a].chunk]
    BY <1>0, <1>a, <1>c, <1>d, <2>1
       DEF TypeOK, ChunksOK, PacketsIntact
  <2>3. \A a \in Live' : a # b /\ buffers[a].chunk = local[t] =>
          buffers[a].start + buffers[a].size <= usedSize[local[t]]
    BY <1>0, <2>1 DEF PacketsIntact
  <2>4. \A a, d \in Live' :
          a # d /\ buffers'[a].chunk = buffers'[d].chunk =>
            \/ buffers'[a].start + buffers'[a].size <= buffers'[d].start
            \/ buffers'[d].start + buffers'[d].size <= buffers'[a].start
    BY <1>0, <1>d, <2>1, <2>3 DEF PacketsIntact
  <2>5. \A u \in Threads :
          pc'[u] = "Serialize" => FreeSize(local[u])' >= Reserve
    BY <1>7, <1>a DEF RoomInv, FreeSize
  <2> QED
    BY <1>d, <2>2, <2>4, <2>5 DEF PacketsIntact
<1> QED
  BY <1>1, <1>2, <1>3, <1>4, <1>5, <1>6, <1>7, <1>8 DEF IInv

\* The thread that drops the last reference is the only one to hold the chunk.
LEMMA ReleaseStep ==
  ASSUME IInv, NEW t \in Threads, Release(t)
  PROVE  IInv'
<1> USE PoolAssumption
<1>0. TypeOK /\ PointersInv /\ AllocatedInv /\ HeldFree
      /\ PoolUnreferenced /\ ThreadConfined /\ RoomInv /\ PacketsIntact
  BY DEF IInv
<1>1. TypeOK'
  BY <1>0 DEF Release, Step, Users, chunkVars, TypeOK, RefsOK, ChunksOK,
    Labels
<1>2. PointersInv'
  BY <1>0 DEF Release, Step, Users, chunkVars, TypeOK, RefsOK, PointersInv
<1>3. AllocatedInv'
  BY <1>0 DEF Release, Step, Users, chunkVars, TypeOK, RefsOK, AllocatedInv,
    Live
<1>4. HeldFree'
  BY <1>0 DEF Release, Step, Users, chunkVars, TypeOK, RefsOK, HeldFree, Live
<1>5. PoolUnreferenced'
  BY <1>0 DEF Release, Step, Users, chunkVars, TypeOK, RefsOK,
    PoolUnreferenced
<1>6. ThreadConfined'
  BY <1>0 DEF Release, Step, Users, chunkVars, TypeOK, RefsOK, HeldFree, Live,
    ThreadConfined
<1>7. RoomInv'
  BY <1>0 DEF Release, Step, Users, chunkVars, TypeOK, RefsOK, RoomInv,
    FreeSize
<1>8. PacketsIntact'
  BY <1>0 DEF Release, Step, Users, chunkVars, TypeOK, RefsOK, PacketsIntact,
    Live, FreeSize
<1> QED
  BY <1>1, <1>2, <1>3, <1>4, <1>5, <1>6, <1>7, <1>8 DEF IInv

\* The invariant is inductive: each step of a thread keeps it.
LEMMA NextInv ==
  ASSUME IInv, [Next]_vars
  PROVE  IInv'
<1>1. CASE UNCHANGED vars
  BY <1>1 DEF IInv, vars, chunkVars, TypeOK, ChunksOK, RefsOK, PointersInv,
     AllocatedInv, HeldFree, PoolUnreferenced, ThreadConfined, RoomInv,
     FreeSize, PacketsIntact, Users, Live
<1>2. CASE Next
  BY <1>1, <1>2, OpenStep, PopStep, ReplaceStep, PushGlobalStep,
     SerializeStep, ReleaseStep DEF Next
<1> QED
  BY <1>1, <1>2

\* The invariant the theorems below are read from holds in every state.
THEOREM Invariance == Spec => []IInv
<1>1. Init => IInv
  BY PoolAssumption DEF Init, IInv, TypeOK, ChunksOK, RefsOK, Labels,
     PointersInv, AllocatedInv, HeldFree, PoolUnreferenced, ThreadConfined,
     RoomInv, PacketsIntact, Users, Live
<1>2. IInv /\ [Next]_vars => IInv'
  BY NextInv
<1> QED
  BY <1>1, <1>2, PTL DEF Spec

\* Every variable keeps its type.
THEOREM TypeCorrect == Spec => []TypeOK
<1>1. IInv => TypeOK
  BY DEF IInv
<1> QED
  BY <1>1, Invariance, PTL

\* No thread can pop a chunk whose bytes another still uses: the last
\* reference alone brings it to the pool, once (SendBufferManager.cpp:29-61).
THEOREM PoolHoldsFreeChunks == Spec => []PoolUnreferenced
<1>1. IInv => PoolUnreferenced
  BY DEF IInv
<1> QED
  BY <1>1, Invariance, PTL

\* Two threads never carve from one chunk, so SendBufferChunk needs no lock
\* (SendBufferChunk.cpp:7-8).
THEOREM ChunksAreThreadLocal == Spec => []ThreadConfined
<1>1. IInv => ThreadConfined
  BY DEF IInv
<1> QED
  BY <1>1, Invariance, PTL

\* Reusing chunks never writes over a packet that waits to be sent, whatever
\* the sizes of packets are (SendBufferChunk.cpp:14-48).
THEOREM PacketsAreNotOverwritten == Spec => []PacketsIntact
<1>1. IInv => PacketsIntact
  BY DEF IInv
<1> QED
  BY <1>1, Invariance, PTL
-----------------------------------------------------------------------------
\* The bytes MakeSendBuffer writes before Close looks at their number: the
\* header always, the payload when uint16 has room for its size.
Written(n) == HeaderSize + (IF DataSize(n) = n THEN n ELSE 0)

\* What a thread is about to write lies above every packet of its chunk, no
\* other thread has its hands on that chunk, and a packet no larger than the
\* reservation does not reach past the chunk's end.
WritesFree ==
  \A t \in Threads : pc[t] = "Serialize" =>
    /\ \A n \in Payloads :
         Written(n) <= Reserve => usedSize[local[t]] + Written(n) <= ChunkSize
    /\ \A b \in Live : buffers[b].chunk = local[t] =>
         buffers[b].start + buffers[b].size <= usedSize[local[t]]
    /\ \A u \in Threads \ {t} : local[u] # local[t] /\ held[u] # local[t]

\* MakeSendBuffer checks the size of a packet only after it is written.  For a
\* packet no larger than the reservation the order does no harm, whatever
\* other packets were refused before it: the bytes written are in the chunk
\* and nobody else's (PacketHandler.h:33-46).  A larger one may reach past the
\* chunk's end, and of what it hits there nothing is claimed.
THEOREM WritesHarmNoPacket == Spec => []WritesFree
<1>1. IInv => WritesFree
  <2> SUFFICES ASSUME IInv, NEW t \in Threads, pc[t] = "Serialize"
               PROVE  /\ \A n \in Payloads : Written(n) <= Reserve =>
                           usedSize[local[t]] + Written(n) <= ChunkSize
                      /\ \A b \in Live : buffers[b].chunk = local[t] =>
                           buffers[b].start + buffers[b].size
                             <= usedSize[local[t]]
                      /\ \A u \in Threads \ {t} :
                           local[u] # local[t] /\ held[u] # local[t]
    BY DEF WritesFree
  <2>1. local[t] \in Chunks
    BY DEF IInv, TypeOK, RefsOK, PointersInv
  <2>2. usedSize[local[t]] \in Nat /\ usedSize[local[t]] + Reserve <= ChunkSize
    BY <2>1, PoolAssumption DEF IInv, TypeOK, ChunksOK, RoomInv, FreeSize
  <2>3. ASSUME NEW n \in Payloads, Written(n) <= Reserve
        PROVE  usedSize[local[t]] + Written(n) <= ChunkSize
    <3>1. Written(n) \in Nat
      BY PoolAssumption DEF Written
    <3> QED
      BY <2>2, <2>3, <3>1, PoolAssumption
  <2>4. ASSUME NEW b \in Live, buffers[b].chunk = local[t]
        PROVE  buffers[b].start + buffers[b].size <= usedSize[local[t]]
    BY <2>4 DEF IInv, PacketsIntact
  <2>5. ASSUME NEW u \in Threads \ {t}
        PROVE  local[u] # local[t] /\ held[u] # local[t]
    BY <2>1, PoolAssumption DEF IInv, ThreadConfined
  <2> QED
    BY <2>3, <2>4, <2>5
<1> QED
  BY <1>1, Invariance, PTL

\* A chunk's bytes are handed out anew only when no packet lies in them.
ReusedWhenEmpty ==
  \A c \in Chunks : usedSize'[c] < usedSize[c] => Users(c) = {}

\* Init rewinds a chunk without asking who uses it: it is only ever called on
\* one no packet lies in, so a packet stays as it was written until the last
\* reference to it goes (SendBufferChunk.cpp:5-12, SendBufferManager.cpp:8-21).
THEOREM RewindsEmptyChunks == Spec => [][ReusedWhenEmpty]_vars
<1>1. IInv /\ [Next]_vars => [ReusedWhenEmpty]_vars
  <2> SUFFICES ASSUME IInv, Next, NEW c \in Chunks, usedSize'[c] < usedSize[c]
               PROVE  Users(c) = {}
    BY DEF ReusedWhenEmpty
  <2>1. usedSize \in [Chunks -> Nat] /\ TypeOK
    BY DEF IInv, TypeOK, ChunksOK
  <2>2. usedSize'[c] # usedSize[c]
    BY <2>1
  <2>3. CASE \E t \in Threads : Replace(t)
    <3>1. PICK t \in Threads : Replace(t)
      BY <2>3
    <3>2. usedSize' = [usedSize EXCEPT ![held[t]] = 0]
      BY <3>1 DEF Replace, InitChunk
    <3>3. held[t] = c
      BY <2>1, <2>2, <3>2
    <3> QED
      BY <3>3 DEF IInv, HeldFree, Users, Live
  <2>4. CASE \E t \in Threads : Serialize(t)
    <3>1. PICK t \in Threads : Serialize(t)
      BY <2>4
    <3>2. \E n \in Payloads :
            usedSize' = [usedSize EXCEPT ![local[t]] = @ + PacketSize(n)]
      BY <2>2, <3>1 DEF Serialize, StayOpen, OpenAndClose, chunkVars
    <3>3. usedSize'[c] >= usedSize[c]
      BY <2>1, <3>2, PacketSizeType
    <3> QED
      BY <2>1, <3>2, <3>3, PacketSizeType
  <2>5. UNCHANGED usedSize \/ \E t \in Threads : Replace(t) \/ Serialize(t)
    BY DEF Next, Open, Pop, PushGlobal, Release, vars, chunkVars
  <2> QED
    BY <2>2, <2>3, <2>4, <2>5
<1> QED
  BY <1>1, Invariance, PTL DEF Spec
-----------------------------------------------------------------------------
(* No chunk is lost. *)

\* Every chunk that was created is somewhere it can be used again from.
Referenced ==
  \A c \in allocated :
    \/ \E i \in DOMAIN pool : pool[i] = c
    \/ \E t \in Threads : local[t] = c \/ held[t] = c
    \/ Users(c) # {}

\* The number of values of a function is at most the size of its domain.
LEMMA ImageBound ==
  ASSUME NEW S, IsFiniteSet(S), NEW f, DOMAIN f = S, f = [x \in S |-> f[x]]
  PROVE  LET T == {f[x] : x \in S}
         IN  IsFiniteSet(T) /\ Cardinality(T) <= Cardinality(S)
<1> DEFINE T == {f[x] : x \in S}
<1>1. f \in Surjection(S, T)
  BY DEF Surjection
<1> HIDE DEF T
<1>2. IsFiniteSet(T) /\ Cardinality(T) <= Cardinality(S)
  BY <1>1, FS_Surjection
<1> QED
  BY <1>2 DEF T

\* When the pool is empty a thread about to create a chunk holds none, so the
\* others are spread over the threads' two pointers and the buffers.
LEMMA EmptyPoolBound ==
  ASSUME IInv, Referenced, NEW t \in Threads, pc[t] = "Pop", pool = << >>,
         IsFiniteSet(Threads), IsFiniteSet(Buffers)
  PROVE  /\ IsFiniteSet(allocated)
         /\ Cardinality(allocated)
              <= 2 * Cardinality(Threads) + Cardinality(Buffers) - 1
<1> DEFINE Others == Threads \ {t}
           chunkOf == [b \in Buffers |-> buffers[b].chunk]
           heldBy == [u \in Others |-> held[u]]
           L == {local[u] : u \in Threads}
           H == {heldBy[u] : u \in Others}
           B == {chunkOf[b] : b \in Buffers}
<1>1. allocated \subseteq L \cup (H \cup B)
  <2> SUFFICES ASSUME NEW c \in allocated PROVE c \in L \cup (H \cup B)
    OBVIOUS
  <2>1. c # NoChunk
    BY PoolAssumption DEF IInv, TypeOK, ChunksOK
  <2>2. held[t] = NoChunk
    BY DEF IInv, PointersInv
  <2>3. \/ \E u \in Threads : local[u] = c
        \/ \E u \in Others : held[u] = c
        \/ \E b \in Buffers : buffers[b].chunk = c
    BY <2>1, <2>2 DEF Referenced, Users
  <2> QED
    BY <2>3
<1>2. IsFiniteSet(Others) /\ Cardinality(Others) = Cardinality(Threads) - 1
  BY FS_RemoveElement
<1>3. IsFiniteSet(L) /\ Cardinality(L) <= Cardinality(Threads)
  <2>1. DOMAIN local = Threads /\ local = [u \in Threads |-> local[u]]
    BY DEF IInv, TypeOK, RefsOK
  <2> QED
    BY <2>1, ImageBound
<1>4. IsFiniteSet(H) /\ Cardinality(H) <= Cardinality(Others)
  <2>1. DOMAIN heldBy = Others /\ heldBy = [u \in Others |-> heldBy[u]]
    OBVIOUS
  <2> HIDE DEF heldBy, Others
  <2> QED
    BY <2>1, <1>2, ImageBound
<1>5. IsFiniteSet(B) /\ Cardinality(B) <= Cardinality(Buffers)
  <2>1. DOMAIN chunkOf = Buffers /\ chunkOf = [b \in Buffers |-> chunkOf[b]]
    OBVIOUS
  <2> HIDE DEF chunkOf
  <2> QED
    BY <2>1, ImageBound
<1> HIDE DEF L, H, B, Others
<1>6. /\ IsFiniteSet(H \cup B)
      /\ Cardinality(H \cup B) <= Cardinality(H) + Cardinality(B)
  <2>1. Cardinality(H \cap B) \in Nat
    <3>1. H \cap B \in SUBSET H
      OBVIOUS
    <3> QED
      BY <3>1, <1>4, FS_Subset, FS_CardinalityType
  <2>2. {Cardinality(H), Cardinality(B)} \subseteq Nat
    BY <1>4, <1>5, FS_CardinalityType
  <2>3. /\ IsFiniteSet(H \cup B)
        /\ Cardinality(H \cup B)
             = Cardinality(H) + Cardinality(B) - Cardinality(H \cap B)
    BY <1>4, <1>5, FS_Union
  <2> QED
    BY <2>1, <2>2, <2>3
<1>7. /\ IsFiniteSet(L \cup (H \cup B))
      /\ Cardinality(L \cup (H \cup B)) <= Cardinality(L) + Cardinality(H \cup B)
  <2> DEFINE R == H \cup B
  <2>1. IsFiniteSet(R)
    BY <1>6
  <2> HIDE DEF R
  <2>2. Cardinality(L \cap R) \in Nat
    <3>1. L \cap R \in SUBSET L
      OBVIOUS
    <3> QED
      BY <3>1, <1>3, FS_Subset, FS_CardinalityType
  <2>3. {Cardinality(L), Cardinality(R)} \subseteq Nat
    BY <1>3, <2>1, FS_CardinalityType
  <2>4. /\ IsFiniteSet(L \cup R)
        /\ Cardinality(L \cup R)
             = Cardinality(L) + Cardinality(R) - Cardinality(L \cap R)
    BY <1>3, <2>1, FS_Union
  <2>5. Cardinality(L \cup R) <= Cardinality(L) + Cardinality(R)
    BY <2>2, <2>3, <2>4
  <2> QED
    BY <2>4, <2>5 DEF R
<1>8. /\ IsFiniteSet(allocated)
      /\ Cardinality(allocated) <= Cardinality(L \cup (H \cup B))
  BY <1>1, <1>7, FS_Subset
<1>9. /\ {Cardinality(allocated), Cardinality(L), Cardinality(H), Cardinality(B),
          Cardinality(Threads), Cardinality(Buffers), Cardinality(H \cup B),
          Cardinality(L \cup (H \cup B))} \subseteq Nat
  BY <1>3, <1>4, <1>5, <1>6, <1>7, <1>8, FS_CardinalityType
<1> QED
  BY <1>2, <1>3, <1>4, <1>5, <1>6, <1>7, <1>8, <1>9

\* A step gives up a chunk only to the pool.
LEMMA ReferencedPreserved ==
  ASSUME IInv, Referenced, [Next]_vars
  PROVE  Referenced'
<1>0. TypeOK /\ PointersInv /\ RefsOK /\ pool \in Seq(Chunks)
  BY DEF IInv, TypeOK, RefsOK
<1> USE DEF Referenced, Users
<1>1. ASSUME NEW t \in Threads, Open(t) PROVE Referenced'
  BY <1>1 DEF Open
<1>2. ASSUME NEW t \in Threads, Pop(t) PROVE Referenced'
  <2>1. held[t] = NoChunk /\ NoChunk \notin allocated
    BY <1>0, <1>2, PoolAssumption DEF Pop, Step, PointersInv, TypeOK, ChunksOK
  <2>2. CASE pool = << >>
    BY <1>0, <1>2, <2>1, <2>2 DEF Pop, RefsOK
  <2>3. CASE pool # << >>
    <3>1. Len(pool) \in Nat \ {0} /\ DOMAIN pool = 1 .. Len(pool)
      BY <1>0, <2>3
    <3>2. /\ Len(pool') = Len(pool) - 1 /\ pool' \in Seq(Chunks)
          /\ \A i \in 1 .. Len(pool) - 1 : pool'[i] = pool[i]
      <4>1. pool' = SubSeq(pool, 1, Len(pool) - 1)
        BY <1>2, <2>3 DEF Pop
      <4>2. Len(pool) - 1 \in Nat /\ Len(pool) - 1 <= Len(pool)
        BY <3>1
      <4> HIDE DEF Referenced, Users
      <4> QED
        BY <1>0, <4>1, <4>2, FrontProperties
    <3>3. \A i \in DOMAIN pool :
            (i \in DOMAIN pool' /\ pool'[i] = pool[i]) \/ i = Len(pool)
      BY <3>1, <3>2
    <3>4. held' = [held EXCEPT ![t] = pool[Len(pool)]]
      BY <1>2, <2>3 DEF Pop
    <3>5. held'[t] = pool[Len(pool)] /\ \A u \in Threads \ {t} : held'[u] = held[u]
      BY <1>0, <3>4 DEF RefsOK
    <3>6. UNCHANGED <<allocated, local, buffers>>
      BY <1>2, <2>3 DEF Pop
    <3> QED
      BY <2>1, <3>3, <3>5, <3>6
  <2> QED
    BY <2>2, <2>3
<1>3. ASSUME NEW t \in Threads, Replace(t) PROVE Referenced'
  BY <1>0, <1>3, PoolAssumption DEF Replace, RefsOK, TypeOK, ChunksOK
<1>4. ASSUME NEW t \in Threads, PushGlobal(t) PROVE Referenced'
  <2>1. held[t] \in Chunks
    BY <1>0, <1>4 DEF PushGlobal, Step, PointersInv, RefsOK
  <2>2. /\ \A i \in DOMAIN pool : i \in DOMAIN pool' /\ pool'[i] = pool[i]
        /\ \E i \in DOMAIN pool' : pool'[i] = held[t]
    <3>1. pool' = Append(pool, held[t]) /\ Len(pool) \in Nat
      BY <1>0, <1>4 DEF PushGlobal
    <3>2. /\ DOMAIN pool = 1 .. Len(pool) /\ DOMAIN pool' = 1 .. Len(pool) + 1
          /\ \A i \in 1 .. Len(pool) : pool'[i] = pool[i]
          /\ pool'[Len(pool) + 1] = held[t]
      BY <1>0, <2>1, <3>1
    <3> QED
      BY <3>1, <3>2
  <2>3. /\ \A u \in Threads \ {t} : held'[u] = held[u]
        /\ UNCHANGED <<allocated, local, buffers>>
    BY <1>0, <1>4 DEF PushGlobal, RefsOK
  <2> QED
    BY <2>2, <2>3
<1>5. ASSUME NEW t \in Threads, Serialize(t) PROVE Referenced'
  <2>1. UNCHANGED <<allocated, pool, local, held>>
    BY <1>5 DEF Serialize
  <2>2. \A b \in Buffers : buffers[b] # NoBuffer => buffers'[b] = buffers[b]
    BY <1>0, <1>5 DEF Serialize, NewSendBuffer, RefsOK
  <2> QED
    BY <2>1, <2>2
<1>6. ASSUME NEW t \in Threads, Release(t) PROVE Referenced'
  <2>1. PICK b \in Buffers : /\ buffers[b] # NoBuffer
                             /\ buffers' = [buffers EXCEPT ![b] = NoBuffer]
                             /\ \/ held' = [held EXCEPT ![t] = buffers[b].chunk]
                                \/ /\ held' = [held EXCEPT ![t] = NoChunk]
                                   /\ \/ Users(buffers[b].chunk) # {b}
                                      \/ \E u \in Threads : local[u] = buffers[b].chunk
    BY <1>6 DEF Release
  <2>2. UNCHANGED <<allocated, pool, local>> /\ held[t] = NoChunk
    BY <1>0, <1>6 DEF Release, Step, PointersInv
  <2>3. NoChunk \notin allocated
    BY <1>0, PoolAssumption DEF TypeOK, ChunksOK
  <2>4. \A a \in Buffers \ {b} : buffers'[a] = buffers[a]
    BY <1>0, <2>1 DEF RefsOK
  <2>5. \A u \in Threads : held[u] # NoChunk => held'[u] = held[u]
    BY <1>0, <2>1, <2>2 DEF RefsOK
  <2>6. \/ held'[t] = buffers[b].chunk
        \/ Users(buffers[b].chunk) # {b}
        \/ \E u \in Threads : local[u] = buffers[b].chunk
    BY <1>0, <2>1 DEF RefsOK
  <2>7. b \in Users(buffers[b].chunk)
    BY <2>1
  <2> QED
    BY <2>2, <2>3, <2>4, <2>5, <2>6, <2>7
<1>7. CASE UNCHANGED vars
  BY <1>7 DEF vars
<1> QED
  BY <1>1, <1>2, <1>3, <1>4, <1>5, <1>6, <1>7 DEF Next

\* However packets are sent and buffers dropped, a chunk is created only when
\* every other is in use: the pool's size is bounded by what is in use at a
\* time (SendBufferManager.cpp:34-46).
THEOREM ChunksAreReused ==
  ASSUME IsFiniteSet(Threads), IsFiniteSet(Buffers)
  PROVE  Spec => []NoChunkLost
<1> DEFINE Bound == IsFiniteSet(allocated) /\ NoChunkLost
<1>1. Init => Referenced /\ Bound
  BY FS_EmptySet, FS_CardinalityType DEF Init, Referenced, NoChunkLost
<1>2. IInv /\ Referenced /\ Bound /\ [Next]_vars => Referenced' /\ Bound'
  <2> SUFFICES ASSUME IInv, Referenced, Bound, [Next]_vars
               PROVE  Referenced' /\ Bound'
    OBVIOUS
  <2>1. CASE UNCHANGED allocated
    BY <2>1, ReferencedPreserved DEF NoChunkLost
  <2>2. ASSUME NEW t \in Threads, Pop(t), pool = << >> PROVE Bound'
    <3>1. pc[t] = "Pop" /\ allocated' = allocated \cup {NewChunk}
      BY <2>2 DEF Pop, Step
    <3>2. Cardinality(allocated)
            <= 2 * Cardinality(Threads) + Cardinality(Buffers) - 1
      BY <2>2, <3>1, EmptyPoolBound
    <3>3. /\ IsFiniteSet(allocated')
          /\ Cardinality(allocated') <= Cardinality(allocated) + 1
      BY <3>1, FS_AddElement, FS_CardinalityType
    <3>4. {Cardinality(allocated), Cardinality(allocated'), Cardinality(Threads),
           Cardinality(Buffers)} \subseteq Nat
      BY <3>3, FS_CardinalityType
    <3>5. Cardinality(allocated')
            <= 2 * Cardinality(Threads) + Cardinality(Buffers)
      BY <3>2, <3>3, <3>4
    <3> QED
      BY <3>3, <3>5 DEF NoChunkLost
  <2>3. \/ UNCHANGED allocated
        \/ \E t \in Threads : Pop(t) /\ pool = << >>
    BY DEF Next, Open, Pop, Replace, PushGlobal, Serialize, Release, vars
  <2> QED
    BY <2>1, <2>2, <2>3, ReferencedPreserved
<1>3. Bound => NoChunkLost
  OBVIOUS
<1> QED
  BY <1>1, <1>2, <1>3, Invariance, PTL DEF Spec
=============================================================================
