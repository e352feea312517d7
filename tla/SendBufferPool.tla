--------------------------- MODULE SendBufferPool ---------------------------
(***************************************************************************)
(* The memory packets are sent from: each thread carves SendBuffers out of *)
(* a chunk of its own, and a chunk whose last shared_ptr goes is pushed    *)
(* back to a pool all threads share instead of being freed                 *)
(* (ServerCore/SendBufferManager.cpp, SendBufferChunk.cpp, SendBuffer.cpp, *)
(* PacketHandler.h).                                                       *)
(*                                                                         *)
(* A chunk's fields are used by one thread at a time, so what a thread     *)
(* does to its own chunk is one step; the pool's two locked sections and   *)
(* each reference that is dropped are steps of their own.                  *)
(***************************************************************************)
EXTENDS Integers, Sequences, FiniteSets

CONSTANTS
  Threads,
  Chunks, NoChunk,      \* chunks there is memory for
  Buffers, NoBuffer,    \* bound: SendBuffers alive at a time
  ChunkSize,            \* SendBufferChunk::BUFFER_SIZE
  Reserve,              \* what MakeSendBuffer asks for, 4096
  HeaderSize,           \* sizeof(PacketHeader)
  UInt16,               \* 2^16, where uint16 wraps
  Payloads              \* the values of ByteSizeLong of the packets sent

ASSUME PoolAssumption ==
  /\ NoChunk \notin Chunks
  /\ ChunkSize \in Nat /\ Reserve \in 1 .. ChunkSize
  /\ HeaderSize \in Nat \ {0} /\ UInt16 \in Nat \ {0}
  /\ Payloads \subseteq Nat
  /\ NoBuffer \notin [chunk : Chunks, start : Nat, size : Nat]

VARIABLES
  open, usedSize,  \* members of each chunk
  allocated,       \* the chunks created so far
  pool,            \* SendBufferManager::sendBufferChunks
  local,           \* localSendBufferChunk of each thread
  held,            \* the chunk a thread has popped or is about to push
  buffers,         \* the SendBuffers a shared_ptr points to
  pc

chunkVars == <<open, usedSize>>
vars == <<chunkVars, allocated, pool, local, held, buffers, pc>>

Labels == {"idle", "Pop", "Replace", "Recycle", "Serialize", "Return", "crashed"}

Init ==
  /\ open = [c \in Chunks |-> FALSE] /\ usedSize = [c \in Chunks |-> 0]
  /\ allocated = {} /\ pool = << >>
  /\ local = [t \in Threads |-> NoChunk] /\ held = [t \in Threads |-> NoChunk]
  /\ buffers = [b \in Buffers |-> NoBuffer]
  /\ pc = [t \in Threads |-> "idle"]

Step(t, from, to) == pc[t] = from /\ pc' = [pc EXCEPT ![t] = to]

FreeSize(c) == ChunkSize - usedSize[c]

\* The SendBuffers that keep chunk c alive.
Users(c) == {b \in Buffers : buffers[b] # NoBuffer /\ buffers[b].chunk = c}

-----------------------------------------------------------------------------
\* SendBufferManager::Open decides whether the thread's chunk will do.  If the
\* chunk is still open it returns nullptr, which MakeSendBuffer dereferences.
Open(t) ==
  /\ \E b \in Buffers : buffers[b] = NoBuffer
  /\ Step(t, "idle",
          IF local[t] = NoChunk THEN "Pop"
          ELSE IF open[local[t]] THEN "crashed"
          ELSE IF FreeSize(local[t]) < Reserve THEN "Pop" ELSE "Serialize")
  /\ UNCHANGED <<chunkVars, allocated, pool, local, held, buffers>>

\* new SendBufferChunk: which memory it gets does not matter.
NewChunk == CHOOSE c \in Chunks : c \notin allocated

\* Mutant: back() without pop_back().
PopKeeps(t) ==
  /\ Step(t, "Pop", "Replace")
  /\ IF pool # << >>
     THEN held' = [held EXCEPT ![t] = pool[Len(pool)]] /\ UNCHANGED allocated
     ELSE /\ Chunks \ allocated # {}
          /\ held' = [held EXCEPT ![t] = NewChunk]
          /\ allocated' = allocated \cup {NewChunk}
  /\ UNCHANGED <<chunkVars, pool, local, buffers>>

\* The pool's last chunk, or a new one.
Pop(t) ==
  /\ Step(t, "Pop", "Replace")
  /\ IF pool # << >>
     THEN /\ held' = [held EXCEPT ![t] = pool[Len(pool)]]
          /\ pool' = SubSeq(pool, 1, Len(pool) - 1)
          /\ UNCHANGED allocated
     ELSE /\ Chunks \ allocated # {}
          /\ held' = [held EXCEPT ![t] = NewChunk]
          /\ allocated' = allocated \cup {NewChunk}
          /\ UNCHANGED pool
  /\ UNCHANGED <<chunkVars, local, buffers>>

\* SendBufferChunk::Init.
InitChunk(c) ==
  /\ open' = [open EXCEPT ![c] = FALSE]
  /\ usedSize' = [usedSize EXCEPT ![c] = 0]

\* Mutant: the old chunk goes back to the pool whoever still uses it.
ReplaceRecycles(t) ==
  /\ Step(t, "Replace", IF local[t] = NoChunk THEN "Serialize" ELSE "Recycle")
  /\ local' = [local EXCEPT ![t] = held[t]]
  /\ held' = [held EXCEPT ![t] = local[t]]
  /\ InitChunk(held[t])
  /\ UNCHANGED <<allocated, pool, buffers>>

\* Open assigns the popped chunk to localSendBufferChunk and calls Init.  The
\* assignment drops the old chunk: the last reference runs PushGlobal.
Replace(t) ==
  LET old == local[t]
      last == old # NoChunk /\ Users(old) = {}
  IN  /\ Step(t, "Replace", IF last THEN "Recycle" ELSE "Serialize")
      /\ local' = [local EXCEPT ![t] = held[t]]
      /\ held' = [held EXCEPT ![t] = IF last THEN old ELSE NoChunk]
      /\ InitChunk(held[t])
      /\ UNCHANGED <<allocated, pool, buffers>>

\* Mutant: the pointer is cleared before it is pushed.
PushGlobalCleared(t) ==
  /\ Step(t, "Recycle", "Serialize") \/ Step(t, "Return", "idle")
  /\ held' = [held EXCEPT ![t] = NoChunk]
  /\ pool' = Append(pool, held'[t])
  /\ UNCHANGED <<chunkVars, allocated, local, buffers>>

\* PushGlobal, the deleter of a chunk: from Open's assignment, or from the
\* release of a SendBuffer.
PushGlobal(t) ==
  /\ Step(t, "Recycle", "Serialize") \/ Step(t, "Return", "idle")
  /\ pool' = Append(pool, held[t])
  /\ held' = [held EXCEPT ![t] = NoChunk]
  /\ UNCHANGED <<chunkVars, allocated, local, buffers>>

-----------------------------------------------------------------------------
\* What MakeSendBuffer computes in uint16.
DataSize(n) == n % UInt16
PacketSize(n) == (DataSize(n) + HeaderSize) % UInt16

\* SendBufferChunk::Open without a matching Close.
StayOpen(c) == open' = [open EXCEPT ![c] = TRUE] /\ UNCHANGED usedSize

\* SendBufferChunk::Open and Close: the bytes are counted.
OpenAndClose(c, size) ==
  usedSize' = [usedSize EXCEPT ![c] = @ + size] /\ UNCHANGED open

\* The SendBuffer that Open makes and Close gives its size.
NewSendBuffer(c, size) ==
  \E b \in Buffers :
    /\ buffers[b] = NoBuffer
    /\ buffers' = [buffers EXCEPT ![b] =
                     [chunk |-> c, start |-> usedSize[c], size |-> size]]

\* Mutant: SendBuffer::Close closes the chunk without counting the bytes.
SerializeUncounted(t) ==
  /\ Step(t, "Serialize", "idle")
  /\ \E n \in Payloads :
       PacketSize(n) <= Reserve /\ NewSendBuffer(local[t], PacketSize(n))
  /\ UNCHANGED <<chunkVars, allocated, pool, local, held>>

\* MakeSendBuffer from Chunk::Open to Close.  A payload that does not fit in
\* uint16 is not serialised and the buffer is closed empty; a packet larger
\* than the reservation is written, but Close refuses it and the chunk stays
\* open.  Both return nullptr.
Serialize(t) ==
  LET c == local[t]
  IN  /\ Step(t, "Serialize", "idle")
      /\ \E n \in Payloads :
           \/ /\ DataSize(n) # n
              /\ UNCHANGED <<chunkVars, buffers>>
           \/ /\ DataSize(n) = n /\ PacketSize(n) > Reserve
              /\ StayOpen(c) /\ UNCHANGED buffers
           \/ /\ DataSize(n) = n /\ PacketSize(n) <= Reserve
              /\ OpenAndClose(c, PacketSize(n))
              /\ NewSendBuffer(c, PacketSize(n))
      /\ UNCHANGED <<allocated, pool, local, held>>

\* Mutant: the chunk is deleted, not pushed, when its last SendBuffer goes.
ReleaseLeaks(t) ==
  /\ pc[t] = "idle"
  /\ \E b \in Buffers :
       buffers[b] # NoBuffer /\ buffers' = [buffers EXCEPT ![b] = NoBuffer]
  /\ UNCHANGED <<chunkVars, allocated, pool, local, held, pc>>

\* The last shared_ptr to a SendBuffer goes, in whichever thread clears
\* sendEvent.sendBuffers; with it goes a reference to the chunk.
Release(t) ==
  \E b \in Buffers :
    LET c == buffers[b].chunk
        last == Users(c) = {b} /\ \A u \in Threads : local[u] # c
    IN  /\ buffers[b] # NoBuffer
        /\ buffers' = [buffers EXCEPT ![b] = NoBuffer]
        /\ Step(t, "idle", IF last THEN "Return" ELSE "idle")
        /\ held' = [held EXCEPT ![t] = IF last THEN c ELSE NoChunk]
        /\ UNCHANGED <<chunkVars, allocated, pool, local>>

Crashed == \E t \in Threads : pc[t] = "crashed"

Next ==
  \/ /\ ~Crashed
     /\ \E t \in Threads :
          \/ Open(t) \/ Pop(t) \/ Replace(t) \/ PushGlobal(t)
          \/ Serialize(t) \/ Release(t)
  \/ Crashed /\ UNCHANGED vars

Spec == Init /\ [][Next]_vars
-----------------------------------------------------------------------------
ChunksOK ==
  /\ open \in [Chunks -> BOOLEAN] /\ usedSize \in [Chunks -> Nat]
  /\ allocated \subseteq Chunks

RefsOK ==
  /\ pool \in Seq(Chunks)
  /\ local \in [Threads -> Chunks \cup {NoChunk}]
  /\ held \in [Threads -> Chunks \cup {NoChunk}]
  /\ buffers \in [Buffers -> [chunk : Chunks, start : Nat, size : Nat]
                               \cup {NoBuffer}]
  /\ pc \in [Threads -> Labels]

\* Every variable has its type.
TypeOK == ChunksOK /\ RefsOK

Live == {b \in Buffers : buffers[b] # NoBuffer}

\* No packet waiting to be sent is ever written over: the packets of a chunk
\* do not overlap, lie inside it, and the next one starts above them all
\* (SendBufferChunk.cpp:14-48, SendBufferManager.cpp:17-21).
PacketsIntact ==
  /\ \A c \in Chunks : usedSize[c] <= ChunkSize
  /\ \A b \in Live :
       buffers[b].start + buffers[b].size <= usedSize[buffers[b].chunk]
  /\ \A a, b \in Live :
       a # b /\ buffers[a].chunk = buffers[b].chunk =>
         \/ buffers[a].start + buffers[a].size <= buffers[b].start
         \/ buffers[b].start + buffers[b].size <= buffers[a].start
  /\ \A t \in Threads :
       pc[t] = "Serialize" => FreeSize(local[t]) >= Reserve

\* A chunk in the pool is there once and nobody refers to it: nobody can pop
\* a chunk that is in use (SendBufferManager.cpp:29-61).
PoolUnreferenced ==
  \A i \in DOMAIN pool :
    /\ \A j \in DOMAIN pool : pool[i] = pool[j] => i = j
    /\ Users(pool[i]) = {}
    /\ \A t \in Threads : local[t] # pool[i] /\ held[t] # pool[i]

\* A chunk's unlocked fields are used by one thread, as the comment at
\* SendBufferChunk.cpp:7-8 relies on.
ThreadConfined ==
  \A t, u \in Threads :
    /\ local[t] = local[u] /\ local[t] # NoChunk => t = u
    /\ local[t] = held[u] => local[t] = NoChunk
    /\ held[t] = held[u] /\ held[t] # NoChunk => t = u

\* A chunk is refused, and nullptr returned, only while it is in use, as the
\* comments at SendBufferChunk.cpp:19 and 26 have it: a thread that makes one
\* packet after the other never gets nullptr from SendBufferManager::Open, and
\* MakeSendBuffer need not test for it (PacketHandler.h:33-34).
NeverNull == ~Crashed

\* A chunk is created only when every other is in use: the pool loses none
\* (SendBufferManager.cpp:34-46).
NoChunkLost ==
  Cardinality(allocated) <= 2 * Cardinality(Threads) + Cardinality(Buffers)
=============================================================================
