# A TLA+ model of ServerTutorial

ServerTutorial is a game-server tutorial in C++: an I/O completion port (IOCP) networking core
(`src/ServerCore`), a server (`src/GameServer`) and a client (`src/GameClient`) that exchange
length-prefixed protobuf packets. This directory holds a TLA+ model of the core, the TLC runs
that check it on small instances and TLAPS proofs for instances of every size. The repository has
no tests; its comments are the only statement of intent, so the properties come from what the code
relies on and from those comments.

## 1. Inventory

| Component (files) | State | Operations | Must hold |
|---|---|---|---|
| `Session` | `isConnected`, `sendRegistered`, `sendQueue`, `rwLock`, four overlapped events each with a `shared_ptr` (`iocpObj`) that keeps the session alive, `sendEvent.sendBuffers` | `Connect`, `Send`, `Disconnect`, `Register*`, `Process*` | one owner of each event; a completion finds its session; no queued message is forgotten; messages leave in order, once; one cleanup per session |
| `IocpCore`, `IocpEvent`, `IocpObj` | the port's queue | `ObserveIO`, `Register` | a failed operation and a successful one reach the right handler |
| `Listener` | three `AcceptEvent`s, each with its next session | `StartAccept`, `RegisterAccept`, `ProcessAccept` | an accept slot is armed or on its way to be, whatever fails; a socket accepts one client; clients are accepted |
| `Service`, `ServerService`, `ClientService` | `sessions`, `sessionCount`, its `rwLock` | `CreateSession`, `AddSession`, `RemoveSession`, `Start` | the count is the size of the set; whoever removes a session finds it |
| `SessionManager` | `sessions`, its `rwLock` | `Add`, `Remove`, `Broadcast` | agrees with the service; never locks itself; the set stands still under `Broadcast` |
| `RecvBuffer` | bytes, `readPos`, `writePos` | `OnWrite`, `OnRead`, `Clear` | unread bytes survive in order |
| `PacketSession` | none | `OnRecv` | each packet passed on once, whole, in order |
| `SendBuffer`, `SendBufferChunk`, `SendBufferManager` | chunks with `open`, `usedSize`; a chunk per thread; a shared pool | `Open`, `Close`, `Pop`, `PushGlobal`, and the `shared_ptr` releases that trigger it | a packet waiting to be sent is never overwritten; no chunk is in two hands |
| `PacketHandler`, `ClientPacketHandler`, `ServerPacketHandler` | handler table | `MakeSendBuffer`, `HandlePacket` | sizes agree with what is written |
| `ClientSession`, `ServerSession` | none | `OnConnected`, `OnRecvPacket`, `OnDisconnected` | |
| `GameServer`, `GameClient` | threads | five (one) workers looping in `ObserveIO` | |
| `SocketHelper` | three function pointers | wrappers of WinSock | |

**How they interact.** `Listener::ProcessAccept` (server) or the CONNECT completion (client) calls
`Session::ProcessConnect`, which enters the session in the service, calls `OnConnected` (server: enter
the `SessionManager`; client: send C_LOGIN) and posts the first receive. A RECV completion appends to
`RecvBuffer`, `PacketSession::OnRecv` cuts it into packets, a handler answers with `Send`, and the receive
is posted again. `Send` takes its `SendBuffer` from the calling thread's chunk, queues it and, if no send
is registered, posts one; the SEND completion releases the buffers (and perhaps recycles their chunk, in
whatever thread that is) and posts the next batch. `Disconnect` posts DISCONNECT, whose completion
removes the session from both registries.

**What is hard.** All workers take completions of all sessions: a send and a receive completion of one
session run at once, `Send` races `ProcessSend`, two completions of a dead connection both disconnect.
The only lock is taken for some uses of the queue and not for others. Lifetime is by reference counts
held in events and chunks. Receives end anywhere in the byte stream. `PROJECT.json` lists the hazards
at their lines, with the properties that would catch them.

## 2. Modules

    Outbox               abstract: a lossy FIFO of messages     <- Session!OutboxSpec
    SessionLife          abstract: the stages of a session      <- Session!LifeSpec, AcceptPool!LifeSpec
    Session              one session, its threads, the kernel, the registries
    SessionProofs        the invariants of Session
    SessionRefinements   Session implements SessionLife; its cleanup and its locks
    OutboxProofs         Session implements Outbox
    DeliveryProofs       the order and the completeness of what a session sends
    AcceptPool           the listener, the service, the session manager, main: many sessions
    AcceptPoolProofs
    SendBufferPool       chunks, the pool, the SendBuffers
    SendBufferPoolProofs
    PacketChannel        abstract: each packet once, in order   <- PacketStream!ChannelSpec
    PacketStream         the byte stream, RecvBuffer, PacketSession
    PacketStreamProofs
    MC*                  the same modules with symmetry sets and stream contents for TLC

### Session (`Session.tla`)

A step of a thread is one access to state that another thread can see; what touches only the thread's
own state is merged into it. `pc[t]` is where the thread is; `sendRet` and `discRet` are the return
addresses of `Send` and `Disconnect`, the two functions with several callers. Correspondence:

| Code | Action |
|---|---|
| `IocpCore::ObserveIO`, `Session::ObserveIO` | `ObserveConnect`, `ObserveRecv`, `ObserveSend`, `ObserveDisconnect` |
| `Listener::ProcessAccept` / `ClientService::Start` | `ProcessAccept` / `RegisterConnect` |
| `ProcessConnect` | `ProcessConnect`, `AddSession`, `OnConnected`, then `RegisterRecv` |
| `RegisterRecv` | `RegisterRecv` (test, hold), `WSARecv` (post), `RecvError` |
| `ProcessRecv` | `ProcessRecv`, `OnRecv` (one step per packet answered) |
| `Send` | `Send` (test), `Push` (locked section), then `RegisterSend` |
| `RegisterSend` | `RegisterSend` (test, hold), `Drain` (one round of the loop), `WSASend`, `SendError` |
| `ProcessSend` | `ProcessSend`, `OnSend` (locked section, the lock kept through `RegisterSend`) |
| `Disconnect`, `RegisterDisconnect` | `Disconnect`, `DisconnectExError` |
| `ProcessDisconnect` | `ProcessDisconnect`, `OnDisconnected`, `RemoveSession` |
| `SessionManager::Broadcast` | `Broadcast`, `EndBroadcast` |
| WinSock, the peer (external) | `Post`, `PostResults`, `PeerClose`, `link` |

Choices worth knowing:

* The push on `sendQueue` against a pop without the lock is undefined behaviour; `PushOutcomes` lets the
  queue's size lose either update, and a pop of the resulting `Ghost` element crashes.
* `ConnectEx` and `DisconnectEx` are tested with the sense inverted in the code. `ExResults` says how they may
  return: "pending" (FALSE and IO_PENDING), "failed" (FALSE and another error), "done" (TRUE; the last
  error is then stale and may be anything: for ConnectEx, IO_PENDING leaves the operation under way and anything else makes
  `RegisterConnect` return false).
* `RegisterConnect` returns false when it finds the session connected, or SetReuseAddress or BindAny fails: `main` of the client then ends, no event being touched.
  Which of them it was makes no difference, so they are one outcome of the action, and so is the TRUE with a stale error.
* `Disconnect` is one step with the DisconnectEx it posts. Between its exchange and the posting another thread can only see
  `isConnected` false, and every test of that flag comes out the same before and after the posting.
* A null `iocpObj` is dereferenced by `ObserveIO`: the thread goes to "crashed" and the process stops.
* WSASend and WSARecv succeed or stay pending, report a reset once the link is closed, or fail otherwise at
  any time; the last is printed only, and `ioErrorLogged` records it.
* What `OnRecv` does with the bytes is a choice here (answer a packet, accept, refuse, or never return: the loop of
  `PacketSession::OnRecv` does not end for a size of 0 or a packet that is not complete); PacketStream is
  the detail. `ProcessRecv`'s write overflow is such a choice as well.
* `Release` of the session's memory, the socket handle and the OVERLAPPED fields are not represented.

### AcceptPool (`AcceptPool.tla`)

The server around its sessions. `Main` arms the accept events and then starts the workers; a worker is inside one handler
at a time and `event[t]`, `session[t]` are that handler's locals. Sessions are numbered as `CreateSession` makes them.

| Code | Action |
|---|---|
| loop of `Listener::StartAccept`, then `main` | `StartAccept(e)`, `StartWorkers` |
| `Listener::RegisterAccept`, `Service::CreateSession` | `RegisterAccept` (one try; the recursion is the next try of the same thread) |
| `Listener::ProcessAccept` | `ProcessAccept`, then `ProcessConnect`, `AddSession`, `OnConnected`, `RegisterRecv`, `RegisterAccept`; on failure straight to `RegisterAccept` |
| `ProcessRecv`, `ProcessSend` that disconnect | `ProcessRecv`, `ProcessSend` |
| `ProcessDisconnect` | `ProcessDisconnect`, `OnDisconnected` (`SessionManager::Remove`), `RemoveSession` |
| `SessionManager::Broadcast` | `Broadcast`, `SendNext` (one turn of the loop), `EndBroadcast` |
| clients (external) | `Knock` |

`CreateSession` returning nullptr is dereferenced at `Listener.cpp:74`: the outcome "crashed". An `AcceptEx` that fails at once and a
`ProcessAccept` whose checks fail are choices, counted in `fails`. Of a session the module keeps what the listener, the service and the manager
see: whether it is connected, listed, has a receive or a disconnect outstanding. `ProcessRecv` may also leave its worker in `OnRecv` for ever. **Composition.** That abstraction is not taken for granted:
`SessionLife` states the order in which a session is connected, listed, opened, disconnected, taken off the manager and off the service, each
once. `Session`, with all its threads and completions, implements `SessionLife` (proved), and in `AcceptPool` every one of
the sessions does (proved as well), so the two levels agree on what a session does to the registries.

### SendBufferPool (`SendBufferPool.tla`)

Any number of threads open chunks, serialise packets and release SendBuffers. A chunk's own fields belong
to its thread, so `Serialize` (`MakeSendBuffer` after `SendBufferManager::Open`) is one step; the two locked
sections (`Pop`, `PushGlobal`) and each dropped reference (`Replace`, `Release`) are steps of their own,
with the chunk in flight in `held`. The reference count of a chunk is not a variable: it is what points to it
(`Users`, `local`, `held`, `pool`). `uint16` arithmetic wraps at `UInt16`. `Open` on a chunk left open returns
nullptr and `MakeSendBuffer` writes through it: "crashed".

### PacketStream (`PacketStream.tla`)

Bytes are numbered as the peer sends them and a place of the buffer holds the number of the byte last
written there, so order, loss, repetition and staleness are all visible. `OnRecv` is one round of the loop
of `PacketSession::OnRecv`: the header's size is the packet's size if the header's bytes are there and a
member of `GarbageSizes` if they are not, and the comparison of an `int` with a `size_t` is what it compiles to
(`LessThanHeader`). Outside the buffer the loop never comes back (`lost`). `split` remembers that some receive ended inside
a packet: it is the condition under which the parser may go wrong, so the properties can say that it is the only one. `Clear`'s `memcpy` of an overlap
behaves as `memmove`, as the Visual C++ runtime implements it. A receive of zero bytes (no space) closes.

## 3. Runs

| Run | Instance | Shows |
|---|---|---|
| `session_broadcast` | 3 threads, 3 messages, broadcaster, DisconnectEx pending or failing | `TypeOK`, `SendExclusive`, `RecvExclusive`, `EventHoldsSession`, `InFlightRetained`, `RegistryConsistent`, `LockOrder`, `LifeSpec` |
| `session_server` | 3 threads, 3 messages, no broadcaster, every DisconnectEx result | `NoQueueRace`, `NoLostWakeup`, `NothingLost`, `RecvArmed`, `OutboxSpec` |
| `session_client` | 1 thread, client, ConnectEx pending or failing | `EventHoldsSession`, `RegistryConsistent`, `LifeSpec` |
| `session_live` | 2 threads, 3 messages, fair, DisconnectEx pending | `EveryMessageSettles`, `DisconnectReleases` |
| `session_flag` | 2 threads | **violated**: `FlagTellsRegistered` |
| `session_cleanup` | 2 threads, fair, DisconnectEx may fail | **violated**: `DisconnectReleases` |
| `pool_recycle` | 2 threads, 2 SendBuffers, 7 chunks of 3, packets within and beyond the reservation and past uint16 | `TypeOK`, `PacketsIntact`, `PoolUnreferenced`, `ThreadConfined`, `NoChunkLost` |
| `pool_refused` | the same with 6 chunks | **violated**: `NeverNull` |
| `accept_pool` | main and 2 workers, 2 accept events, 2 clients, 2 failures, 1 broadcast, fair | `TypeOK`, `AcceptsKept`, `AcceptsFresh`, `SocketsBounded`, `ListsAgree`, `BroadcastReachesAll`, `PoolRefills`, `ClientsAccepted`, `LifeSpec` |
| `stream_whole` | 6 packets, buffer of 8, receives end at packets' ends | `DispatchesWhole`, `ChannelSpec` |
| `stream_split` | 6 packets, buffer of 9, receives end anywhere | `TypeOK`, `UnreadAreLast`, `TornBySplit`, `LoopEnds`, `RoomUnlessUnread`, `ClosedOnlyFull` |
| `stream_torn` | 4 packets, buffer of 6, receives end anywhere | **violated**: `DispatchesWhole` |

**Bounds.** Three threads are the receive owner, the send owner and a third that broadcasts or takes the
disconnect; two are enough where nobody broadcasts. Three messages are a batch in flight, one queued behind
it and one that races. The server runs five threads, and the client one, as its run does. The pool's sizes are scaled: a chunk of 3 with reservations of 2 holds one or two
packets, so chunks are refilled, recycled and reset with packets of the former owner still live. `pool_recycle` has one chunk more than `NoChunkLost` allows, so that
memory never runs out before the property fails. `UInt16 = 4` makes a payload of 2 too large for the reservation, one of 3 wrap the
packet size and one of 5 wrap the data size. The stream's buffer is 4 x 2, 3 x 3 or 3 x 2
with packets of 2 (a bare header) to 4 bytes, so that it fills exactly, wraps its positions back and compacts
with overlap; in `stream_split` all of the ends are reached, the full buffer that is taken for a close and the loop that leaves the buffer included. `Window` bounds the bytes under way as TCP does.
In `accept_pool` two events are the smallest pool with another slot to confuse, and two failures let one accept fail twice
running, or both slots once; two clients give an open session while another is opened or closed under the one broadcast.
With two clients a worker can be lost in `OnRecv` while another client waits; that both are lost while a third waits lies outside these bounds (a third client
takes the run past reasonable time), and is the case `WorkersLost` excludes. `MaxClients`, `MaxFails`
and `MaxBroadcasts` bound the environment and nothing the program keeps.
Threads and SendBuffers are interchangeable, which the symmetry sets use in runs with no liveness property.

**Deadlock** is checked in the Session, AcceptPool and pool runs: a state where every worker waits with nothing
outstanding, or the process died, is an explicit stutter (`Halted`, `Crashed`), so a deadlock would be
threads waiting for each other's locks. The PacketStream runs switch it off: the peer stops after `Total` packets.

**Fairness.** Workers loop for ever in `ObserveIO` (`GameServer.cpp:32-39`), so a thread inside a handler
keeps running (`WF` per thread), except in `OnRecv`: nothing makes its loop end, and a thread in it may stay there for ever. (Where such a loop
faults on memory it should not read the process ends, and with it every promise.) Completions leave the port in the order they were queued, so one cannot be
passed over for ever although other completions keep coming, as long as workers come back for them: `SF`, for each kind of completion, which asks nothing once every worker is lost in `OnRecv`.
ConnectEx and DisconnectEx, once under way, are assumed to complete. Receives and sends are not: on an open link the peer may
send nothing and read nothing, and the code sets no timeout, so theirs complete only once the link is closed. That is enough for `DisconnectReleases`, whatever the peer does and with one of the two workers lost;
with a single worker it fails, which is what `Threads` of two is for. `EveryMessageSettles` needs more and says so: its premise `PeerReads` is that posted sends complete.
In `AcceptPool` main goes on until the workers run, a thread inside a handler keeps running (again not in `OnRecv`), and a client in the listen queue completes an
armed accept that some idle worker takes (`WF` of each); clients, receives, disconnects and broadcasts need not come. `PoolRefills` and `ClientsAccepted` hold
for as long as `AcceptEx` does not fail for ever (`MaxFails`) and `CreateSession` has not returned nullptr (`Crashed`), `ClientsAccepted` also only while a worker is left that
OnRecv has not kept (`WorkersLost`). In `PacketStream` the one thread runs on (`WF`), and that its loop ends is the property `LoopEnds`, not an assumption.

**Findings.** Each is a run that TLC ends with a counterexample.

1. `session_flag`: `Session.h:30` says `sendRegistered` tells whether a send is registered. `RegisterSend`
   returns at `Session.cpp:95` with the flag set when the session was disconnected after `Send` tested it.
   While the session stays connected the flag is right (part of `QueueInv`, proved), so no message of a live session
   is lost by it.
2. `session_cleanup`: `RegisterDisconnect` takes DisconnectEx's FALSE with a real error for a registered
   operation (`Session.cpp:176`; compare `Listener.cpp:74`). The cleanup moved to `ProcessDisconnect`
   (`Session.cpp:53-54`, `286`) then never happens and the session stays in both registries.
3. `stream_torn`: `OnRecv` does not compare `header.size` with what has arrived (`PacketSession.cpp:17-26`), so a packet split
   across two receives is dispatched before it is complete, and the loop runs on past the data. `TornBySplit` and `LoopEnds` say that nothing else
   brings either about. The zero-byte receive of a full buffer (`Session.cpp:151`) has the same root, bytes that stay unread; `ClosedOnlyFull` shows that it is the only way `ProcessRecv`
   gives up a live connection.
4. `pool_refused`: `SendBuffer::Close` refuses a packet larger than the 4096 bytes reserved without closing the chunk (`SendBuffer.cpp:17`), although `open` is
   to mean that the chunk is in use (`SendBufferChunk.cpp:19`, `26`). The thread's next `Open` returns nullptr, which `MakeSendBuffer` dereferences
   (`PacketHandler.h:34`). The shipped messages are empty and far from that size.

Not a finding, since the repository has no caller of `SessionManager::Broadcast`: with a broadcaster `NoQueueRace` fails,
because `RegisterSend` called from `Send` drains the queue unlocked. The run on the shipped server shows it holds
there for want of a second sender, and the theorem says so in its assumption.

## 4. Proofs

`Session`, `AcceptPool`, `SendBufferPool` and `PacketStream` name the assumptions on their constants (`SessionAssumption`, `AcceptAssumption`,
`PoolAssumption`, `StreamAssumption`); nothing else is assumed unless a theorem says so.

**SessionProofs**: for any set of threads, either service type and any `ExResults`: `TypeOK`, `SendExclusive`, `RecvExclusive`,
`EventHoldsSession`, `InFlightRetained`, `RegistryConsistent`, `RecvArmed`, `LockOrder`; assuming `~AppBroadcasts`,
`NoQueueRace` and `NoLostWakeup`. None of these is inductive alone. `IInv` adds: what the return addresses
say about where a thread is (`CallInv`); that nobody owns the receive side before the link exists (`RecvInv`); that `iocpObj` is set
before the operation is posted (`HoldInv`); that until `OnConnected` only the opening thread can reach the session, which is why
`isConnected` may be set before the session is listed (`OpenInv`); that one `Disconnect` wins the exchange and its completion is processed
once (`DiscInv`); who holds each lock (`LockInv`); how the receive's error path ends (`RearmInv`). Without a broadcaster only the
receive owner sends, so a drain is done by the receive owner or under the lock (`SenderInv`): push and pop never
overlap, the queue never holds a `Ghost`, and while connected the flag and the queue tell the truth (`QueueInv`). Each part has a lemma `<Part>Preserved`.

**SessionRefinements**: `Spec => LifeSpec`, either service type. Beyond `IInv` it needs to know where the socket is while the session opens
and after it is removed (`LinkInv`), since the stages "new" and "removed" differ in nothing else. Receive and send steps move no thread between the
labels the stage depends on (`StageKept`), so they stutter. The same module has two results about a whole session that no single flag tells.
`CleanupAhead`: assuming DisconnectEx never fails at once (`"failed" \notin ExResults`), a session that is disconnected and still listed always has
exactly one removal ahead of it, in the kernel or in one thread. That one is there is `OwedInv`; that there are not two is `DiscInv`. Without the assumption
it is false: that is finding 2. `NoCircularWait`: with a broadcaster or without, a chain of threads waiting for each other's locks has at most two links and
ends at a thread that runs; `LockOrder` speaks of one thread, this of any number of them.

**OutboxProofs**: `Spec => OutboxSpec` assuming `~AppBroadcasts`. The backlog is what is in the event followed by what is in the queue. Five steps are
not stutters by their shape (`QuietSteps`): `Push` accepts, `Drain` moves a message from the queue to the event and leaves the backlog as it is, `ObserveSend`
transmits or loses the batch, `ProcessSend` clears what has already left, `SendError` loses the batch. That `Push` accepts exactly one message needs that push and pop never overlap, which is where
`SenderInv` and the assumption come in; that a batch leaves whole is the lemma `Batches` on sequences.

**DeliveryProofs**: what the refinement is good for, assuming `~AppBroadcasts`. `DeliveredInOrder`: wire, kernel and queue together are a rising sequence of the
numbers `Send` gave out. It is read from the steps of `Outbox` (`OrderKept`), so it needs nothing of `Session` but the refinement; its content is the
lemmas on sequences (`RisingAppend`, `RisingCut`, `RisingDrop`): a message joins at the end, a failed batch is cut out of the middle. `NoMessageLost`: while the session is
connected, no I/O error was logged and no thread stands in an error path of a send, the sequence is all of `1 .. accepted`. `LossInv` adds that nothing
is sent before the session opens, and that the error path of `RegisterSend` is only taken after an error that was logged or has disconnected; then the only step that
loses a batch is one after which the hypothesis is false, and stays false because a session is opened once (`OpenedOnce`).

**AcceptPoolProofs**: for any workers, any finite set of events and any bounds: `TypeOK`, `AcceptsKept`, `AcceptsFresh`, `ListsAgree`,
`BroadcastReachesAll`, `LifeSpec`. `IInv` adds: the workers are idle until main has armed every event (`MainInv`); a handler has
the event and the session it was entered with (`LocalsInv`); until `OnConnected` only the opening thread can reach the session, so that it cannot be
disconnected before it is listed (`OpenInv`); one thread processes a session's disconnect, the manager being left before the service (`LeaveInv`).
`SocketsLimited` (`SocketsBounded`) counts: a socket is made by `RegisterAccept` only, which arms a slot or fails, and a slot is left only by a client taken; `BoundInv` keeps
the count with the bounds of the environment, over lemmas on the size of the armed set. `EverySessionCovered` follows: `created <= SessionBound`, so `LifeSpec`,
stated for the sessions `1 .. SessionBound`, leaves none out.

**SendBufferPoolProofs**: for any threads, chunks and packet sizes: `TypeOK`, `PoolUnreferenced`, `ThreadConfined`, `PacketsIntact`;
and `NoChunkLost` for finitely many threads and SendBuffers. `IInv` adds what each label says of `local` and `held`
(`PointersInv`), that everything referred to was allocated, so `new` returns something else (`AllocatedInv`), that no live packet lies in a chunk on its
way from or to the pool, which is why `Init` may rewind it (`HeldFree`), and that a chosen chunk has room (`RoomInv`).
`NoChunkLost` follows from `Referenced`: every chunk ever created is in the pool, a thread's hands or under a SendBuffer, so when the pool is empty
there are at most as many as there are pointers.
Two results are about the memory itself, neither with an assumption. `WritesHarmNoPacket`: whatever was refused before, the bytes `MakeSendBuffer` writes before `Close` has looked at
their number lie above every live packet of the chunk, no other thread has that chunk, and a packet no larger than the reservation stays inside it. `RewindsEmptyChunks`, an action property: `Init` rewinds
a chunk only when no packet lies in it.

**PacketStreamProofs**: for any stream, buffer and garbage, and wherever receives end: `TypeOK`, `UnreadAreLast`, `RoomUnlessUnread`, `ClosedOnlyFull`, `TornBySplit`.
`IInv` adds what OnRecv returns (`ReturnsInside`) and the states `Clear` can leave behind (`ClearedInv`), from which the room of the next receive follows. `BoundaryInv`, which holds until the first
receive that ends inside a packet (`~split`), says that what was received ends a packet and that OnRecv stands at the next packet's first byte; it is inductive because `split` never goes back. From it come
`TornBySplit`; `NothingLeftBehind`, that everything received has been dispatched when the next receive is posted; and `StreamImplementsChannel`, that if no receive ever ends inside a
packet every step is a step or a stutter of `PacketChannel`. The last is a statement about the behaviours TCP is not bound to give; finding 3 is what happens in the others.

**Only model-checked**: liveness (`EveryMessageSettles`, `DisconnectReleases`, `PoolRefills`, `ClientsAccepted`, `LoopEnds`, the fairness in `ChannelSpec`), which is
out of the prover's reach. Every safety property of the passing runs is also a theorem, `DispatchesWhole` as `TornBySplit` and `ChannelSpec` under its condition. `CleanupAhead`, `NothingLost` and `NothingLeftBehind` are the safety side
of three of them: they say that what must happen is still to come or has happened, and the runs that it comes.

## 5. Not modelled

* `Libraries` (protobuf's headers and sources), `protoc` and the code it generates: third-party or generated. They are nearly all of the repository's
  650,000 lines; the program itself is about 1,500 lines in `ServerCore`, `GameServer` and `GameClient`, and that is what the modules stand for.
* `SocketHelper`: one WinSock call per function; its results are the choices `ExResults`, `PostResults` and the failures of `AcceptPool`.
* Dispatch by packet id and parsing (`PacketHandler::HandlePacket`, `Init`): a table written once before any thread and one call, with no state.
* Construction, address parsing, the socket set-up of `StartAccept` before its loop, the joins in `main`: run once by one thread.
* The OVERLAPPED fields, the socket handles, the release of a session's memory. That a session lives while an event or a list names it is
  `shared_ptr`'s doing; that the events and the lists name it when they must is `EventHoldsSession` and `RegistryConsistent`.
* Packet contents: what a packet says, and so what a peer makes of a packet whose size field wrapped (`PacketHandler.h:31`).
* The login exchange between both ends: C_LOGIN is the `Send` of `OnConnected`, S_LOGIN the `Send` of a receive. Neither side waits for, times out on or
  repeats either message, so the exchange adds no state to the two ends: it is `Session` and `PacketStream` once per direction.
* Writes past the end of a chunk (`WritesHarmNoPacket` says which packets cannot make one), and reads past the receive buffer, are undefined behaviour outside the models' state; `PacketStream` ends in `lost` there.

Hazards no property covers are in `PROJECT.json` with the reason.

## 6. How the modules build on each other

`PacketStream` details the choice `OnRecv` makes in `Session`; `SendBufferPool` details `MakeSendBuffer` before `Session!Send` and the release of a batch in
`Session!ProcessSend`, whose threads are the same workers; `AcceptPool` puts many sessions, as `SessionLife`, behind one listener. A change to
`Session.cpp` is first a change to `Session`, then to the lemmas of the actions it touches in `SessionProofs`, `OutboxProofs`, `DeliveryProofs` and `SessionRefinements`;
as long as `SessionLife` still holds, `AcceptPool` and its proofs stay as they are.
