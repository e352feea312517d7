--------------------------- MODULE OutboxProofs ----------------------------
(***************************************************************************)
(* As long as nobody calls Broadcast, a Session with all its threads       *)
(* implements the Outbox: a queue that hands messages over in order, each  *)
(* once, and loses whole batches at most.  The invariant is IInv of        *)
(* SessionProofs; here each step is shown to be a step of the outbox or to *)
(* leave the outbox as it is.                                              *)
(***************************************************************************)
EXTENDS SessionProofs, SequenceTheorems

\* Sequences of messages: taking the batch b off the front of b \o q, moving
\* the head of q to the end of b, appending to q.
LEMMA Batches ==
  ASSUME NEW b \in Seq(Nat), NEW q \in Seq(Nat)
  PROVE  /\ SubSeq(b \o q, 1, Len(b)) = b
         /\ SubSeq(b \o q, Len(b) + 1, Len(b \o q)) = q
         /\ Len(b) \in Nat /\ Len(b) <= Len(b \o q)
         /\ q # << >> => Append(b, Head(q)) \o Tail(q) = b \o q
         /\ \A m \in Nat : b \o Append(q, m) = Append(b \o q, m)
<1>1. /\ b \o q \in Seq(Nat) /\ Len(b \o q) = Len(b) + Len(q)
      /\ Len(b) \in Nat /\ Len(q) \in Nat
      /\ \A i \in 1 .. Len(b) + Len(q) :
           (b \o q)[i] = IF i <= Len(b) THEN b[i] ELSE q[i - Len(b)]
  BY ConcatProperties, LenProperties
<1>2. SubSeq(b \o q, 1, Len(b)) = b
  <2>1. CASE Len(b) = 0
    BY <2>1, <1>1, SubSeqEmpty, EmptySeq
  <2>2. CASE Len(b) # 0
    <3>1. 1 \in 1 .. Len(b) /\ Len(b) \in 1 .. Len(b)
      BY <2>2, <1>1
    <3>2. SubSeq(b \o q, 1, Len(b)) = SubSeq(b, 1, Len(b))
      BY <3>1, SubSeqOfConcat1
    <3> QED
      BY <3>2, SubSeqFull
  <2> QED
    BY <2>1, <2>2
<1>3. SubSeq(b \o q, Len(b) + 1, Len(b \o q)) = q
  <2>1. CASE Len(q) = 0
    BY <2>1, <1>1, SubSeqEmpty, EmptySeq
  <2>2. CASE Len(q) # 0
    <3>1. /\ Len(b) + 1 \in Len(b) + 1 .. Len(b) + Len(q)
          /\ Len(b) + Len(q) \in Len(b) + 1 .. Len(b) + Len(q)
          /\ Len(b) + 1 - Len(b) = 1 /\ Len(b) + Len(q) - Len(b) = Len(q)
      BY <2>2, <1>1
    <3>2. SubSeq(b \o q, Len(b) + 1, Len(b) + Len(q))
            = SubSeq(q, Len(b) + 1 - Len(b), Len(b) + Len(q) - Len(b))
      BY <3>1, SubSeqOfConcat2
    <3> QED
      BY <3>1, <3>2, <1>1, SubSeqFull
  <2> QED
    BY <2>1, <2>2
<1>4. ASSUME q # << >> PROVE Append(b, Head(q)) \o Tail(q) = b \o q
  <2>1. Head(q) \in Nat /\ Tail(q) \in Seq(Nat)
    BY <1>4, HeadTailProperties
  <2>2. << Head(q) >> \in Seq(Nat) /\ Append(b, Head(q)) = b \o << Head(q) >>
    BY <2>1, AppendIsConcat
  <2>3. << Head(q) >> \o Tail(q) = q
    BY <1>4
  <2> QED
    BY <2>1, <2>2, <2>3, ConcatAssociative
<1>5. ASSUME NEW m \in Nat PROVE b \o Append(q, m) = Append(b \o q, m)
  <2>1. << m >> \in Seq(Nat) /\ Append(q, m) = q \o << m >>
    BY AppendIsConcat
  <2>2. Append(b \o q, m) = (b \o q) \o << m >>
    BY <1>1, AppendIsConcat
  <2> QED
    BY <2>1, <2>2, ConcatAssociative
<1>6. Len(b) <= Len(b \o q)
  BY <1>1
<1> HIDE <1>1
<1> QED
  BY <1>1, <1>2, <1>3, <1>4, <1>5, <1>6

(* The steps that leave the outbox as it is. *)

SentLabels == {"ProcessSend", "SendZero"}

\* Nothing moved in or out of the queue, the event or the wire.
Quiet ==
  /\ UNCHANGED <<accepted, wire, sendQueue, sendBuffers>>
  /\ \A u \in Threads : pc'[u] \in SentLabels <=> pc[u] \in SentLabels

LEMMA QuietStutters == Quiet => UNCHANGED OutboxOf!vars
<1> SUFFICES ASSUME Quiet PROVE UNCHANGED OutboxOf!vars
  OBVIOUS
<1>1. Unsent' = Unsent
  BY DEF Quiet, Unsent, SentLabels
<1> QED
  BY <1>1 DEF Quiet, OutboxOf!vars

\* Only five steps touch the outbox.
LEMMA QuietSteps ==
  ASSUME ThreadsOK, [Next]_vars
  PROVE  \/ Quiet
         \/ \E t \in Threads : \/ ObserveSend(t) \/ Push(t) \/ Drain(t)
                              \/ SendError(t) \/ ProcessSend(t)
<1> USE DEF Quiet, SentLabels, ThreadsOK, Goto, Step, CallSend,
            ReturnFromSend, CallDisconnect, ReturnFromDisconnect, flagVars,
            queueVars, eventVars, serviceVars, managerVars, registryVars,
            kernelVars, callVars, threadVars
<1>1. CASE RegisterConnect
  BY <1>1 DEF RegisterConnect
<1>2. CASE PeerClose
  BY <1>2 DEF PeerClose
<1>3. ASSUME NEW t \in Threads, ConnectStep(t) PROVE Quiet
  BY <1>3, SMTT(60) DEF ConnectStep, ProcessAccept, ObserveConnect,
     ProcessConnect, AddSession, OnConnected, ObserveIO
<1>4. ASSUME NEW t \in Threads, RecvStep(t) PROVE Quiet
  <2>1. CASE ObserveRecv(t)
    BY <2>1 DEF ObserveRecv, ObserveIO
  <2>2. CASE WSARecv(t)
    BY <2>2 DEF WSARecv
  <2>3. CASE RegisterRecv(t) \/ RecvError(t) \/ ProcessRecv(t) \/ OnRecv(t)
    BY <2>3, SMTT(60) DEF RegisterRecv, RecvError, ProcessRecv, OnRecv
  <2> QED
    BY <1>4, <2>1, <2>2, <2>3 DEF RecvStep
<1>5. ASSUME NEW t \in Threads, 
             \/ Broadcast(t) \/ EndBroadcast(t) \/ Send(t) \/ RegisterSend(t)
             \/ WSASend(t) \/ OnSend(t)
      PROVE  Quiet
  <2>1. CASE WSASend(t)
    BY <2>1 DEF WSASend
  <2>2. CASE Send(t) \/ RegisterSend(t)
    BY <2>2 DEF Send, RegisterSend
  <2>3. CASE Broadcast(t) \/ EndBroadcast(t) \/ OnSend(t)
    BY <2>3 DEF Broadcast, EndBroadcast, OnSend
  <2> QED
    BY <1>5, <2>1, <2>2, <2>3
<1>6. ASSUME NEW t \in Threads, DisconnectStep(t) PROVE Quiet
  <2>1. CASE Disconnect(t)
    BY <2>1 DEF Disconnect
  <2>2. CASE ObserveDisconnect(t) \/ DisconnectExError(t) \/
            ProcessDisconnect(t) \/ OnDisconnected(t) \/ RemoveSession(t)
    BY <2>2, SMTT(60) DEF ObserveDisconnect, DisconnectExError,
       ProcessDisconnect, OnDisconnected, RemoveSession, ObserveIO
  <2> QED
    BY <1>6, <2>1, <2>2 DEF DisconnectStep
<1>7. CASE UNCHANGED vars
  BY <1>7 DEF vars
<1> HIDE DEF Quiet
<1> QED
  BY <1>1, <1>2, <1>3, <1>4, <1>5, <1>6, <1>7, NextCases DEF SendStep

\* The owner of the send path is the only one that can have taken the
\* completion: the batch of everybody else's view is sendBuffers.
LEMMA OwnerUnsent ==
  ASSUME SendExclusive, NEW t \in Threads, pc[t] \notin SentLabels,
         OwnsSend(t) \/ posted["SEND"] > 0
  PROVE  (\A u \in Threads : pc[u] \notin SentLabels) /\ Unsent = sendBuffers
<1>1. \A u \in Threads : pc[u] \in SentLabels => OwnsSend(u)
  BY DEF SentLabels, OwnsSend
<1>2. ASSUME NEW u \in Threads, OwnsSend(u) PROVE u = t
  <2>1. ~(posted["SEND"] > 0)
    BY <1>2 DEF SendExclusive
  <2>2. OwnsSend(t)
    BY <2>1
  <2> QED
    BY <1>2, <2>2 DEF SendExclusive
<1>3. \A u \in Threads : pc[u] \notin SentLabels
  BY <1>1, <1>2
<1> QED
  BY <1>3 DEF Unsent, SentLabels

(* The five steps that are steps of the outbox. *)

LEMMA PushAccepts ==
  ASSUME IInv, ~AppBroadcasts, NEW t \in Threads, Push(t)
  PROVE  OutboxOf!Accept
<1>1. ~DrainingUnlocked
  BY RaceFree DEF IInv, TypeOK, NoQueueRace, Push
<1>2. sendQueue' = Append(sendQueue, accepted + 1)
  BY <1>1 DEF Push, PushOutcomes
<1>3. /\ accepted' = accepted + 1 /\ accepted + 1 \in Nat
      /\ UNCHANGED <<wire, sendBuffers>>
  BY DEF Push, IInv, TypeOK, QueuesOK, eventVars, kernelVars
<1>4. \A u \in Threads : pc'[u] \in SentLabels <=> pc[u] \in SentLabels
  BY DEF Push, IInv, TypeOK, ThreadsOK, SentLabels, Goto, ReturnFromSend,
     callVars
<1>5. Unsent' = Unsent
  BY <1>3, <1>4 DEF Unsent, SentLabels
<1>6. Unsent \in Seq(Nat) /\ sendQueue \in Seq(Nat)
  BY DEF Unsent, IInv, TypeOK, QueuesOK
<1>7. Unsent \o Append(sendQueue, accepted + 1)
        = Append(Unsent \o sendQueue, accepted + 1)
  BY <1>3, <1>6, Batches
<1> QED
  BY <1>2, <1>3, <1>5, <1>7 DEF OutboxOf!Accept

LEMMA DrainMoves ==
  ASSUME IInv, ~AppBroadcasts, NEW t \in Threads, Drain(t)
  PROVE  UNCHANGED OutboxOf!vars
<1>1. pc[t] = "Drain" /\ OwnsSend(t) /\ SendExclusive
  BY DEF Drain, OwnsSend, IInv
<1>2. /\ \A u \in Threads : pc[u] \notin SentLabels
      /\ Unsent = sendBuffers
  BY <1>1, OwnerUnsent DEF SentLabels
<1>3. sendQueue \in Seq(Nat) /\ sendBuffers \in Seq(Nat)
  BY DEF IInv, TypeOK, QueuesOK
<1>4. sendQueue # << >> => Head(sendQueue) # Ghost
  BY DEF IInv, GhostFree
<1>5. \A u \in Threads : pc'[u] \notin SentLabels
  BY <1>2 DEF Drain, SentLabels, Goto, IInv, TypeOK, ThreadsOK
<1>6. Unsent' = sendBuffers'
  BY <1>5 DEF Unsent, SentLabels
<1>7. sendBuffers' \o sendQueue' = sendBuffers \o sendQueue
  <2>1. CASE sendQueue = << >>
    BY <2>1 DEF Drain
  <2>2. CASE sendQueue # << >>
    <3>1. sendBuffers' = Append(sendBuffers, Head(sendQueue))
      BY <1>4, <2>2 DEF Drain
    <3>2. sendQueue' = Tail(sendQueue)
      BY <1>4, <2>2 DEF Drain
    <3>3. Append(sendBuffers, Head(sendQueue)) \o Tail(sendQueue)
            = sendBuffers \o sendQueue
      BY <1>3, <2>2, Batches
    <3> QED
      BY <3>1, <3>2, <3>3
  <2> QED
    BY <2>1, <2>2
<1>8. UNCHANGED <<accepted, wire>>
  BY DEF Drain, kernelVars
<1> QED
  BY <1>2, <1>6, <1>7, <1>8 DEF OutboxOf!vars

\* The batch b in front of the backlog leaves.
LEMMA BatchLeaves ==
  ASSUME IInv, NEW b \in Seq(Nat), b = Unsent, Unsent' = << >>,
         UNCHANGED <<accepted, sendQueue>>,
         wire' = wire \/ wire' = wire \o b
  PROVE  [OutboxOf!Next]_(OutboxOf!vars)
<1> DEFINE backlog == Unsent \o sendQueue
<1>1. sendQueue \in Seq(Nat) /\ wire \in Seq(Nat)
  BY DEF IInv, TypeOK, QueuesOK
<1>2. /\ SubSeq(backlog, 1, Len(b)) = b
      /\ SubSeq(backlog, Len(b) + 1, Len(backlog)) = sendQueue
      /\ Len(b) \in Nat /\ Len(b) <= Len(backlog)
  BY <1>1, Batches
<1>3. (Unsent \o sendQueue)' = sendQueue
  BY <1>1
<1>4. CASE Len(b) = 0
  <2>1. b = << >>
    BY <1>4, EmptySeq
  <2>2. wire' = wire /\ backlog = sendQueue
    BY <2>1, <1>1
  <2> QED
    BY <2>2, <1>3 DEF OutboxOf!vars
<1>5. CASE Len(b) # 0
  <2>1. Len(b) \in 1 .. Len(backlog)
    <3>1. Len(backlog) \in Nat
      BY <1>1
    <3> QED
      BY <3>1, <1>2, <1>5
  <2>2. CASE wire' = wire
    <3>1. OutboxOf!Lose(Len(b))
      BY <1>2, <1>3, <2>2 DEF OutboxOf!Lose, OutboxOf!WithoutOldest
    <3> QED
      BY <2>1, <3>1 DEF OutboxOf!Next
  <2>3. CASE wire' = wire \o b
    <3>1. OutboxOf!Transmit(Len(b))
      BY <1>2, <1>3, <2>3 DEF OutboxOf!Transmit, OutboxOf!Oldest,
         OutboxOf!WithoutOldest
    <3> QED
      BY <2>1, <3>1 DEF OutboxOf!Next
  <2> QED
    BY <2>2, <2>3
<1> QED
  BY <1>4, <1>5

LEMMA ObserveSendLeaves ==
  ASSUME IInv, NEW t \in Threads, ObserveSend(t)
  PROVE  [OutboxOf!Next]_(OutboxOf!vars)
<1>1. posted["SEND"] > 0 /\ pc[t] = "idle" /\ SendExclusive
  BY DEF ObserveSend, ObserveIO, Step, IInv
<1>2. Unsent = sendBuffers /\ sendBuffers = inflight
  BY <1>1, OwnerUnsent DEF SentLabels, IInv, InFlightRetained
<1>3. iocpObj["SEND"]
  BY <1>1 DEF IInv, HoldInv, EventHoldsSession, Events
<1>4. pc'[t] \in SentLabels
  BY <1>3 DEF ObserveSend, ObserveIO, Step, Goto, SentLabels, IInv, TypeOK,
     ThreadsOK
<1>5. Unsent' = << >>
  BY <1>4 DEF Unsent, SentLabels
<1>6. UNCHANGED <<accepted, sendQueue>> /\ (wire' = wire \/ wire' = wire \o inflight)
  BY DEF ObserveSend, ObserveIO, queueVars
<1>7. sendBuffers \in Seq(Nat)
  BY DEF IInv, TypeOK, QueuesOK
<1> QED
  BY <1>2, <1>5, <1>6, <1>7, BatchLeaves

LEMMA SendErrorLoses ==
  ASSUME IInv, NEW t \in Threads, SendError(t)
  PROVE  [OutboxOf!Next]_(OutboxOf!vars)
<1>1. pc[t] = "SendError" /\ OwnsSend(t) /\ SendExclusive
  BY DEF SendError, OwnsSend, IInv
<1>2. /\ \A u \in Threads : pc[u] \notin SentLabels
      /\ Unsent = sendBuffers
  BY <1>1, OwnerUnsent DEF SentLabels
<1>3. Unsent' = << >>
  BY DEF SendError, Unsent
<1>4. UNCHANGED <<accepted, sendQueue, wire>> /\ sendBuffers \in Seq(Nat)
  BY DEF SendError, kernelVars, IInv, TypeOK, QueuesOK
<1> QED
  BY <1>2, <1>3, <1>4, BatchLeaves

LEMMA ProcessSendStutters ==
  ASSUME NEW t \in Threads, ProcessSend(t)
  PROVE  UNCHANGED OutboxOf!vars
<1>1. Unsent = << >> /\ Unsent' = << >>
  BY DEF ProcessSend, Step, Unsent
<1> QED
  BY <1>1 DEF ProcessSend, OutboxOf!vars, queueVars, kernelVars

LEMMA OutboxStep ==
  ASSUME IInv, ~AppBroadcasts, [Next]_vars
  PROVE  [OutboxOf!Next]_(OutboxOf!vars)
<1>1. ThreadsOK
  BY DEF IInv, TypeOK
<1>2. CASE Quiet
  BY <1>2, QuietStutters
<1>3. ASSUME NEW t \in Threads,
             \/ ObserveSend(t) \/ Push(t) \/ Drain(t) \/ SendError(t)
             \/ ProcessSend(t)
      PROVE  [OutboxOf!Next]_(OutboxOf!vars)
  <2>1. CASE Push(t)
    BY <2>1, PushAccepts DEF OutboxOf!Next
  <2>2. CASE Drain(t)
    BY <2>2, DrainMoves
  <2>3. CASE ProcessSend(t)
    BY <2>3, ProcessSendStutters
  <2> QED
    BY <1>3, <2>1, <2>2, <2>3, ObserveSendLeaves, SendErrorLoses
<1> QED
  BY <1>1, <1>2, <1>3, QuietSteps

\* Session.cpp:23-43, 93-139 and 226-248: as long as nobody calls Broadcast,
\* messages leave in the order Send accepted them, each at most once, and a
\* failing socket loses a batch as a whole.
THEOREM SessionImplementsOutbox ==
  ASSUME ~AppBroadcasts PROVE Spec => OutboxSpec
<1>1. Init => OutboxOf!Init
  BY DEF Init, OutboxOf!Init, Unsent
<1>2. IInv /\ [Next]_vars => [OutboxOf!Next]_(OutboxOf!vars)
  BY OutboxStep
<1> QED
  BY <1>1, <1>2, Invariance, PTL DEF Spec, OutboxSpec, OutboxOf!Spec
=============================================================================
