--------------------------- MODULE SessionProofs ----------------------------
(***************************************************************************)
(* The safety properties of Session hold for any number of threads, of     *)
(* messages and of orders the kernel completes operations in: IInv below   *)
(* is inductive and implies each of them.  Every part of IInv has a lemma, *)
(* <Part>Preserved, with one step per group of actions and, where a group  *)
(* can disturb the part, one case per action that can.                     *)
(***************************************************************************)
EXTENDS Session, TLAPS

(* The steps of Session grouped by the event they serve. *)

ConnectStep(t) ==
  ProcessAccept(t) \/ ObserveConnect(t) \/ ProcessConnect(t) \/ AddSession(t)
     \/ OnConnected(t)

RecvStep(t) ==
  ObserveRecv(t) \/ RegisterRecv(t) \/ WSARecv(t) \/ RecvError(t) \/
     ProcessRecv(t) \/ OnRecv(t)

SendStep(t) ==
  Broadcast(t) \/ EndBroadcast(t) \/ ObserveSend(t) \/ Send(t) \/ Push(t) \/
     RegisterSend(t) \/ Drain(t) \/ WSASend(t) \/ SendError(t) \/
     ProcessSend(t) \/ OnSend(t)

DisconnectStep(t) ==
  ObserveDisconnect(t) \/ Disconnect(t) \/ DisconnectExError(t) \/
     ProcessDisconnect(t) \/ OnDisconnected(t) \/ RemoveSession(t)

\* A step is one of the groups' steps or leaves everything as it is.
LEMMA NextCases ==
  ASSUME [Next]_vars
  PROVE  \/ RegisterConnect \/ PeerClose \/ UNCHANGED vars
         \/ \E t \in Threads : \/ ConnectStep(t) \/ RecvStep(t)
                              \/ SendStep(t) \/ DisconnectStep(t)
  BY DEF Next, Observe, Run, ConnectStep, RecvStep, SendStep, DisconnectStep

(* The parts of the inductive invariant. *)

SendLabels == {"Send", "Push", "RegisterSend", "Drain", "WSASend", "SendError"}

\* What a thread returns to from Send is set only while it is in Send, or in
\* the Disconnect that RegisterSend's HandleError calls.
CallInv ==
  \A t \in Threads :
    sendRet[t] # "idle" =>
      \/ pc[t] \in SendLabels \cup {"crashed"}
      \/ InDisconnect(t) /\ discRet[t] = "SendError"

\* Before there is a connection nobody owns the receive side: without this
\* ProcessAccept could add a second owner.
RecvInv ==
  /\ RecvExclusive
  /\ link = "none" =>
       /\ posted["RECV"] = 0 /\ posted["CONNECT"] = 0
       /\ \A t \in Threads : ~OwnsRecv(t)

\* iocpObj is set before the operation is posted.
HoldInv ==
  /\ EventHoldsSession
  /\ \A t \in Threads :
       /\ pc[t] = "WSARecv" => iocpObj["RECV"]
       /\ pc[t] \in {"Drain", "WSASend"} => iocpObj["SEND"]
       /\ pc[t] = "DisconnectExError" => "done" \in ExResults

OpenLabels == {"ProcessConnect", "AddSession", "OnConnected"}

\* From creation until OnConnected, until AddSession, until isConnected is set.
Opening ==
  \/ link = "none" \/ posted["CONNECT"] > 0
  \/ \E t \in Threads : pc[t] \in OpenLabels

Unlisted ==
  \/ link = "none" \/ posted["CONNECT"] > 0
  \/ \E t \in Threads : pc[t] \in {"ProcessConnect", "AddSession"}

Fresh ==
  \/ link = "none" \/ posted["CONNECT"] > 0
  \/ \E t \in Threads : pc[t] = "ProcessConnect"

\* Until OnConnected only the opening thread can reach the session, which is
\* why isConnected may be set before the session is listed.
OpenInv ==
  /\ Opening =>
       /\ \A t \in Threads : pc[t] \in OpenLabels \cup {"idle", "crashed"}
       /\ posted["SEND"] = 0 /\ posted["RECV"] = 0 /\ posted["DISCONNECT"] = 0
       /\ ~inManager
  /\ Unlisted => ~inService
  /\ Fresh => ~isConnected
  /\ \A t \in Threads : pc[t] = "OnConnected" => inService

DiscLabels == {"ProcessDisconnect", "OnDisconnected", "RemoveSession"}

\* isConnected.exchange lets one Disconnect through, and the session stays
\* listed until that one's completion has been processed.
DiscInv ==
  /\ \A t, u \in Threads :
       pc[t] \in DiscLabels /\ pc[u] \in DiscLabels => t = u
  /\ \A t \in Threads : pc[t] \in DiscLabels => posted["DISCONNECT"] = 0
  /\ posted["DISCONNECT"] <= 1
  /\ posted["DISCONNECT"] > 0 \/ (\E t \in Threads : pc[t] \in DiscLabels) =>
       ~isConnected /\ inService
  /\ inManager => ServiceType = "SERVER"

InRegisterSend(t) ==
  \/ pc[t] \in {"RegisterSend", "Drain", "WSASend", "SendError"}
  \/ InDisconnect(t) /\ discRet[t] = "SendError"

\* Who holds the locks.
LockInv ==
  \A t \in Threads :
    /\ rwLock = t => InRegisterSend(t) \/ pc[t] = "crashed"
    /\ managerLock = t => sendRet[t] = "EndBroadcast" \/ pc[t] = "EndBroadcast"

\* The error path of RegisterRecv either logged the error or disconnected.
RearmInv ==
  /\ RecvArmed
  /\ \A t \in Threads :
       /\ pc[t] = "RecvError" => ioErrorLogged \/ ~isConnected
       /\ pc[t] = "DisconnectExError" => ~isConnected

\* Without Broadcast only the receive path calls Send, so whoever is in
\* RegisterSend holds rwLock or owns the receive side.
SenderInv ==
  ~AppBroadcasts =>
    \A t \in Threads :
      /\ sendRet[t] # "EndBroadcast"
      /\ pc[t] \in {"Send", "Push"} => sendRet[t] # "idle"
      /\ InRegisterSend(t) => sendRet[t] # "idle" \/ rwLock = t

GhostFree == ~AppBroadcasts => sendQueue \in Seq(Nat \ {Ghost})

\* While connected sendRegistered does tell whether a send is registered, and
\* RegisterSend leaves an empty queue behind.
QueueInv ==
  ~AppBroadcasts =>
    /\ isConnected /\ (sendRegistered \/ sendQueue # << >>) =>
         posted["SEND"] > 0 \/ \E t \in Threads : OwnsSend(t)
    /\ Opening => sendQueue = << >> /\ ~sendRegistered
    /\ \A t \in Threads :
         InRegisterSend(t) /\ pc[t] \notin {"RegisterSend", "Drain"} =>
           sendQueue = << >>

IInv ==
  /\ TypeOK /\ CallInv /\ SendExclusive /\ RecvInv /\ InFlightRetained
  /\ OpenInv /\ DiscInv /\ RegistryConsistent /\ HoldInv /\ LockInv
  /\ RearmInv /\ SenderInv /\ GhostFree /\ QueueInv

\* The Boolean variables keep their type.
LEMMA FlagsPreserved ==
  ASSUME FlagsOK, [Next]_vars
  PROVE  FlagsOK'
<1> USE DEF FlagsOK, flagVars, queueVars, eventVars, serviceVars, managerVars,
            registryVars, kernelVars, callVars, threadVars
<1>1. CASE RegisterConnect
  <2>1. PICK kept \in BOOLEAN : iocpObj' = [iocpObj EXCEPT !["CONNECT"] = kept]
    BY <1>1 DEF RegisterConnect
  <2> QED
    BY <1>1, <2>1 DEF RegisterConnect
<1>2. CASE PeerClose
  BY <1>2 DEF PeerClose
<1>3. ASSUME NEW t \in Threads, ConnectStep(t) PROVE FlagsOK'
  BY <1>3 DEF ConnectStep, ProcessAccept, ObserveConnect, ProcessConnect,
     AddSession, OnConnected, ObserveIO
<1>4. ASSUME NEW t \in Threads, RecvStep(t) PROVE FlagsOK'
  BY <1>4 DEF RecvStep, ObserveRecv, RegisterRecv, WSARecv, RecvError,
     ProcessRecv, OnRecv, ObserveIO
<1>5. ASSUME NEW t \in Threads, SendStep(t) PROVE FlagsOK'
  BY <1>5 DEF SendStep, Broadcast, EndBroadcast, ObserveSend, Send, Push,
     RegisterSend, Drain, WSASend, SendError, ProcessSend, OnSend, ObserveIO
<1>6. ASSUME NEW t \in Threads, DisconnectStep(t) PROVE FlagsOK'
  <2>1. CASE Disconnect(t)
    BY <2>1 DEF Disconnect
  <2>2. CASE ObserveDisconnect(t) \/ DisconnectExError(t) \/
            ProcessDisconnect(t) \/ OnDisconnected(t) \/ RemoveSession(t)
    BY <2>2 DEF ObserveDisconnect, DisconnectExError, ProcessDisconnect,
       OnDisconnected, RemoveSession, ObserveIO
  <2> QED
    BY <1>6, <2>1, <2>2 DEF DisconnectStep
<1>7. CASE UNCHANGED vars
  BY <1>7 DEF vars
<1> QED
  BY <1>1, <1>2, <1>3, <1>4, <1>5, <1>6, <1>7, NextCases

\* Threads stay at labels of the code and return to their callers; locks are
\* held by threads.
LEMMA ThreadsPreserved ==
  ASSUME ThreadsOK, [Next]_vars
  PROVE  ThreadsOK'
<1> USE DEF ThreadsOK, Labels, ReleaseIfHeld, Goto, Step, CallSend,
            ReturnFromSend, CallDisconnect, ReturnFromDisconnect, flagVars,
            queueVars, eventVars, serviceVars, managerVars, registryVars,
            kernelVars, callVars, threadVars
<1>1. CASE RegisterConnect
  BY <1>1 DEF RegisterConnect
<1>2. CASE PeerClose
  BY <1>2 DEF PeerClose
<1>3. ASSUME NEW t \in Threads, ConnectStep(t) PROVE ThreadsOK'
  BY <1>3, SMTT(60) DEF ConnectStep, ProcessAccept, ObserveConnect,
     ProcessConnect, AddSession, OnConnected, ObserveIO
<1>4. ASSUME NEW t \in Threads, RecvStep(t) PROVE ThreadsOK'
  BY <1>4, SMTT(60) DEF RecvStep, ObserveRecv, RegisterRecv, WSARecv,
     RecvError, ProcessRecv, OnRecv, ObserveIO
<1>5. ASSUME NEW t \in Threads, SendStep(t) PROVE ThreadsOK'
  BY <1>5, SMTT(60) DEF SendStep, Broadcast, EndBroadcast, ObserveSend, Send,
     Push, RegisterSend, Drain, WSASend, SendError, ProcessSend, OnSend,
     ObserveIO
<1>6. ASSUME NEW t \in Threads, DisconnectStep(t) PROVE ThreadsOK'
  BY <1>6, SMTT(60) DEF DisconnectStep, ObserveDisconnect, Disconnect,
     DisconnectExError, ProcessDisconnect, OnDisconnected, RemoveSession,
     ObserveIO
<1>7. CASE UNCHANGED vars
  BY <1>7 DEF vars
<1> QED
  BY <1>1, <1>2, <1>3, <1>4, <1>5, <1>6, <1>7, NextCases

\* Counts and the socket's state keep their type.
LEMMA EventsPreserved ==
  ASSUME EventsOK, [Next]_vars
  PROVE  EventsOK'
<1> USE DEF EventsOK, Events, LinkStates, Post, flagVars, queueVars,
            eventVars, serviceVars, managerVars, registryVars, kernelVars,
            callVars, threadVars
<1>1. CASE RegisterConnect
  BY <1>1 DEF RegisterConnect
<1>2. CASE PeerClose
  BY <1>2 DEF PeerClose
<1>3. ASSUME NEW t \in Threads, ConnectStep(t) PROVE EventsOK'
  BY <1>3, SMTT(60) DEF ConnectStep, ProcessAccept, ObserveConnect,
     ProcessConnect, AddSession, OnConnected, ObserveIO
<1>4. ASSUME NEW t \in Threads, RecvStep(t) PROVE EventsOK'
  BY <1>4, SMTT(60) DEF RecvStep, ObserveRecv, RegisterRecv, WSARecv,
     RecvError, ProcessRecv, OnRecv, ObserveIO
<1>5. ASSUME NEW t \in Threads, SendStep(t) PROVE EventsOK'
  BY <1>5, SMTT(60) DEF SendStep, Broadcast, EndBroadcast, ObserveSend, Send,
     Push, RegisterSend, Drain, WSASend, SendError, ProcessSend, OnSend,
     ObserveIO
<1>6. ASSUME NEW t \in Threads, DisconnectStep(t) PROVE EventsOK'
  <2>1. CASE Disconnect(t)
    BY <2>1 DEF Disconnect
  <2>2. CASE ObserveDisconnect(t) \/ DisconnectExError(t) \/
            ProcessDisconnect(t) \/ OnDisconnected(t) \/ RemoveSession(t)
    BY <2>2, SMTT(60) DEF ObserveDisconnect, DisconnectExError,
       ProcessDisconnect, OnDisconnected, RemoveSession, ObserveIO
  <2> QED
    BY <1>6, <2>1, <2>2 DEF DisconnectStep
<1>7. CASE UNCHANGED vars
  BY <1>7 DEF vars
<1> QED
  BY <1>1, <1>2, <1>3, <1>4, <1>5, <1>6, <1>7, NextCases

\* The queues are sequences of message numbers.
LEMMA QueuesPreserved ==
  ASSUME QueuesOK, [Next]_vars
  PROVE  QueuesOK'
<1> USE DEF QueuesOK, flagVars, queueVars, eventVars, serviceVars,
            managerVars, registryVars, kernelVars, callVars, threadVars
<1>1. CASE RegisterConnect
  BY <1>1 DEF RegisterConnect
<1>2. CASE PeerClose
  BY <1>2 DEF PeerClose
<1>3. ASSUME NEW t \in Threads, ConnectStep(t) PROVE QueuesOK'
  BY <1>3, SMTT(60) DEF ConnectStep, ProcessAccept, ObserveConnect,
     ProcessConnect, AddSession, OnConnected, ObserveIO
<1>4. ASSUME NEW t \in Threads, RecvStep(t) PROVE QueuesOK'
  BY <1>4, SMTT(60) DEF RecvStep, ObserveRecv, RegisterRecv, WSARecv,
     RecvError, ProcessRecv, OnRecv, ObserveIO
<1>5. ASSUME NEW t \in Threads, SendStep(t) PROVE QueuesOK'
  <2>1. CASE ObserveSend(t)
    <3>1. (wire \o inflight) \in Seq(Nat)
      OBVIOUS
    <3>2. wire' \in Seq(Nat)
      BY <2>1, <3>1 DEF ObserveSend
    <3>3. inflight' \in Seq(Nat)
      BY <2>1 DEF ObserveSend
    <3>4. UNCHANGED <<sendQueue, sendBuffers, accepted>>
      BY <2>1 DEF ObserveSend, ObserveIO
    <3> QED
      BY <3>2, <3>3, <3>4
  <2>2. CASE Push(t)
    <3>1. accepted' \in Nat /\ Ghost \in Nat
      BY <2>2 DEF Push, Ghost
    <3>2. \A m \in Nat, s \in Seq(Nat) : Append(s, m) \in Seq(Nat)
      OBVIOUS
    <3>3. sendQueue' \in Seq(Nat)
      BY <2>2, <3>1, <3>2 DEF Push, PushOutcomes
    <3> QED
      BY <2>2, <3>1, <3>3 DEF Push
  <2>3. CASE Drain(t)
    <3>1. CASE sendQueue = << >> \/ Head(sendQueue) = Ghost
      BY <2>3, <3>1 DEF Drain
    <3>2. CASE sendQueue # << >> /\ Head(sendQueue) # Ghost
      <4>1. Head(sendQueue) \in Nat /\ Tail(sendQueue) \in Seq(Nat)
        BY <3>2
      <4>2. Append(sendBuffers, Head(sendQueue)) \in Seq(Nat)
        BY <4>1
      <4> QED
        BY <2>3, <3>2, <4>1, <4>2 DEF Drain
    <3> QED
      BY <3>1, <3>2
  <2>4. CASE WSASend(t)
    BY <2>4 DEF WSASend
  <2>5. CASE SendError(t)
    BY <2>5 DEF SendError
  <2>6. CASE ProcessSend(t)
    BY <2>6 DEF ProcessSend
  <2>7. CASE Broadcast(t) \/ EndBroadcast(t) \/ Send(t) \/ RegisterSend(t) \/
            OnSend(t)
    BY <2>7, SMTT(60) DEF Broadcast, EndBroadcast, Send, RegisterSend, OnSend
  <2> QED
    BY <1>5, <2>1, <2>2, <2>3, <2>4, <2>5, <2>6, <2>7 DEF SendStep
<1>6. ASSUME NEW t \in Threads, DisconnectStep(t) PROVE QueuesOK'
  BY <1>6, SMTT(60) DEF DisconnectStep, ObserveDisconnect, Disconnect,
     DisconnectExError, ProcessDisconnect, OnDisconnected, RemoveSession,
     ObserveIO
<1>7. CASE UNCHANGED vars
  BY <1>7 DEF vars
<1> QED
  BY <1>1, <1>2, <1>3, <1>4, <1>5, <1>6, <1>7, NextCases

\* What a thread calls Send for is remembered only while it is in Send.
LEMMA CallPreserved ==
  ASSUME ThreadsOK, CallInv, [Next]_vars
  PROVE  CallInv'
<1> USE DEF CallInv, ThreadsOK, Labels, SendLabels, InDisconnect, Goto, Step,
            CallSend, ReturnFromSend, CallDisconnect, ReturnFromDisconnect,
            flagVars, queueVars, eventVars, serviceVars, managerVars,
            registryVars, kernelVars, callVars, threadVars
<1>1. CASE RegisterConnect
  BY <1>1 DEF RegisterConnect
<1>2. CASE PeerClose
  BY <1>2 DEF PeerClose
<1>3. ASSUME NEW t \in Threads, ConnectStep(t) PROVE CallInv'
  BY <1>3, SMTT(60) DEF ConnectStep, ProcessAccept, ObserveConnect,
     ProcessConnect, AddSession, OnConnected, ObserveIO
<1>4. ASSUME NEW t \in Threads, RecvStep(t) PROVE CallInv'
  BY <1>4, SMTT(60) DEF RecvStep, ObserveRecv, RegisterRecv, WSARecv,
     RecvError, ProcessRecv, OnRecv, ObserveIO
<1>5. ASSUME NEW t \in Threads, SendStep(t) PROVE CallInv'
  BY <1>5, SMTT(60) DEF SendStep, Broadcast, EndBroadcast, ObserveSend, Send,
     Push, RegisterSend, Drain, WSASend, SendError, ProcessSend, OnSend,
     ObserveIO
<1>6. ASSUME NEW t \in Threads, DisconnectStep(t) PROVE CallInv'
  BY <1>6, SMTT(60) DEF DisconnectStep, ObserveDisconnect, Disconnect,
     DisconnectExError, ProcessDisconnect, OnDisconnected, RemoveSession,
     ObserveIO
<1>7. CASE UNCHANGED vars
  BY <1>7 DEF vars
<1> QED
  BY <1>1, <1>2, <1>3, <1>4, <1>5, <1>6, <1>7, NextCases

\* A step of the send path changes nobody's hold on the receive side.
LEMMA SendKeepsRecv ==
  ASSUME ThreadsOK, EventsOK, CallInv, NEW t \in Threads, SendStep(t)
  PROVE  /\ \A u \in Threads : OwnsRecv(u)' <=> OwnsRecv(u)
         /\ \A u \in Threads :
              pc[u] # pc'[u] =>
                /\ pc[u] \notin {"Disconnect", "RecvError", "DisconnectExError"}
                /\ pc'[u] \notin {"RecvError", "DisconnectExError"}
                /\ pc'[u] \notin OpenLabels
         /\ UNCHANGED <<isConnected, link, inService>>
         /\ posted'["RECV"] = posted["RECV"]
         /\ posted'["CONNECT"] = posted["CONNECT"]
         /\ ioErrorLogged => ioErrorLogged'
<1> USE DEF ThreadsOK, EventsOK, Events, CallInv, OwnsRecv, InDisconnect,
            SendLabels, Labels, Goto, Step, CallSend, ReturnFromSend,
            CallDisconnect, Post, OpenLabels, flagVars, serviceVars,
            registryVars, kernelVars, callVars
<1>1. CASE Broadcast(t)
  BY <1>1 DEF Broadcast
<1>2. CASE EndBroadcast(t)
  BY <1>2 DEF EndBroadcast
<1>3. CASE ObserveSend(t)
  BY <1>3 DEF ObserveSend, ObserveIO
<1>4. CASE Send(t)
  BY <1>4 DEF Send
<1>5. CASE Push(t)
  BY <1>5 DEF Push
<1>6. CASE RegisterSend(t)
  BY <1>6 DEF RegisterSend
<1>7. CASE Drain(t)
  BY <1>7 DEF Drain
<1>8. CASE WSASend(t)
  BY <1>8 DEF WSASend
<1>9. CASE SendError(t)
  BY <1>9 DEF SendError
<1>10. CASE ProcessSend(t)
  BY <1>10 DEF ProcessSend
<1>11. CASE OnSend(t)
  BY <1>11 DEF OnSend
<1> QED
  BY <1>1, <1>2, <1>3, <1>4, <1>5, <1>6, <1>7, <1>8, <1>9, <1>10, <1>11 DEF
     SendStep

\* A step of the receive path changes nobody's hold on the send side.
LEMMA RecvKeepsSend ==
  ASSUME ThreadsOK, EventsOK, NEW t \in Threads, RecvStep(t)
  PROVE  /\ \A u \in Threads :
              /\ OwnsSend(u)' <=> OwnsSend(u)
              /\ InRegisterSend(u)' <=> InRegisterSend(u)
              /\ InRegisterSend(u) \/ {pc[u], pc'[u]} \cap OpenLabels # {} =>
                   pc'[u] = pc[u]
         /\ UNCHANGED <<isConnected, sendRegistered, sendQueue, link>>
         /\ posted'["SEND"] = posted["SEND"]
         /\ posted'["CONNECT"] = posted["CONNECT"]
<1> USE DEF ThreadsOK, EventsOK, Events, OwnsSend, InRegisterSend,
            InDisconnect, OpenLabels, Goto, Step, CallSend, CallDisconnect,
            Post, flagVars, queueVars, kernelVars, callVars
<1>1. CASE ObserveRecv(t)
  BY <1>1 DEF ObserveRecv, ObserveIO
<1>2. CASE RegisterRecv(t)
  BY <1>2 DEF RegisterRecv
<1>3. CASE WSARecv(t)
  BY <1>3 DEF WSARecv
<1>4. CASE RecvError(t)
  BY <1>4 DEF RecvError
<1>5. CASE ProcessRecv(t)
  BY <1>5 DEF ProcessRecv
<1>6. CASE OnRecv(t)
  BY <1>6 DEF OnRecv
<1> QED
  BY <1>1, <1>2, <1>3, <1>4, <1>5, <1>6 DEF RecvStep

\* Nor does a step of the disconnect's completion.
LEMMA DisconnectKeepsSend ==
  ASSUME ThreadsOK, EventsOK, NEW t \in Threads, DisconnectStep(t),
         ~Disconnect(t)
  PROVE  /\ Opening' => Opening
         /\ \A u \in Threads :
              /\ OwnsSend(u)' <=> OwnsSend(u)
              /\ InRegisterSend(u)' /\ pc'[u] \notin {"RegisterSend", "Drain"}
                   => InRegisterSend(u) /\ pc[u] \notin {"RegisterSend", "Drain"}
         /\ UNCHANGED <<isConnected, sendRegistered, sendQueue>>
         /\ posted'["SEND"] = posted["SEND"]
<1> USE DEF ThreadsOK, EventsOK, Events, OwnsSend, InRegisterSend,
            InDisconnect, Opening, OpenLabels, Goto, Step,
            ReturnFromDisconnect, flagVars, queueVars, kernelVars, callVars
<1>1. CASE ObserveDisconnect(t)
  BY <1>1 DEF ObserveDisconnect, ObserveIO
<1>2. CASE DisconnectExError(t)
  BY <1>2 DEF DisconnectExError
<1>3. CASE ProcessDisconnect(t)
  BY <1>3 DEF ProcessDisconnect
<1>4. CASE OnDisconnected(t)
  BY <1>4 DEF OnDisconnected
<1>5. CASE RemoveSession(t)
  BY <1>5 DEF RemoveSession
<1> QED
  BY <1>1, <1>2, <1>3, <1>4, <1>5 DEF DisconnectStep

\* sendEvent has one owner at a time, and none while the kernel has it.
LEMMA SendPreserved ==
  ASSUME ThreadsOK, EventsOK, SendExclusive, [Next]_vars
  PROVE  SendExclusive'
<1> USE DEF SendExclusive, OwnsSend, ThreadsOK, EventsOK, Events, Labels,
            InDisconnect, Post, Goto, Step, CallSend, ReturnFromSend,
            CallDisconnect, ReturnFromDisconnect, flagVars, queueVars,
            eventVars, serviceVars, managerVars, registryVars, kernelVars,
            callVars, threadVars
<1>1. CASE RegisterConnect
  BY <1>1 DEF RegisterConnect
<1>2. CASE PeerClose
  BY <1>2 DEF PeerClose
<1>3. ASSUME NEW t \in Threads, ConnectStep(t) PROVE SendExclusive'
  BY <1>3, SMTT(60) DEF ConnectStep, ProcessAccept, ObserveConnect,
     ProcessConnect, AddSession, OnConnected, ObserveIO
<1>4. ASSUME NEW t \in Threads, RecvStep(t) PROVE SendExclusive'
  BY <1>4, SMTT(60) DEF RecvStep, ObserveRecv, RegisterRecv, WSARecv,
     RecvError, ProcessRecv, OnRecv, ObserveIO
<1>5. ASSUME NEW t \in Threads, SendStep(t) PROVE SendExclusive'
  <2>1. CASE ObserveSend(t)
    BY <2>1 DEF ObserveSend, ObserveIO
  <2>2. CASE Push(t)
    BY <2>2 DEF Push
  <2>3. CASE WSASend(t)
    BY <2>3 DEF WSASend
  <2>4. CASE SendError(t)
    BY <2>4 DEF SendError
  <2>5. CASE ProcessSend(t)
    BY <2>5 DEF ProcessSend
  <2>6. CASE OnSend(t)
    BY <2>6 DEF OnSend
  <2>7. CASE Broadcast(t) \/ EndBroadcast(t) \/ Send(t) \/ RegisterSend(t) \/
            Drain(t)
    BY <2>7, SMTT(60) DEF Broadcast, EndBroadcast, Send, RegisterSend, Drain
  <2> QED
    BY <1>5, <2>1, <2>2, <2>3, <2>4, <2>5, <2>6, <2>7 DEF SendStep
<1>6. ASSUME NEW t \in Threads, DisconnectStep(t) PROVE SendExclusive'
  <2>1. CASE Disconnect(t)
    BY <2>1 DEF Disconnect
  <2>2. CASE ObserveDisconnect(t) \/ DisconnectExError(t) \/
            ProcessDisconnect(t) \/ OnDisconnected(t) \/ RemoveSession(t)
    BY <2>2, SMTT(60) DEF ObserveDisconnect, DisconnectExError,
       ProcessDisconnect, OnDisconnected, RemoveSession, ObserveIO
  <2> QED
    BY <1>6, <2>1, <2>2 DEF DisconnectStep
<1>7. CASE UNCHANGED vars
  BY <1>7 DEF vars
<1> QED
  BY <1>1, <1>2, <1>3, <1>4, <1>5, <1>6, <1>7, NextCases

\* recvEvent and the receive buffer have one owner at a time, and none while
\* the kernel has the event or before there is a connection.
LEMMA RecvPreserved ==
  ASSUME ThreadsOK, EventsOK, CallInv, RecvInv, [Next]_vars
  PROVE  RecvInv'
<1> USE DEF RecvInv, RecvExclusive, OwnsRecv, CallInv, SendLabels, ThreadsOK,
            EventsOK, Events, Labels, InDisconnect, Post, Goto, Step,
            CallSend, ReturnFromSend, CallDisconnect, ReturnFromDisconnect,
            flagVars, queueVars, eventVars, serviceVars, managerVars,
            registryVars, kernelVars, callVars, threadVars
<1>1. CASE RegisterConnect
  BY <1>1 DEF RegisterConnect
<1>2. CASE PeerClose
  BY <1>2 DEF PeerClose
<1>3. ASSUME NEW t \in Threads, ConnectStep(t) PROVE RecvInv'
  <2>1. CASE ProcessAccept(t)
    BY <2>1 DEF ProcessAccept
  <2>2. CASE ObserveConnect(t)
    BY <2>2 DEF ObserveConnect, ObserveIO
  <2>3. CASE ProcessConnect(t) \/ AddSession(t) \/ OnConnected(t)
    BY <2>3, SMTT(60) DEF ProcessConnect, AddSession, OnConnected
  <2> QED
    BY <1>3, <2>1, <2>2, <2>3 DEF ConnectStep
<1>4. ASSUME NEW t \in Threads, RecvStep(t) PROVE RecvInv'
  <2>1. CASE ObserveRecv(t)
    BY <2>1 DEF ObserveRecv, ObserveIO
  <2>2. CASE WSARecv(t)
    BY <2>2 DEF WSARecv
  <2>3. CASE RegisterRecv(t) \/ RecvError(t) \/ ProcessRecv(t) \/ OnRecv(t)
    BY <2>3, SMTT(60) DEF RegisterRecv, RecvError, ProcessRecv, OnRecv
  <2> QED
    BY <1>4, <2>1, <2>2, <2>3 DEF RecvStep
<1>5. ASSUME NEW t \in Threads, SendStep(t) PROVE RecvInv'
  <2>1. \A u \in Threads : OwnsRecv(u)' <=> OwnsRecv(u)
    BY <1>5, SendKeepsRecv
  <2>2. /\ link' = link
        /\ posted'["RECV"] = posted["RECV"]
        /\ posted'["CONNECT"] = posted["CONNECT"]
    BY <1>5, SendKeepsRecv
  <2> HIDE DEF OwnsRecv
  <2> QED
    BY <2>1, <2>2
<1>6. ASSUME NEW t \in Threads, DisconnectStep(t) PROVE RecvInv'
  <2>1. CASE Disconnect(t)
    BY <2>1 DEF Disconnect
  <2>2. CASE ObserveDisconnect(t) \/ DisconnectExError(t) \/
            ProcessDisconnect(t) \/ OnDisconnected(t) \/ RemoveSession(t)
    BY <2>2, SMTT(60) DEF ObserveDisconnect, DisconnectExError,
       ProcessDisconnect, OnDisconnected, RemoveSession, ObserveIO
  <2> QED
    BY <1>6, <2>1, <2>2 DEF DisconnectStep
<1>7. CASE UNCHANGED vars
  BY <1>7 DEF vars
<1> QED
  BY <1>1, <1>2, <1>3, <1>4, <1>5, <1>6, <1>7, NextCases

\* Only sendEvent's owner changes sendBuffers, and never while the kernel
\* reads them.
LEMMA InFlightPreserved ==
  ASSUME ThreadsOK, EventsOK, SendExclusive, InFlightRetained, [Next]_vars
  PROVE  InFlightRetained'
<1> USE DEF InFlightRetained, SendExclusive, OwnsSend, ThreadsOK, EventsOK,
            Events, Labels, InDisconnect, Post, Goto, Step, CallSend,
            ReturnFromSend, CallDisconnect, ReturnFromDisconnect, flagVars,
            queueVars, eventVars, serviceVars, managerVars, registryVars,
            kernelVars, callVars, threadVars
<1>1. CASE RegisterConnect
  BY <1>1 DEF RegisterConnect
<1>2. CASE PeerClose
  BY <1>2 DEF PeerClose
<1>3. ASSUME NEW t \in Threads, ConnectStep(t) PROVE InFlightRetained'
  BY <1>3, SMTT(60) DEF ConnectStep, ProcessAccept, ObserveConnect,
     ProcessConnect, AddSession, OnConnected, ObserveIO
<1>4. ASSUME NEW t \in Threads, RecvStep(t) PROVE InFlightRetained'
  BY <1>4, SMTT(60) DEF RecvStep, ObserveRecv, RegisterRecv, WSARecv,
     RecvError, ProcessRecv, OnRecv, ObserveIO
<1>5. ASSUME NEW t \in Threads, SendStep(t) PROVE InFlightRetained'
  <2>1. CASE ObserveSend(t)
    BY <2>1 DEF ObserveSend, ObserveIO
  <2>2. CASE Drain(t)
    BY <2>2 DEF Drain
  <2>3. CASE WSASend(t)
    BY <2>3 DEF WSASend
  <2>4. CASE SendError(t)
    BY <2>4 DEF SendError
  <2>5. CASE ProcessSend(t)
    BY <2>5 DEF ProcessSend
  <2>6. CASE Broadcast(t) \/ EndBroadcast(t) \/ Send(t) \/ Push(t) \/
            RegisterSend(t) \/ OnSend(t)
    BY <2>6, SMTT(60) DEF Broadcast, EndBroadcast, Send, Push, RegisterSend,
       OnSend
  <2> QED
    BY <1>5, <2>1, <2>2, <2>3, <2>4, <2>5, <2>6 DEF SendStep
<1>6. ASSUME NEW t \in Threads, DisconnectStep(t) PROVE InFlightRetained'
  BY <1>6, SMTT(60) DEF DisconnectStep, ObserveDisconnect, Disconnect,
     DisconnectExError, ProcessDisconnect, OnDisconnected, RemoveSession,
     ObserveIO
<1>7. CASE UNCHANGED vars
  BY <1>7 DEF vars
<1> QED
  BY <1>1, <1>2, <1>3, <1>4, <1>5, <1>6, <1>7, NextCases

\* While the connection is being opened nobody but the opening thread acts
\* on the session.
LEMMA OpenPreserved ==
  ASSUME ThreadsOK, EventsOK, CallInv, RecvInv, OpenInv, [Next]_vars
  PROVE  OpenInv'
<1> USE DEF OpenInv, Opening, Unlisted, Fresh, OpenLabels, RecvInv,
            RecvExclusive, OwnsRecv, CallInv, SendLabels, ThreadsOK, EventsOK,
            Events, Labels, InDisconnect, Post, Goto, Step, CallSend,
            ReturnFromSend, CallDisconnect, ReturnFromDisconnect, flagVars,
            queueVars, eventVars, serviceVars, managerVars, registryVars,
            kernelVars, callVars, threadVars
<1>1. CASE RegisterConnect
  BY <1>1 DEF RegisterConnect
<1>2. CASE PeerClose
  BY <1>2 DEF PeerClose
<1>3. ASSUME NEW t \in Threads, ConnectStep(t) PROVE OpenInv'
  <2>1. CASE ProcessAccept(t)
    BY <2>1 DEF ProcessAccept
  <2>2. CASE ObserveConnect(t)
    BY <2>2 DEF ObserveConnect, ObserveIO
  <2>3. CASE ProcessConnect(t)
    BY <2>3 DEF ProcessConnect
  <2>4. CASE AddSession(t)
    BY <2>4 DEF AddSession
  <2>5. CASE OnConnected(t)
    BY <2>5 DEF OnConnected
  <2> QED
    BY <1>3, <2>1, <2>2, <2>3, <2>4, <2>5 DEF ConnectStep
<1>4. ASSUME NEW t \in Threads, RecvStep(t) PROVE OpenInv'
  BY <1>4, SMTT(60) DEF RecvStep, ObserveRecv, RegisterRecv, WSARecv,
     RecvError, ProcessRecv, OnRecv, ObserveIO
<1>5. ASSUME NEW t \in Threads, SendStep(t) PROVE OpenInv'
  <2>1. \/ pc[t] \notin OpenLabels \cup {"idle", "crashed"}
        \/ inManager \/ posted["SEND"] > 0
    BY <1>5 DEF SendStep, Broadcast, EndBroadcast, ObserveSend, Send, Push,
       RegisterSend, Drain, WSASend, SendError, ProcessSend, OnSend, ObserveIO
  <2>2. ~Opening
    BY <2>1
  <2>3. \A u \in Threads : pc'[u] \in OpenLabels => pc'[u] = pc[u]
    BY <1>5, SendKeepsRecv
  <2>4. UNCHANGED <<link, inService>> /\ posted'["CONNECT"] = posted["CONNECT"]
    BY <1>5, SendKeepsRecv
  <2> QED
    BY <2>2, <2>3, <2>4
<1>6. ASSUME NEW t \in Threads, DisconnectStep(t) PROVE OpenInv'
  BY <1>6, SMTT(60) DEF DisconnectStep, ObserveDisconnect, Disconnect,
     DisconnectExError, ProcessDisconnect, OnDisconnected, RemoveSession,
     ObserveIO
<1>7. CASE UNCHANGED vars
  BY <1>7 DEF vars
<1> QED
  BY <1>1, <1>2, <1>3, <1>4, <1>5, <1>6, <1>7, NextCases

\* There is at most one disconnect, of a session that was listed.
LEMMA DiscPreserved ==
  ASSUME ThreadsOK, EventsOK, RegistryConsistent, OpenInv, DiscInv,
         [Next]_vars
  PROVE  DiscInv'
<1> USE DEF DiscInv, DiscLabels, RegistryConsistent, OpenInv, Opening,
            Unlisted, Fresh, OpenLabels, ThreadsOK, EventsOK, Events, Labels,
            InDisconnect, Post, Goto, Step, CallSend, ReturnFromSend,
            CallDisconnect, ReturnFromDisconnect, flagVars, queueVars,
            eventVars, serviceVars, managerVars, registryVars, kernelVars,
            callVars, threadVars
<1>1. CASE RegisterConnect
  BY <1>1 DEF RegisterConnect
<1>2. CASE PeerClose
  BY <1>2 DEF PeerClose
<1>3. ASSUME NEW t \in Threads, ConnectStep(t) PROVE DiscInv'
  <2>1. CASE ProcessConnect(t)
    BY <2>1 DEF ProcessConnect
  <2>2. CASE AddSession(t)
    BY <2>2 DEF AddSession
  <2>3. CASE OnConnected(t)
    BY <2>3 DEF OnConnected
  <2>4. CASE ProcessAccept(t) \/ ObserveConnect(t)
    BY <2>4, SMTT(60) DEF ProcessAccept, ObserveConnect, ObserveIO
  <2> QED
    BY <1>3, <2>1, <2>2, <2>3, <2>4 DEF ConnectStep
<1>4. ASSUME NEW t \in Threads, RecvStep(t) PROVE DiscInv'
  BY <1>4, SMTT(60) DEF RecvStep, ObserveRecv, RegisterRecv, WSARecv,
     RecvError, ProcessRecv, OnRecv, ObserveIO
<1>5. ASSUME NEW t \in Threads, SendStep(t) PROVE DiscInv'
  BY <1>5, SMTT(60) DEF SendStep, Broadcast, EndBroadcast, ObserveSend, Send,
     Push, RegisterSend, Drain, WSASend, SendError, ProcessSend, OnSend,
     ObserveIO
<1>6. ASSUME NEW t \in Threads, DisconnectStep(t) PROVE DiscInv'
  <2>1. CASE ObserveDisconnect(t)
    BY <2>1 DEF ObserveDisconnect, ObserveIO
  <2>2. CASE Disconnect(t)
    BY <2>2 DEF Disconnect
  <2>3. CASE RemoveSession(t)
    BY <2>3 DEF RemoveSession
  <2>4. CASE DisconnectExError(t) \/ ProcessDisconnect(t) \/ OnDisconnected(t)
    BY <2>4, SMTT(60) DEF DisconnectExError, ProcessDisconnect, OnDisconnected
  <2> QED
    BY <1>6, <2>1, <2>2, <2>3, <2>4 DEF DisconnectStep
<1>7. CASE UNCHANGED vars
  BY <1>7 DEF vars
<1> QED
  BY <1>1, <1>2, <1>3, <1>4, <1>5, <1>6, <1>7, NextCases

\* The registries agree.
LEMMA RegistryPreserved ==
  ASSUME ThreadsOK, EventsOK, OpenInv, DiscInv, RegistryConsistent,
         [Next]_vars
  PROVE  RegistryConsistent'
<1> USE DEF RegistryConsistent, DiscInv, DiscLabels, OpenInv, Opening,
            Unlisted, Fresh, OpenLabels, ThreadsOK, EventsOK, Events, Labels,
            InDisconnect, Post, Goto, Step, CallSend, ReturnFromSend,
            CallDisconnect, ReturnFromDisconnect, flagVars, queueVars,
            eventVars, serviceVars, managerVars, registryVars, kernelVars,
            callVars, threadVars
<1>1. CASE RegisterConnect
  BY <1>1 DEF RegisterConnect
<1>2. CASE PeerClose
  BY <1>2 DEF PeerClose
<1>3. ASSUME NEW t \in Threads, ConnectStep(t) PROVE RegistryConsistent'
  <2>1. CASE ProcessConnect(t)
    BY <2>1 DEF ProcessConnect
  <2>2. CASE AddSession(t)
    BY <2>2 DEF AddSession
  <2>3. CASE OnConnected(t)
    BY <2>3 DEF OnConnected
  <2>4. CASE ProcessAccept(t) \/ ObserveConnect(t)
    BY <2>4, SMTT(60) DEF ProcessAccept, ObserveConnect, ObserveIO
  <2> QED
    BY <1>3, <2>1, <2>2, <2>3, <2>4 DEF ConnectStep
<1>4. ASSUME NEW t \in Threads, RecvStep(t) PROVE RegistryConsistent'
  BY <1>4, SMTT(60) DEF RecvStep, ObserveRecv, RegisterRecv, WSARecv,
     RecvError, ProcessRecv, OnRecv, ObserveIO
<1>5. ASSUME NEW t \in Threads, SendStep(t) PROVE RegistryConsistent'
  BY <1>5, SMTT(60) DEF SendStep, Broadcast, EndBroadcast, ObserveSend, Send,
     Push, RegisterSend, Drain, WSASend, SendError, ProcessSend, OnSend,
     ObserveIO
<1>6. ASSUME NEW t \in Threads, DisconnectStep(t) PROVE RegistryConsistent'
  <2>1. CASE Disconnect(t)
    BY <2>1 DEF Disconnect
  <2>2. CASE ProcessDisconnect(t)
    BY <2>2 DEF ProcessDisconnect
  <2>3. CASE OnDisconnected(t)
    BY <2>3 DEF OnDisconnected
  <2>4. CASE RemoveSession(t)
    BY <2>4 DEF RemoveSession
  <2>5. CASE ObserveDisconnect(t) \/ DisconnectExError(t)
    BY <2>5, SMTT(60) DEF ObserveDisconnect, DisconnectExError, ObserveIO
  <2> QED
    BY <1>6, <2>1, <2>2, <2>3, <2>4, <2>5 DEF DisconnectStep
<1>7. CASE UNCHANGED vars
  BY <1>7 DEF vars
<1> QED
  BY <1>1, <1>2, <1>3, <1>4, <1>5, <1>6, <1>7, NextCases

\* An event the kernel holds keeps the session alive.
LEMMA HoldPreserved ==
  ASSUME FlagsOK, ThreadsOK, EventsOK, RecvInv, SendExclusive, DiscInv,
         HoldInv, [Next]_vars
  PROVE  HoldInv'
<1> USE DEF HoldInv, EventHoldsSession, FlagsOK, DiscInv, DiscLabels, RecvInv,
            RecvExclusive, OwnsRecv, SendExclusive, OwnsSend, ThreadsOK,
            EventsOK, Events, Labels, InDisconnect, Post, Goto, Step,
            CallSend, ReturnFromSend, CallDisconnect, ReturnFromDisconnect,
            flagVars, queueVars, eventVars, serviceVars, managerVars,
            registryVars, kernelVars, callVars, threadVars
<1>1. CASE RegisterConnect
  <2>1. \A e \in Events \ {"CONNECT"} :
          iocpObj'[e] = iocpObj[e] /\ posted'[e] = posted[e]
    BY <1>1 DEF RegisterConnect
  <2>2. posted'["CONNECT"] > 0 => iocpObj'["CONNECT"]
    BY <1>1 DEF RegisterConnect
  <2>3. UNCHANGED pc
    BY <1>1 DEF RegisterConnect
  <2> QED
    BY <2>1, <2>2, <2>3
<1>2. CASE PeerClose
  BY <1>2 DEF PeerClose
<1>3. ASSUME NEW t \in Threads, ConnectStep(t) PROVE HoldInv'
  <2>1. CASE ProcessConnect(t)
    BY <2>1 DEF ProcessConnect
  <2>2. CASE ProcessAccept(t) \/ ObserveConnect(t) \/ AddSession(t) \/
            OnConnected(t)
    BY <2>2, SMTT(60) DEF ProcessAccept, ObserveConnect, AddSession,
       OnConnected, ObserveIO
  <2> QED
    BY <1>3, <2>1, <2>2 DEF ConnectStep
<1>4. ASSUME NEW t \in Threads, RecvStep(t) PROVE HoldInv'
  <2>1. CASE RegisterRecv(t)
    <3>1. CASE isConnected
      <4>1. iocpObj' = [iocpObj EXCEPT !["RECV"] = TRUE] /\ UNCHANGED posted
        BY <2>1, <3>1 DEF RegisterRecv
      <4>2. pc' = [pc EXCEPT ![t] = "WSARecv"]
        BY <2>1, <3>1 DEF RegisterRecv
      <4> QED
        BY <4>1, <4>2
    <3>2. CASE ~isConnected
      BY <2>1, <3>2 DEF RegisterRecv
    <3> QED
      BY <3>1, <3>2
  <2>2. CASE WSARecv(t)
    BY <2>2 DEF WSARecv
  <2>3. CASE RecvError(t)
    BY <2>3 DEF RecvError
  <2>4. CASE ProcessRecv(t)
    BY <2>4 DEF ProcessRecv
  <2>5. CASE ObserveRecv(t) \/ OnRecv(t)
    BY <2>5, SMTT(60) DEF ObserveRecv, OnRecv, ObserveIO
  <2> QED
    BY <1>4, <2>1, <2>2, <2>3, <2>4, <2>5 DEF RecvStep
<1>5. ASSUME NEW t \in Threads, SendStep(t) PROVE HoldInv'
  <2>1. CASE ObserveSend(t)
    BY <2>1 DEF ObserveSend, ObserveIO
  <2>2. CASE Push(t)
    BY <2>2 DEF Push
  <2>3. CASE RegisterSend(t)
    BY <2>3 DEF RegisterSend
  <2>4. CASE Drain(t)
    BY <2>4 DEF Drain
  <2>5. CASE WSASend(t)
    BY <2>5 DEF WSASend
  <2>6. CASE SendError(t)
    <3>1. posted["SEND"] = 0 /\ UNCHANGED posted
      BY <2>6 DEF SendError
    <3>2. \A u \in Threads : pc'[u] \notin {"Drain", "WSASend"}
      BY <2>6 DEF SendError
    <3>3. \A u \in Threads :
            pc'[u] \in {"WSARecv", "DisconnectExError"} => pc'[u] = pc[u]
      BY <2>6 DEF SendError
    <3>4. \A e \in Events \ {"SEND"} : iocpObj'[e] = iocpObj[e]
      BY <2>6 DEF SendError
    <3> QED
      BY <3>1, <3>2, <3>3, <3>4
  <2>7. CASE ProcessSend(t)
    BY <2>7 DEF ProcessSend
  <2>8. CASE OnSend(t)
    BY <2>8 DEF OnSend
  <2>9. CASE Broadcast(t) \/ EndBroadcast(t) \/ Send(t)
    BY <2>9, SMTT(60) DEF Broadcast, EndBroadcast, Send
  <2> QED
    BY <1>5, <2>1, <2>2, <2>3, <2>4, <2>5, <2>6, <2>7, <2>8, <2>9 DEF SendStep
<1>6. ASSUME NEW t \in Threads, DisconnectStep(t) PROVE HoldInv'
  <2>1. CASE Disconnect(t)
    BY <2>1 DEF Disconnect
  <2>2. CASE DisconnectExError(t)
    BY <2>2 DEF DisconnectExError
  <2>3. CASE ProcessDisconnect(t)
    BY <2>3 DEF ProcessDisconnect
  <2>4. CASE ObserveDisconnect(t) \/ OnDisconnected(t) \/ RemoveSession(t)
    BY <2>4, SMTT(60) DEF ObserveDisconnect, OnDisconnected, RemoveSession,
       ObserveIO
  <2> QED
    BY <1>6, <2>1, <2>2, <2>3, <2>4 DEF DisconnectStep
<1>7. CASE UNCHANGED vars
  BY <1>7 DEF vars
<1> QED
  BY <1>1, <1>2, <1>3, <1>4, <1>5, <1>6, <1>7, NextCases

\* A lock is held only by a thread inside its locked section.
LEMMA LockPreserved ==
  ASSUME ThreadsOK, CallInv, LockInv, [Next]_vars
  PROVE  LockInv'
<1> USE SessionAssumption DEF LockInv, InRegisterSend, CallInv, SendLabels,
            ThreadsOK, Labels, InDisconnect, ReleaseIfHeld, Goto, Step,
            CallSend, ReturnFromSend, CallDisconnect, ReturnFromDisconnect,
            flagVars, queueVars, eventVars, serviceVars, managerVars,
            registryVars, kernelVars, callVars, threadVars
<1>1. CASE RegisterConnect
  BY <1>1 DEF RegisterConnect
<1>2. CASE PeerClose
  BY <1>2 DEF PeerClose
<1>3. ASSUME NEW t \in Threads, ConnectStep(t) PROVE LockInv'
  BY <1>3, SMTT(60) DEF ConnectStep, ProcessAccept, ObserveConnect,
     ProcessConnect, AddSession, OnConnected, ObserveIO
<1>4. ASSUME NEW t \in Threads, RecvStep(t) PROVE LockInv'
  BY <1>4, SMTT(60) DEF RecvStep, ObserveRecv, RegisterRecv, WSARecv,
     RecvError, ProcessRecv, OnRecv, ObserveIO
<1>5. ASSUME NEW t \in Threads, SendStep(t) PROVE LockInv'
  <2>1. CASE Broadcast(t)
    BY <2>1 DEF Broadcast
  <2>2. CASE EndBroadcast(t)
    BY <2>2 DEF EndBroadcast
  <2>3. CASE WSASend(t)
    BY <2>3 DEF WSASend
  <2>4. CASE OnSend(t)
    BY <2>4 DEF OnSend
  <2>5. CASE ObserveSend(t) \/ Send(t) \/ Push(t) \/ RegisterSend(t) \/
            Drain(t) \/ SendError(t) \/ ProcessSend(t)
    BY <2>5, SMTT(60) DEF ObserveSend, Send, Push, RegisterSend, Drain,
       SendError, ProcessSend, ObserveIO
  <2> QED
    BY <1>5, <2>1, <2>2, <2>3, <2>4, <2>5 DEF SendStep
<1>6. ASSUME NEW t \in Threads, DisconnectStep(t) PROVE LockInv'
  BY <1>6, SMTT(60) DEF DisconnectStep, ObserveDisconnect, Disconnect,
     DisconnectExError, ProcessDisconnect, OnDisconnected, RemoveSession,
     ObserveIO
<1>7. CASE UNCHANGED vars
  BY <1>7 DEF vars
<1> QED
  BY <1>1, <1>2, <1>3, <1>4, <1>5, <1>6, <1>7, NextCases

\* A connected session always has a receive posted or about to be.
LEMMA RearmPreserved ==
  ASSUME ThreadsOK, EventsOK, CallInv, RecvInv, OpenInv, HoldInv, RearmInv,
         [Next]_vars
  PROVE  RearmInv'
<1> USE DEF RearmInv, RecvArmed, HoldInv, EventHoldsSession, OpenInv, Opening,
            Unlisted, Fresh, OpenLabels, OwnsRecv, RecvInv, RecvExclusive,
            ThreadsOK, EventsOK, Events, Labels, InDisconnect, Post, Goto,
            Step, CallSend, ReturnFromSend, CallDisconnect,
            ReturnFromDisconnect, flagVars, queueVars, eventVars, serviceVars,
            managerVars, registryVars, kernelVars, callVars, threadVars
<1>1. CASE RegisterConnect
  BY <1>1 DEF RegisterConnect
<1>2. CASE PeerClose
  BY <1>2 DEF PeerClose
<1>3. ASSUME NEW t \in Threads, ConnectStep(t) PROVE RearmInv'
  BY <1>3, SMTT(60) DEF ConnectStep, ProcessAccept, ObserveConnect,
     ProcessConnect, AddSession, OnConnected, ObserveIO
<1>4. ASSUME NEW t \in Threads, RecvStep(t) PROVE RearmInv'
  <2>1. CASE ObserveRecv(t)
    BY <2>1 DEF ObserveRecv, ObserveIO
  <2>2. CASE WSARecv(t)
    BY <2>2 DEF WSARecv
  <2>3. CASE RegisterRecv(t) \/ RecvError(t) \/ ProcessRecv(t) \/ OnRecv(t)
    BY <2>3, SMTT(60) DEF RegisterRecv, RecvError, ProcessRecv, OnRecv
  <2> QED
    BY <1>4, <2>1, <2>2, <2>3 DEF RecvStep
<1>5. ASSUME NEW t \in Threads, SendStep(t) PROVE RearmInv'
  <2>1. \A u \in Threads : OwnsRecv(u)' <=> OwnsRecv(u)
    BY <1>5, SendKeepsRecv
  <2>2. \A u \in Threads :
          pc[u] # pc'[u] =>
            /\ pc[u] \notin {"Disconnect", "RecvError", "DisconnectExError"}
            /\ pc'[u] \notin {"RecvError", "DisconnectExError"}
    BY <1>5, SendKeepsRecv
  <2>3. isConnected' = isConnected /\ posted'["RECV"] = posted["RECV"]
    BY <1>5, SendKeepsRecv
  <2>4. ioErrorLogged => ioErrorLogged'
    BY <1>5, SendKeepsRecv
  <2> HIDE DEF OwnsRecv
  <2> QED
    BY <2>1, <2>2, <2>3, <2>4
<1>6. ASSUME NEW t \in Threads, DisconnectStep(t) PROVE RearmInv'
  <2>1. CASE Disconnect(t)
    BY <2>1 DEF Disconnect
  <2>2. CASE ObserveDisconnect(t) \/ DisconnectExError(t) \/
            ProcessDisconnect(t) \/ OnDisconnected(t) \/ RemoveSession(t)
    BY <2>2, SMTT(60) DEF ObserveDisconnect, DisconnectExError,
       ProcessDisconnect, OnDisconnected, RemoveSession, ObserveIO
  <2> QED
    BY <1>6, <2>1, <2>2 DEF DisconnectStep
<1>7. CASE UNCHANGED vars
  BY <1>7 DEF vars
<1> QED
  BY <1>1, <1>2, <1>3, <1>4, <1>5, <1>6, <1>7, NextCases

\* Without Broadcast a thread in RegisterSend holds rwLock or is the one
\* that receives.
LEMMA SenderPreserved ==
  ASSUME ThreadsOK, CallInv, SenderInv, [Next]_vars
  PROVE  SenderInv'
<1> USE SessionAssumption DEF SenderInv, InRegisterSend, CallInv, SendLabels,
            ThreadsOK, Labels, InDisconnect, ReleaseIfHeld, Goto, Step,
            CallSend, ReturnFromSend, CallDisconnect, ReturnFromDisconnect,
            flagVars, queueVars, eventVars, serviceVars, managerVars,
            registryVars, kernelVars, callVars, threadVars
<1>1. CASE RegisterConnect
  BY <1>1 DEF RegisterConnect
<1>2. CASE PeerClose
  BY <1>2 DEF PeerClose
<1>3. ASSUME NEW t \in Threads, ConnectStep(t) PROVE SenderInv'
  BY <1>3, SMTT(60) DEF ConnectStep, ProcessAccept, ObserveConnect,
     ProcessConnect, AddSession, OnConnected, ObserveIO
<1>4. ASSUME NEW t \in Threads, RecvStep(t) PROVE SenderInv'
  BY <1>4, SMTT(60) DEF RecvStep, ObserveRecv, RegisterRecv, WSARecv,
     RecvError, ProcessRecv, OnRecv, ObserveIO
<1>5. ASSUME NEW t \in Threads, SendStep(t) PROVE SenderInv'
  <2>1. CASE Push(t)
    BY <2>1 DEF Push
  <2>2. CASE WSASend(t)
    BY <2>2 DEF WSASend
  <2>3. CASE OnSend(t)
    BY <2>3 DEF OnSend
  <2>4. CASE Broadcast(t) \/ EndBroadcast(t) \/ ObserveSend(t) \/ Send(t) \/
            RegisterSend(t) \/ Drain(t) \/ SendError(t) \/ ProcessSend(t)
    BY <2>4, SMTT(60) DEF Broadcast, EndBroadcast, ObserveSend, Send,
       RegisterSend, Drain, SendError, ProcessSend, ObserveIO
  <2> QED
    BY <1>5, <2>1, <2>2, <2>3, <2>4 DEF SendStep
<1>6. ASSUME NEW t \in Threads, DisconnectStep(t) PROVE SenderInv'
  BY <1>6, SMTT(60) DEF DisconnectStep, ObserveDisconnect, Disconnect,
     DisconnectExError, ProcessDisconnect, OnDisconnected, RemoveSession,
     ObserveIO
<1>7. CASE UNCHANGED vars
  BY <1>7 DEF vars
<1> QED
  BY <1>1, <1>2, <1>3, <1>4, <1>5, <1>6, <1>7, NextCases

\* Without Broadcast a thread that pushes and a thread that drains unlocked
\* would both be the one that receives.
LEMMA RaceFree ==
  ASSUME ~AppBroadcasts, ThreadsOK, RecvInv, SenderInv
  PROVE  NoQueueRace
<1> SUFFICES ASSUME rwLock = NoThread, NEW t \in Threads, pc[t] = "Drain",
                    NEW u \in Threads, pc[u] = "Push"
             PROVE  FALSE
  BY DEF NoQueueRace, DrainingUnlocked
<1>1. sendRet[t] \in {"RegisterRecv", "OnRecv"}
  BY SessionAssumption DEF SenderInv, InRegisterSend, ThreadsOK
<1>2. sendRet[u] \in {"RegisterRecv", "OnRecv"}
  BY DEF SenderInv, ThreadsOK
<1> QED
  BY <1>1, <1>2 DEF RecvInv, RecvExclusive, OwnsRecv

\* Without Broadcast no pop finds a destroyed element.
LEMMA GhostPreserved ==
  ASSUME ThreadsOK, QueuesOK, RecvInv, SenderInv, GhostFree, [Next]_vars
  PROVE  GhostFree'
<1> USE DEF GhostFree, flagVars, queueVars, eventVars, serviceVars,
            managerVars, registryVars, kernelVars, callVars, threadVars
<1>1. CASE RegisterConnect
  BY <1>1 DEF RegisterConnect
<1>2. CASE PeerClose
  BY <1>2 DEF PeerClose
<1>3. ASSUME NEW t \in Threads, ConnectStep(t) PROVE GhostFree'
  BY <1>3, SMTT(60) DEF ConnectStep, ProcessAccept, ObserveConnect,
     ProcessConnect, AddSession, OnConnected, ObserveIO
<1>4. ASSUME NEW t \in Threads, RecvStep(t) PROVE GhostFree'
  BY <1>4, SMTT(60) DEF RecvStep, ObserveRecv, RegisterRecv, WSARecv,
     RecvError, ProcessRecv, OnRecv, ObserveIO
<1>5. ASSUME NEW t \in Threads, SendStep(t) PROVE GhostFree'
  <2>1. CASE Push(t)
    <3> SUFFICES ASSUME ~AppBroadcasts PROVE sendQueue' \in Seq(Nat \ {Ghost})
      OBVIOUS
    <3>1. ~DrainingUnlocked
      BY <2>1, RaceFree DEF NoQueueRace, Push
    <3>2. sendQueue' = Append(sendQueue, accepted + 1)
      BY <2>1, <3>1 DEF Push, PushOutcomes
    <3>3. accepted + 1 \in Nat \ {Ghost}
      BY DEF QueuesOK, Ghost
    <3> QED
      BY <3>2, <3>3
  <2>2. CASE Drain(t)
    <3> SUFFICES ASSUME ~AppBroadcasts PROVE sendQueue' \in Seq(Nat \ {Ghost})
      OBVIOUS
    <3>1. sendQueue # << >> => Tail(sendQueue) \in Seq(Nat \ {Ghost})
      OBVIOUS
    <3> QED
      BY <2>2, <3>1 DEF Drain
  <2>3. CASE Broadcast(t) \/ EndBroadcast(t) \/ ObserveSend(t) \/ Send(t) \/
            RegisterSend(t) \/ WSASend(t) \/ SendError(t) \/ ProcessSend(t) \/
            OnSend(t)
    BY <2>3, SMTT(60) DEF Broadcast, EndBroadcast, ObserveSend, Send,
       RegisterSend, WSASend, SendError, ProcessSend, OnSend, ObserveIO
  <2> QED
    BY <1>5, <2>1, <2>2, <2>3 DEF SendStep
<1>6. ASSUME NEW t \in Threads, DisconnectStep(t) PROVE GhostFree'
  BY <1>6, SMTT(60) DEF DisconnectStep, ObserveDisconnect, Disconnect,
     DisconnectExError, ProcessDisconnect, OnDisconnected, RemoveSession,
     ObserveIO
<1>7. CASE UNCHANGED vars
  BY <1>7 DEF vars
<1> QED
  BY <1>1, <1>2, <1>3, <1>4, <1>5, <1>6, <1>7, NextCases

\* Without Broadcast the queue is never left without a sender.
LEMMA QueuePreserved ==
  ASSUME ThreadsOK, EventsOK, RecvInv, SendExclusive, OpenInv, HoldInv,
         SenderInv, GhostFree, QueueInv, [Next]_vars
  PROVE  QueueInv'
<1> USE SessionAssumption DEF QueueInv, SenderInv, InRegisterSend, RecvInv,
            RecvExclusive, OwnsRecv, HoldInv, EventHoldsSession,
            SendExclusive, OwnsSend, OpenInv, Opening, OpenLabels, ThreadsOK,
            EventsOK, Events, Labels, InDisconnect, Post, ReleaseIfHeld, Goto,
            Step, CallSend, ReturnFromSend, CallDisconnect,
            ReturnFromDisconnect, flagVars, queueVars, eventVars, serviceVars,
            managerVars, registryVars, kernelVars, callVars, threadVars
<1>1. CASE RegisterConnect
  BY <1>1 DEF RegisterConnect
<1>2. CASE PeerClose
  BY <1>2 DEF PeerClose
<1>3. ASSUME NEW t \in Threads, ConnectStep(t) PROVE QueueInv'
  <2>1. CASE ProcessConnect(t)
    BY <2>1 DEF ProcessConnect
  <2>2. CASE ProcessAccept(t) \/ ObserveConnect(t) \/ AddSession(t) \/
            OnConnected(t)
    BY <2>2, SMTT(60) DEF ProcessAccept, ObserveConnect, AddSession,
       OnConnected, ObserveIO
  <2> QED
    BY <1>3, <2>1, <2>2 DEF ConnectStep
<1>4. ASSUME NEW t \in Threads, RecvStep(t) PROVE QueueInv'
  <2>1. \A u \in Threads :
          /\ OwnsSend(u)' <=> OwnsSend(u)
          /\ InRegisterSend(u)' <=> InRegisterSend(u)
          /\ InRegisterSend(u) => pc'[u] = pc[u]
    BY <1>4, RecvKeepsSend
  <2>2. \A u \in Threads : pc'[u] \in OpenLabels => pc'[u] = pc[u]
    BY <1>4, RecvKeepsSend
  <2>3. /\ UNCHANGED <<isConnected, sendRegistered, sendQueue, link>>
        /\ posted'["SEND"] = posted["SEND"]
        /\ posted'["CONNECT"] = posted["CONNECT"]
    BY <1>4, RecvKeepsSend
  <2>4. Opening' => Opening
    BY <2>2, <2>3
  <2> HIDE DEF OwnsSend, InRegisterSend, Opening, OpenInv, SendExclusive,
               RecvInv, HoldInv, SenderInv
  <2> QED
    BY <2>1, <2>3, <2>4
<1>5. ASSUME NEW t \in Threads, SendStep(t) PROVE QueueInv'
  <2>1. CASE Broadcast(t)
    BY <2>1 DEF Broadcast
  <2>2. CASE EndBroadcast(t)
    <3>1. pc[t] = "EndBroadcast" /\ pc' = [pc EXCEPT ![t] = "idle"]
      BY <2>2 DEF EndBroadcast
    <3>2. UNCHANGED <<isConnected, sendRegistered, sendQueue, link, posted,
                      discRet>>
      BY <2>2 DEF EndBroadcast
    <3>3. (Opening' => Opening) /\ \A u \in Threads :
            /\ OwnsSend(u)' <=> OwnsSend(u)
            /\ InRegisterSend(u)' => InRegisterSend(u) /\ pc'[u] = pc[u]
      BY <3>1, <3>2
    <3> HIDE DEF OwnsSend, InRegisterSend, Opening, OpenInv, SendExclusive,
                 RecvInv, HoldInv, SenderInv
    <3> QED
      BY <3>2, <3>3
  <2>3. CASE ObserveSend(t)
    BY <2>3 DEF ObserveSend, ObserveIO
  <2>4. CASE Send(t)
    BY <2>4 DEF Send
  <2>5. CASE Push(t)
    <3> SUFFICES ASSUME ~AppBroadcasts PROVE QueueInv'
      OBVIOUS
    <3>1. OwnsRecv(t) /\ rwLock = NoThread
      BY <2>5 DEF Push
    <3>2. ASSUME NEW u \in Threads, InRegisterSend(u)
          PROVE  FALSE
      <4>1. sendRet[u] \in {"RegisterRecv", "OnRecv"}
        BY <3>1, <3>2
      <4>2. u = t
        BY <3>1, <4>1
      <4> QED
        BY <2>5, <3>2, <4>2 DEF Push
    <3>3. ASSUME NEW u \in Threads, InRegisterSend(u)'
          PROVE  pc'[u] = "RegisterSend"
      <4>1. CASE u = t
        BY <2>5, <3>3, <4>1 DEF Push
      <4>2. CASE u # t
        BY <2>5, <3>2, <3>3, <4>2 DEF Push
      <4> QED
        BY <4>1, <4>2
    <3>4. ~Opening'
      BY <2>5 DEF Push
    <3>5. isConnected' => posted'["SEND"] > 0 \/ \E u \in Threads : OwnsSend(u)'
      BY <2>5 DEF Push
    <3> QED
      BY <3>3, <3>4, <3>5
  <2>6. CASE RegisterSend(t)
    BY <2>6 DEF RegisterSend
  <2>7. CASE Drain(t)
    <3> SUFFICES ASSUME ~AppBroadcasts PROVE QueueInv'
      OBVIOUS
    <3>1. ~Opening'
      BY <2>7 DEF Drain
    <3>2. sendQueue # << >> => Head(sendQueue) # Ghost
      BY DEF GhostFree
    <3>3. pc'[t] \in {"Drain", "WSASend"}
      BY <2>7, <3>2 DEF Drain
    <3>4. \E u \in Threads : OwnsSend(u)'
      BY <3>3
    <3>5. \A u \in Threads \ {t} : ~ InRegisterSend(u)'
      BY <2>7 DEF Drain
    <3>6. pc'[t] = "WSASend" => sendQueue' = << >>
      BY <2>7 DEF Drain
    <3> QED
      BY <3>1, <3>3, <3>4, <3>5, <3>6
  <2>8. CASE WSASend(t)
    <3> SUFFICES ASSUME ~AppBroadcasts PROVE QueueInv'
      OBVIOUS
    <3>1. ~Opening' /\ sendQueue = << >> /\ sendQueue' = << >>
      BY <2>8 DEF WSASend
    <3>2. posted'["SEND"] > 0 \/ OwnsSend(t)'
      BY <2>8 DEF WSASend
    <3> QED
      BY <3>1, <3>2
  <2>9. CASE SendError(t)
    BY <2>9 DEF SendError
  <2>10. CASE ProcessSend(t)
    BY <2>10 DEF ProcessSend
  <2>11. CASE OnSend(t)
    BY <2>11 DEF OnSend
  <2> QED
    BY <1>5, <2>1, <2>2, <2>3, <2>4, <2>5, <2>6, <2>7, <2>8, <2>9, <2>10,
       <2>11 DEF SendStep
<1>6. ASSUME NEW t \in Threads, DisconnectStep(t) PROVE QueueInv'
  <2>1. CASE Disconnect(t)
    BY <2>1 DEF Disconnect
  <2>2. CASE ~Disconnect(t)
    <3>1. /\ Opening' => Opening
          /\ \A u \in Threads :
               /\ OwnsSend(u)' <=> OwnsSend(u)
               /\ InRegisterSend(u)' /\ pc'[u] \notin {"RegisterSend", "Drain"}
                    => InRegisterSend(u) /\ pc[u] \notin {"RegisterSend", "Drain"}
      BY <1>6, <2>2, DisconnectKeepsSend
    <3>2. /\ UNCHANGED <<isConnected, sendRegistered, sendQueue>>
          /\ posted'["SEND"] = posted["SEND"]
      BY <1>6, <2>2, DisconnectKeepsSend
    <3> HIDE DEF OwnsSend, InRegisterSend, Opening, OpenInv, SendExclusive,
                 RecvInv, HoldInv, SenderInv
    <3> QED
      BY <3>1, <3>2
  <2> QED
    BY <2>1, <2>2
<1>7. CASE UNCHANGED vars
  BY <1>7 DEF vars
<1> QED
  BY <1>1, <1>2, <1>3, <1>4, <1>5, <1>6, <1>7, NextCases

\* IInv holds in every reachable state.
LEMMA InitInv == Init => IInv
<1> SUFFICES ASSUME Init PROVE IInv
  OBVIOUS
<1> USE DEF Init, Events, Labels
<1>1. TypeOK
  <2>1. FlagsOK
    BY DEF FlagsOK
  <2>2. ThreadsOK
    BY DEF ThreadsOK
  <2>3. EventsOK
    BY DEF EventsOK, LinkStates
  <2>4. QueuesOK
    BY DEF QueuesOK
  <2> QED
    BY <2>1, <2>2, <2>3, <2>4 DEF TypeOK
<1>2. CallInv /\ SenderInv /\ LockInv
  BY SessionAssumption DEF CallInv, SenderInv, InRegisterSend, LockInv,
     InDisconnect
<1>3. SendExclusive /\ InFlightRetained
  BY DEF SendExclusive, OwnsSend, InFlightRetained, InDisconnect
<1>4. RecvInv /\ RearmInv
  BY DEF RecvInv, RecvExclusive, OwnsRecv, InDisconnect, RearmInv, RecvArmed
<1>5. OpenInv /\ DiscInv /\ RegistryConsistent
  BY DEF OpenInv, Opening, Unlisted, Fresh, OpenLabels, DiscInv, DiscLabels,
     RegistryConsistent
<1>6. HoldInv
  BY DEF HoldInv, EventHoldsSession
<1>7. GhostFree /\ QueueInv
  BY DEF GhostFree, QueueInv, InRegisterSend, InDisconnect
<1> QED
  BY <1>1, <1>2, <1>3, <1>4, <1>5, <1>6, <1>7 DEF IInv

\* The invariant is inductive: whatever handler runs next keeps it.
LEMMA NextInv == IInv /\ [Next]_vars => IInv'
<1> SUFFICES ASSUME IInv, [Next]_vars PROVE IInv'
  OBVIOUS
<1>1. TypeOK'
  BY FlagsPreserved, ThreadsPreserved, EventsPreserved, QueuesPreserved
     DEF IInv, TypeOK
<1>2. CallInv' /\ SendExclusive' /\ RecvInv' /\ InFlightRetained'
  BY CallPreserved, SendPreserved, RecvPreserved, InFlightPreserved
     DEF IInv, TypeOK
<1>3. OpenInv' /\ DiscInv' /\ RegistryConsistent' /\ HoldInv'
  BY OpenPreserved, DiscPreserved, RegistryPreserved, HoldPreserved
     DEF IInv, TypeOK
<1>4. LockInv' /\ RearmInv' /\ SenderInv' /\ GhostFree' /\ QueueInv'
  BY LockPreserved, RearmPreserved, SenderPreserved, GhostPreserved,
     QueuePreserved DEF IInv, TypeOK
<1> QED
  BY <1>1, <1>2, <1>3, <1>4 DEF IInv

\* The conjunction the theorems below are read from holds in every state of
\* every session, server's or client's.
THEOREM Invariance == Spec => []IInv
<1>1. Init => IInv
  BY InitInv
<1>2. IInv /\ [Next]_vars => IInv'
  BY NextInv
<1> QED
  BY <1>1, <1>2, PTL DEF Spec

(* What the invariant gives. *)

\* Every variable keeps its type (Session.h:16-32).
THEOREM TypeCorrect == Spec => []TypeOK
<1>1. IInv => TypeOK
  BY DEF IInv
<1> QED
  BY <1>1, Invariance, PTL

\* Session.cpp:33 and 93-139: sendEvent is never used by two threads, nor
\* while the kernel holds it, with Broadcast and with any number of threads.
THEOREM SendEventExclusive == Spec => []SendExclusive
<1>1. IInv => SendExclusive
  BY DEF IInv
<1> QED
  BY <1>1, Invariance, PTL

\* Session.cpp:141-167 and 250-279: no two threads ever process a receive of
\* one session.
THEOREM RecvEventExclusive == Spec => []RecvExclusive
<1>1. IInv => RecvExclusive
  BY DEF IInv, RecvInv
<1> QED
  BY <1>1, Invariance, PTL

\* IocpCore.cpp:33-34: the session is alive when a completion of it is
\* dispatched.
THEOREM CompletionsFindSession == Spec => []EventHoldsSession
<1>1. IInv => EventHoldsSession
  BY DEF IInv, HoldInv
<1> QED
  BY <1>1, Invariance, PTL

\* Session.cpp:111 and 231: the memory WSASend reads stays referenced.
THEOREM BuffersStayReferenced == Spec => []InFlightRetained
<1>1. IInv => InFlightRetained
  BY DEF IInv
<1> QED
  BY <1>1, Invariance, PTL

\* Service.cpp:45-58 and SessionManager.cpp:5-15: the registries agree with
\* each other and with the session.
THEOREM RegistriesAgree == Spec => []RegistryConsistent
<1>1. IInv => RegistryConsistent
  BY DEF IInv
<1> QED
  BY <1>1, Invariance, PTL

\* A connected session has a receive posted or on its way
\* (Session.cpp:141-167, 250-279).
THEOREM ReceiveStaysArmed == Spec => []RecvArmed
<1>1. IInv => RecvArmed
  BY DEF IInv, RearmInv
<1> QED
  BY <1>1, Invariance, PTL

\* Session.cpp:31, 241 and SessionManager.cpp:7-24: no thread asks for a
\* lock it holds.
THEOREM NoSelfDeadlock == Spec => []LockOrder
<1>1. IInv => LockOrder
  BY DEF IInv, TypeOK, ThreadsOK, LockInv, InRegisterSend, CallInv,
     SendLabels, LockOrder, InDisconnect
<1> QED
  BY <1>1, Invariance, PTL

\* Session.cpp:32 and 103-112: as long as nobody calls Broadcast, push and
\* pop on sendQueue never overlap.
THEOREM QueueNeverRaces ==
  ASSUME ~AppBroadcasts PROVE Spec => []NoQueueRace
<1>1. IInv => NoQueueRace
  BY RaceFree DEF IInv, TypeOK
<1> QED
  BY <1>1, Invariance, PTL

\* Session.cpp:33 and 242-247: as long as nobody calls Broadcast, a queued
\* message always has somebody who will send it.
THEOREM NoMessageForgotten ==
  ASSUME ~AppBroadcasts PROVE Spec => []NoLostWakeup
<1>1. IInv => NoLostWakeup
  BY DEF IInv, QueueInv, NoLostWakeup
<1> QED
  BY <1>1, Invariance, PTL

=============================================================================
