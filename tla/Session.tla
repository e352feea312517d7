------------------------------ MODULE Session -------------------------------
(***************************************************************************)
(* One Session (ServerCore/Session.cpp) with the threads that run it: the  *)
(* workers looping in IocpCore::ObserveIO, and Broadcast calling Send from *)
(* outside.  A step is one access to state another thread can see; steps   *)
(* that touch only the thread's own state are merged into it.              *)
(*                                                                         *)
(* The receive buffer and the packets in it are abstracted to the choice   *)
(* OnRecv makes; the buffers that are sent are numbered in the order they  *)
(* are queued.  The I/O completion port, the socket and the peer are       *)
(* external and modelled by what the code can observe of them.             *)
(***************************************************************************)
EXTENDS Integers, Sequences

CONSTANTS
  Threads,        \* the threads of the process
  NoThread,       \* nobody holds the lock
  ServiceType,    \* "SERVER" (ClientSession) or "CLIENT" (ServerSession)
  AppBroadcasts,  \* whether some thread calls SessionManager::Broadcast
  ExResults,      \* how ConnectEx and DisconnectEx may return, see below
  MaxSends        \* bound: no Send is started once this many were accepted

ASSUME SessionAssumption ==
  /\ NoThread \notin Threads
  /\ ServiceType \in {"SERVER", "CLIENT"}
  /\ AppBroadcasts \in BOOLEAN
  \* "pending": FALSE and the error is *_IO_PENDING, "failed": FALSE and any
  \* other error, "done": TRUE, the completion is queued all the same.
  /\ ExResults \subseteq {"pending", "failed", "done"}
  /\ MaxSends \in Nat

VARIABLES
  \* members of the Session
  isConnected, sendRegistered, sendQueue, rwLock,
  iocpObj,      \* [Events -> BOOLEAN]: the event's iocpObj points to the session
  sendBuffers,  \* sendEvent.sendBuffers
  \* the registries the session is entered in
  inService, sessionCount,  \* Service::sessions, Service::sessionCount
  inManager, managerLock,   \* SessionManager::sessions and its rwLock
  \* threads: next step, and where Send and Disconnect return to
  pc, sendRet, discRet,
  \* external: operations the kernel holds, what WSASend was given, the socket
  posted, inflight, link,
  \* history: messages accepted, messages transmitted, HandleError's default
  accepted, wire, ioErrorLogged

flagVars == <<isConnected, sendRegistered>>
queueVars == <<sendQueue, rwLock, accepted>>
eventVars == <<iocpObj, sendBuffers>>
serviceVars == <<inService, sessionCount>>
managerVars == <<inManager, managerLock>>
registryVars == <<serviceVars, managerVars>>
kernelVars == <<posted, inflight, link, wire, ioErrorLogged>>
callVars == <<sendRet, discRet>>
threadVars == <<pc, callVars>>
vars == <<flagVars, queueVars, eventVars, registryVars, kernelVars, threadVars>>

Events == {"CONNECT", "RECV", "SEND", "DISCONNECT"}
LinkStates == {"none", "connecting", "refused", "up", "closed"}

\* A queue slot whose shared_ptr was destroyed: what a pop sees when its
\* decrement of the queue's size was lost to a racing push.
Ghost == 0

Labels == {"idle", "crashed",
           "ProcessConnect", "AddSession", "OnConnected",
           "RegisterRecv", "WSARecv", "RecvError",
           "ProcessRecv", "RecvZero", "OnRecv",
           "Send", "Push", "RegisterSend", "Drain", "WSASend", "SendError",
           "ProcessSend", "SendZero", "OnSend", "EndBroadcast",
           "Disconnect", "DisconnectExError",
           "ProcessDisconnect", "OnDisconnected", "RemoveSession"}

Init ==
  /\ isConnected = FALSE /\ sendRegistered = FALSE
  /\ sendQueue = << >> /\ rwLock = NoThread /\ accepted = 0
  /\ iocpObj = [e \in Events |-> FALSE] /\ sendBuffers = << >>
  /\ inService = FALSE /\ sessionCount = 0
  /\ inManager = FALSE /\ managerLock = NoThread
  /\ posted = [e \in Events |-> 0] /\ inflight = << >> /\ link = "none"
  /\ wire = << >> /\ ioErrorLogged = FALSE
  /\ pc = [t \in Threads |-> "idle"]
  /\ sendRet = [t \in Threads |-> "idle"]
  /\ discRet = [t \in Threads |-> "idle"]

-----------------------------------------------------------------------------
(* Thread control. *)

Goto(t, to) == pc' = [pc EXCEPT ![t] = to]

Step(t, from, to) == pc[t] = from /\ Goto(t, to)

CallSend(t, ret) ==
  /\ Goto(t, "Send")
  /\ sendRet' = [sendRet EXCEPT ![t] = ret]

ReturnFromSend(t) ==
  /\ Goto(t, sendRet[t])
  /\ sendRet' = [sendRet EXCEPT ![t] = "idle"]

CallDisconnect(t, ret) ==
  /\ Goto(t, "Disconnect")
  /\ discRet' = [discRet EXCEPT ![t] = ret]

ReturnFromDisconnect(t) ==
  /\ Goto(t, discRet[t])
  /\ discRet' = [discRet EXCEPT ![t] = "idle"]

\* ProcessSend calls RegisterSend with rwLock held, Send calls it without.
ReleaseIfHeld(t) == rwLock' = IF rwLock = t THEN NoThread ELSE rwLock

Crashed == \E t \in Threads : pc[t] = "crashed"

-----------------------------------------------------------------------------
(* The kernel side. *)

Post(e) == posted' = [posted EXCEPT ![e] = @ + 1]

\* How WSASend and WSARecv may return on the socket as it is: "pending" stands
\* for success too (both queue a completion), "reset" for WSAECONNRESET and
\* WSAECONNABORTED, "other" for every other error.
PostResults ==
  CASE link = "up" -> {"pending", "other"}
    [] link = "closed" -> {"pending", "reset", "other"}
    [] OTHER -> {"other"}

\* The peer closes or resets the connection.
PeerClose ==
  /\ link = "up"
  /\ link' = "closed"
  /\ UNCHANGED <<flagVars, queueVars, eventVars, registryVars, posted,
                 inflight, wire, threadVars, ioErrorLogged>>

\* IocpCore::ObserveIO: an idle worker takes a completion of event e, copies
\* the event's iocpObj and enters the handler, whether the operation
\* succeeded or not.  A null iocpObj is dereferenced.
ObserveIO(t, e, handler) ==
  /\ posted[e] > 0
  /\ posted' = [posted EXCEPT ![e] = @ - 1]
  /\ Step(t, "idle", IF iocpObj[e] THEN handler ELSE "crashed")
  /\ UNCHANGED <<flagVars, queueVars, eventVars, registryVars, callVars,
                 ioErrorLogged>>

\* A refused connection is dispatched to ProcessConnect like an accepted one.
ObserveConnect(t) ==
  /\ ObserveIO(t, "CONNECT", "ProcessConnect")
  /\ link' \in {"up", "refused"}
  /\ UNCHANGED <<inflight, wire>>

ObserveRecv(t) ==
  /\ \/ ObserveIO(t, "RECV", "ProcessRecv")
     \/ link = "closed" /\ ObserveIO(t, "RECV", "RecvZero")
  /\ UNCHANGED <<inflight, link, wire>>

ObserveSend(t) ==
  /\ \/ ObserveIO(t, "SEND", "ProcessSend") /\ wire' = wire \o inflight
     \/ link = "closed" /\ ObserveIO(t, "SEND", "SendZero") /\ UNCHANGED wire
  /\ inflight' = << >>
  /\ UNCHANGED link

ObserveDisconnect(t) ==
  /\ ObserveIO(t, "DISCONNECT", "ProcessDisconnect")
  /\ link' = "closed"
  /\ UNCHANGED <<inflight, wire>>

-----------------------------------------------------------------------------
(* Connecting. *)

\* Mutant: the connect event is posted without the shared_ptr.
RegisterConnectUnheld ==
  /\ ServiceType = "CLIENT" /\ link = "none"
  /\ link' = "connecting" /\ Post("CONNECT")
  /\ UNCHANGED <<flagVars, queueVars, eventVars, registryVars, inflight, wire,
                 threadVars, ioErrorLogged>>

\* Session::Connect, which main calls before it starts the worker.  When
\* RegisterConnect returns false main exits: a socket option failed before the
\* event was set, or ConnectEx returned TRUE, which is tested as the failure,
\* with a stale last error, and the event was cleared.  Otherwise the client
\* waits for the completion, also when ConnectEx failed and none will come.
RegisterConnect ==
  /\ ServiceType = "CLIENT" /\ link = "none"
  /\ \/ link' = "refused" /\ UNCHANGED <<iocpObj, posted>>
     \/ /\ iocpObj' = [iocpObj EXCEPT !["CONNECT"] = TRUE]
        /\ \E r \in ExResults :
             IF r = "failed"
             THEN link' = "refused" /\ UNCHANGED posted
             ELSE link' = "connecting" /\ Post("CONNECT")
  /\ UNCHANGED <<flagVars, queueVars, sendBuffers, registryVars, inflight,
                 wire, threadVars, ioErrorLogged>>

\* Listener::ProcessAccept calls ProcessConnect on the accepted session.  The
\* accepts that fail and the AcceptEvent's re-arming do not touch the session.
ProcessAccept(t) ==
  /\ ServiceType = "SERVER" /\ link = "none"
  /\ link' = "up"
  /\ Step(t, "idle", "ProcessConnect")
  /\ UNCHANGED <<flagVars, queueVars, eventVars, registryVars, posted,
                 inflight, wire, callVars, ioErrorLogged>>

\* Mutant: the session is never entered in the service.
ProcessConnectNoAdd(t) ==
  /\ Step(t, "ProcessConnect", "OnConnected")
  /\ iocpObj' = [iocpObj EXCEPT !["CONNECT"] = FALSE]
  /\ isConnected' = TRUE
  /\ UNCHANGED <<sendRegistered, queueVars, sendBuffers, registryVars,
                 kernelVars, callVars>>

ProcessConnect(t) ==
  /\ Step(t, "ProcessConnect", "AddSession")
  /\ iocpObj' = [iocpObj EXCEPT !["CONNECT"] = FALSE]
  /\ isConnected' = TRUE
  /\ UNCHANGED <<sendRegistered, queueVars, sendBuffers, registryVars,
                 kernelVars, callVars>>

AddSession(t) ==
  /\ Step(t, "AddSession", "OnConnected")
  /\ sessionCount' = sessionCount + 1
  /\ inService' = TRUE
  /\ UNCHANGED <<flagVars, queueVars, eventVars, managerVars, kernelVars,
                 callVars>>

\* ClientSession enters the SessionManager; ServerSession sends C_LOGIN.
OnConnected(t) ==
  /\ pc[t] = "OnConnected"
  /\ \/ /\ ServiceType = "SERVER"
        /\ managerLock = NoThread
        /\ inManager' = TRUE
        /\ Goto(t, "RegisterRecv")
        /\ UNCHANGED sendRet
     \/ /\ ServiceType = "CLIENT"
        /\ CallSend(t, "RegisterRecv")
        /\ UNCHANGED inManager
  /\ UNCHANGED <<flagVars, queueVars, eventVars, serviceVars, managerLock,
                 kernelVars, discRet>>

-----------------------------------------------------------------------------
(* Receiving. *)

RegisterRecv(t) ==
  /\ IF isConnected
     THEN /\ Step(t, "RegisterRecv", "WSARecv")
          /\ iocpObj' = [iocpObj EXCEPT !["RECV"] = TRUE]
     ELSE /\ Step(t, "RegisterRecv", "idle")
          /\ UNCHANGED iocpObj
  /\ UNCHANGED <<flagVars, queueVars, sendBuffers, registryVars, kernelVars,
                 callVars>>

\* HandleError disconnects on a reset; any other error is only printed.
WSARecv(t) ==
  /\ pc[t] = "WSARecv"
  /\ \E r \in PostResults :
       \/ r = "pending" /\ Post("RECV") /\ Goto(t, "idle")
          /\ UNCHANGED <<discRet, ioErrorLogged>>
       \/ r = "reset" /\ CallDisconnect(t, "RecvError")
          /\ UNCHANGED <<posted, ioErrorLogged>>
       \/ r = "other" /\ ioErrorLogged' = TRUE /\ Goto(t, "RecvError")
          /\ UNCHANGED <<posted, discRet>>
  /\ UNCHANGED <<flagVars, queueVars, eventVars, registryVars, inflight, link,
                 wire, sendRet>>

RecvError(t) ==
  /\ Step(t, "RecvError", "idle")
  /\ iocpObj' = [iocpObj EXCEPT !["RECV"] = FALSE]
  /\ UNCHANGED <<flagVars, queueVars, sendBuffers, registryVars, kernelVars,
                 callVars>>

\* Zero bytes and a write overflow disconnect, otherwise OnRecv is called.
ProcessRecv(t) ==
  /\ \/ pc[t] = "ProcessRecv" /\ Goto(t, "OnRecv") /\ UNCHANGED discRet
     \/ pc[t] \in {"ProcessRecv", "RecvZero"} /\ CallDisconnect(t, "idle")
  /\ iocpObj' = [iocpObj EXCEPT !["RECV"] = FALSE]
  /\ UNCHANGED <<flagVars, queueVars, sendBuffers, registryVars, kernelVars,
                 sendRet>>

\* Mutant: the return after a refused length's Disconnect is forgotten.
OnRecvNoReturn(t) ==
  /\ pc[t] = "OnRecv"
  /\ Goto(t, "RegisterRecv") \/ Goto(t, "Disconnect")
  /\ discRet' = [discRet EXCEPT ![t] = "RegisterRecv"]
  /\ UNCHANGED <<flagVars, queueVars, eventVars, registryVars, kernelVars,
                 sendRet>>

\* Mutant: the receive is not re-armed.
OnRecvNoRearm(t) ==
  /\ Step(t, "OnRecv", "idle")
  /\ UNCHANGED <<flagVars, queueVars, eventVars, registryVars, kernelVars,
                 callVars>>

\* OnRecv handles the packets one by one; the server answers C_LOGIN with
\* Send.  Then a length the buffer refuses disconnects, any other re-arms; but
\* its loop may also go on for ever (PacketStream), so nothing says that a
\* thread ever leaves here.
OnRecv(t) ==
  /\ pc[t] = "OnRecv"
  /\ \/ /\ ServiceType = "SERVER" /\ accepted < MaxSends
        /\ CallSend(t, "OnRecv") /\ UNCHANGED discRet
     \/ Goto(t, "RegisterRecv") /\ UNCHANGED callVars
     \/ CallDisconnect(t, "idle") /\ UNCHANGED sendRet
  /\ UNCHANGED <<flagVars, queueVars, eventVars, registryVars, kernelVars>>

-----------------------------------------------------------------------------
(* Sending. *)

\* SessionManager::Broadcast holds the manager's lock while it calls Send.
Broadcast(t) ==
  /\ AppBroadcasts /\ inManager /\ managerLock = NoThread
  /\ accepted < MaxSends
  /\ pc[t] = "idle"
  /\ managerLock' = t
  /\ CallSend(t, "EndBroadcast")
  /\ UNCHANGED <<flagVars, queueVars, eventVars, serviceVars, inManager,
                 kernelVars, discRet>>

EndBroadcast(t) ==
  /\ Step(t, "EndBroadcast", "idle")
  /\ managerLock' = NoThread
  /\ UNCHANGED <<flagVars, queueVars, eventVars, serviceVars, inManager,
                 kernelVars, callVars>>

Send(t) ==
  /\ pc[t] = "Send"
  /\ IF isConnected
     THEN Goto(t, "Push") /\ UNCHANGED sendRet
     ELSE ReturnFromSend(t)
  /\ UNCHANGED <<flagVars, queueVars, eventVars, registryVars, kernelVars,
                 discRet>>

\* Another thread pops from sendQueue without holding rwLock.
DrainingUnlocked == rwLock = NoThread /\ \E t \in Threads : pc[t] = "Drain"

\* The push of an element against a pop that takes no lock is undefined: both
\* update the queue's size, so either update may be lost.
PushOutcomes(m) ==
  {Append(sendQueue, m)} \cup
    IF DrainingUnlocked
    THEN {sendQueue, Append(Append(sendQueue, m), Ghost)}
    ELSE {}

\* Mutant: the result of sendRegistered.exchange is ignored.
PushAlwaysRegisters(t) ==
  /\ Step(t, "Push", "RegisterSend")
  /\ rwLock = NoThread
  /\ accepted' = accepted + 1
  /\ sendQueue' \in PushOutcomes(accepted + 1)
  /\ sendRegistered' = TRUE
  /\ UNCHANGED <<isConnected, rwLock, eventVars, registryVars, kernelVars,
                 callVars>>

\* Send's locked section: push, then sendRegistered.exchange(true).
Push(t) ==
  /\ pc[t] = "Push"
  /\ rwLock = NoThread
  /\ accepted' = accepted + 1
  /\ sendQueue' \in PushOutcomes(accepted + 1)
  /\ sendRegistered' = TRUE
  /\ IF sendRegistered
     THEN ReturnFromSend(t)
     ELSE Goto(t, "RegisterSend") /\ UNCHANGED sendRet
  /\ UNCHANGED <<isConnected, rwLock, eventVars, registryVars, kernelVars,
                 discRet>>

\* Mutant: the send event is posted without the shared_ptr.
RegisterSendUnheld(t) ==
  /\ pc[t] = "RegisterSend"
  /\ IF isConnected
     THEN Goto(t, "Drain") /\ UNCHANGED <<rwLock, sendRet>>
     ELSE ReturnFromSend(t) /\ ReleaseIfHeld(t)
  /\ UNCHANGED <<flagVars, sendQueue, accepted, eventVars, registryVars,
                 kernelVars, discRet>>

\* Disconnected in the meantime: returns with sendRegistered still set.
RegisterSend(t) ==
  /\ pc[t] = "RegisterSend"
  /\ IF isConnected
     THEN /\ iocpObj' = [iocpObj EXCEPT !["SEND"] = TRUE]
          /\ Goto(t, "Drain")
          /\ UNCHANGED <<rwLock, sendRet>>
     ELSE ReturnFromSend(t) /\ ReleaseIfHeld(t) /\ UNCHANGED iocpObj
  /\ UNCHANGED <<flagVars, sendQueue, accepted, sendBuffers, registryVars,
                 kernelVars, discRet>>

\* One round of the loop that moves sendQueue to sendEvent.sendBuffers.
Drain(t) ==
  /\ pc[t] = "Drain"
  /\ IF sendQueue = << >>
     THEN Goto(t, "WSASend") /\ UNCHANGED <<sendQueue, sendBuffers>>
     ELSE IF Head(sendQueue) = Ghost
     THEN Goto(t, "crashed") /\ UNCHANGED <<sendQueue, sendBuffers>>
     ELSE /\ sendBuffers' = Append(sendBuffers, Head(sendQueue))
          /\ sendQueue' = Tail(sendQueue)
          /\ UNCHANGED pc
  /\ UNCHANGED <<flagVars, rwLock, accepted, iocpObj, registryVars, kernelVars,
                 callVars>>

\* Mutant: sendBuffers is cleared as soon as the send is posted.
WSASendClears(t) ==
  /\ pc[t] = "WSASend"
  /\ Post("SEND") /\ inflight' = sendBuffers /\ sendBuffers' = << >>
  /\ ReturnFromSend(t) /\ ReleaseIfHeld(t)
  /\ UNCHANGED <<flagVars, sendQueue, accepted, iocpObj, registryVars, link,
                 wire, discRet, ioErrorLogged>>

WSASend(t) ==
  /\ pc[t] = "WSASend"
  /\ \E r \in PostResults :
       \/ /\ r = "pending" /\ Post("SEND") /\ inflight' = sendBuffers
          /\ ReturnFromSend(t) /\ ReleaseIfHeld(t)
          /\ UNCHANGED <<discRet, ioErrorLogged>>
       \/ /\ r = "reset" /\ CallDisconnect(t, "SendError")
          /\ UNCHANGED <<posted, inflight, sendRet, rwLock, ioErrorLogged>>
       \/ /\ r = "other" /\ ioErrorLogged' = TRUE /\ Goto(t, "SendError")
          /\ UNCHANGED <<posted, inflight, callVars, rwLock>>
  /\ UNCHANGED <<flagVars, sendQueue, accepted, eventVars, registryVars, link,
                 wire>>

\* RegisterSend after HandleError: the whole batch is dropped.
SendError(t) ==
  /\ pc[t] = "SendError"
  /\ iocpObj' = [iocpObj EXCEPT !["SEND"] = FALSE]
  /\ sendBuffers' = << >>
  /\ sendRegistered' = FALSE
  /\ ReturnFromSend(t) /\ ReleaseIfHeld(t)
  /\ UNCHANGED <<isConnected, sendQueue, accepted, registryVars, kernelVars,
                 discRet>>

\* Mutant: the buffers that were sent stay in the event.
ProcessSendKeeps(t) ==
  /\ \/ Step(t, "ProcessSend", "OnSend") /\ UNCHANGED discRet
     \/ pc[t] = "SendZero" /\ CallDisconnect(t, "OnSend")
  /\ iocpObj' = [iocpObj EXCEPT !["SEND"] = FALSE]
  /\ UNCHANGED <<flagVars, queueVars, sendBuffers, registryVars, kernelVars,
                 sendRet>>

ProcessSend(t) ==
  /\ \/ Step(t, "ProcessSend", "OnSend") /\ UNCHANGED discRet
     \/ pc[t] = "SendZero" /\ CallDisconnect(t, "OnSend")
  /\ iocpObj' = [iocpObj EXCEPT !["SEND"] = FALSE]
  /\ sendBuffers' = << >>
  /\ UNCHANGED <<flagVars, queueVars, registryVars, kernelVars, sendRet>>

\* Mutant: an empty queue re-arms the receive.
OnSendRearms(t) ==
  /\ rwLock = NoThread /\ sendQueue = << >>
  /\ Step(t, "OnSend", "RegisterRecv")
  /\ sendRegistered' = FALSE
  /\ UNCHANGED <<isConnected, queueVars, eventVars, registryVars, kernelVars,
                 callVars>>

\* Mutant: rwLock is not taken.
OnSendUnlocked(t) ==
  /\ IF sendQueue = << >>
     THEN Step(t, "OnSend", "idle") /\ sendRegistered' = FALSE
     ELSE Step(t, "OnSend", "RegisterSend") /\ UNCHANGED sendRegistered
  /\ UNCHANGED <<isConnected, queueVars, eventVars, registryVars, kernelVars,
                 callVars>>

\* Mutant: the queue is not looked at again.
OnSendForgets(t) ==
  /\ rwLock = NoThread
  /\ Step(t, "OnSend", "idle")
  /\ sendRegistered' = FALSE
  /\ UNCHANGED <<isConnected, queueVars, eventVars, registryVars, kernelVars,
                 callVars>>

\* Mutant: what was pushed during the send is cleared with the batch.
OnSendDiscards(t) ==
  /\ rwLock = NoThread
  /\ Step(t, "OnSend", "idle")
  /\ sendRegistered' = FALSE /\ sendQueue' = << >>
  /\ UNCHANGED <<isConnected, rwLock, accepted, eventVars, registryVars,
                 kernelVars, callVars>>

\* Mutant: sendRegistered is not given up when the queue is empty.
OnSendKeepsFlag(t) ==
  /\ rwLock = NoThread
  /\ IF sendQueue = << >>
     THEN Step(t, "OnSend", "idle") /\ UNCHANGED rwLock
     ELSE Step(t, "OnSend", "RegisterSend") /\ rwLock' = t
  /\ UNCHANGED <<flagVars, sendQueue, accepted, eventVars, registryVars,
                 kernelVars, callVars>>

\* ProcessSend's locked section; the lock is kept through RegisterSend.
OnSend(t) ==
  /\ rwLock = NoThread
  /\ IF sendQueue = << >>
     THEN /\ Step(t, "OnSend", "idle")
          /\ sendRegistered' = FALSE
          /\ UNCHANGED rwLock
     ELSE /\ Step(t, "OnSend", "RegisterSend")
          /\ rwLock' = t
          /\ UNCHANGED sendRegistered
  /\ UNCHANGED <<isConnected, sendQueue, accepted, eventVars, registryVars,
                 kernelVars, callVars>>

-----------------------------------------------------------------------------
(* Disconnecting. *)

\* Mutant: the result of isConnected.exchange is ignored.
DisconnectUnguarded(t) ==
  /\ pc[t] = "Disconnect"
  /\ isConnected' = FALSE
  /\ iocpObj' = [iocpObj EXCEPT !["DISCONNECT"] = TRUE]
  /\ Post("DISCONNECT")
  /\ ReturnFromDisconnect(t)
  /\ UNCHANGED <<sendRegistered, queueVars, sendBuffers, registryVars, inflight,
                 link, wire, sendRet, ioErrorLogged>>

\* Mutant: OnDisconnected and RemoveSession are called at once, as in the
\* lines Session.cpp:53-54 comments out.
DisconnectCleansUp(t) ==
  /\ pc[t] = "Disconnect"
  /\ isConnected' = FALSE
  /\ \/ ~isConnected /\ ReturnFromDisconnect(t)
     \/ isConnected /\ Goto(t, "OnDisconnected") /\ UNCHANGED discRet
  /\ UNCHANGED <<sendRegistered, queueVars, eventVars, registryVars, kernelVars,
                 sendRet>>

\* isConnected.exchange(false) and RegisterDisconnect, one step: between the
\* two no other thread touches disconnectEvent.  DisconnectEx's TRUE is tested
\* as the failure, as in RegisterConnect.
Disconnect(t) ==
  /\ pc[t] = "Disconnect"
  /\ isConnected' = FALSE
  /\ \/ /\ ~isConnected
        /\ ReturnFromDisconnect(t)
        /\ UNCHANGED <<iocpObj, posted>>
     \/ /\ isConnected
        /\ iocpObj' = [iocpObj EXCEPT !["DISCONNECT"] = TRUE]
        /\ \E r \in ExResults :
             /\ IF r = "failed" THEN UNCHANGED posted ELSE Post("DISCONNECT")
             /\ \/ ReturnFromDisconnect(t)
                \/ r = "done" /\ Goto(t, "DisconnectExError") /\ UNCHANGED discRet
  /\ UNCHANGED <<sendRegistered, queueVars, sendBuffers, registryVars,
                 inflight, link, wire, sendRet, ioErrorLogged>>

\* DisconnectEx returned TRUE and the stale last error is not WSA_IO_PENDING.
DisconnectExError(t) ==
  /\ pc[t] = "DisconnectExError"
  /\ iocpObj' = [iocpObj EXCEPT !["DISCONNECT"] = FALSE]
  /\ ReturnFromDisconnect(t)
  /\ UNCHANGED <<flagVars, queueVars, sendBuffers, registryVars, kernelVars,
                 sendRet>>

\* Mutant: OnDisconnected is not called.
ProcessDisconnectSkips(t) ==
  /\ Step(t, "ProcessDisconnect", "RemoveSession")
  /\ iocpObj' = [iocpObj EXCEPT !["DISCONNECT"] = FALSE]
  /\ UNCHANGED <<flagVars, queueVars, sendBuffers, registryVars, kernelVars,
                 callVars>>

\* Mutant: the disconnect event keeps its shared_ptr.
ProcessDisconnectKeeps(t) ==
  /\ Step(t, "ProcessDisconnect", "OnDisconnected")
  /\ UNCHANGED <<flagVars, queueVars, eventVars, registryVars, kernelVars,
                 callVars>>

ProcessDisconnect(t) ==
  /\ Step(t, "ProcessDisconnect", "OnDisconnected")
  /\ iocpObj' = [iocpObj EXCEPT !["DISCONNECT"] = FALSE]
  /\ UNCHANGED <<flagVars, queueVars, sendBuffers, registryVars, kernelVars,
                 callVars>>

\* ClientSession leaves the SessionManager; ServerSession only prints.
OnDisconnected(t) ==
  /\ Step(t, "OnDisconnected", "RemoveSession")
  /\ IF ServiceType = "SERVER"
     THEN managerLock = NoThread /\ inManager' = FALSE
     ELSE UNCHANGED inManager
  /\ UNCHANGED <<flagVars, queueVars, eventVars, serviceVars, managerLock,
                 kernelVars, callVars>>

RemoveSession(t) ==
  /\ Step(t, "RemoveSession", "idle")
  /\ inService' = FALSE
  /\ sessionCount' = sessionCount - 1
  /\ UNCHANGED <<flagVars, queueVars, eventVars, managerVars, kernelVars,
                 callVars>>

-----------------------------------------------------------------------------
Observe(t) ==
  \/ ObserveConnect(t) \/ ObserveRecv(t) \/ ObserveSend(t) \/ ObserveDisconnect(t)

\* The steps a thread takes once it is inside a handler or a call.
Run(t) ==
  \/ ProcessConnect(t) \/ AddSession(t) \/ OnConnected(t)
  \/ RegisterRecv(t) \/ WSARecv(t) \/ RecvError(t) \/ ProcessRecv(t) \/ OnRecv(t)
  \/ Send(t) \/ Push(t) \/ RegisterSend(t) \/ Drain(t) \/ WSASend(t)
  \/ SendError(t) \/ ProcessSend(t) \/ OnSend(t) \/ EndBroadcast(t)
  \/ Disconnect(t) \/ DisconnectExError(t)
  \/ ProcessDisconnect(t) \/ OnDisconnected(t) \/ RemoveSession(t)

\* Every worker is back in GetQueuedCompletionStatus with nothing outstanding,
\* or the process died.
Halted ==
  \/ Crashed
  \/ /\ \A t \in Threads : pc[t] = "idle"
     /\ \A e \in Events : posted[e] = 0

Next ==
  \/ /\ ~Crashed
     /\ \/ RegisterConnect
        \/ PeerClose
        \/ \E t \in Threads :
             ProcessAccept(t) \/ Broadcast(t) \/ Observe(t) \/ Run(t)
  \/ Halted /\ UNCHANGED vars

Spec == Init /\ [][Next]_vars

\* A worker never stops inside a handler, except in OnRecv, whose loop need not
\* end.  Completions leave the port in the order they were queued, so as long
\* as workers come back for them none is passed over for ever (strong
\* fairness).  ConnectEx and DisconnectEx, once under way, complete, and so
\* does what is posted on a closed link; on an open one a receive or a send
\* may wait for the peer for ever, there is no timeout.
Fairness ==
  /\ \A t \in Threads : WF_vars(~Crashed /\ pc[t] # "OnRecv" /\ Run(t))
  /\ SF_vars(~Crashed /\ \E t \in Threads : ObserveConnect(t))
  /\ SF_vars(~Crashed /\ \E t \in Threads : ObserveDisconnect(t))
  /\ SF_vars(~Crashed /\ link = "closed" /\ \E t \in Threads : ObserveRecv(t))
  /\ SF_vars(~Crashed /\ link = "closed" /\ \E t \in Threads : ObserveSend(t))

FairSpec == Spec /\ Fairness

-----------------------------------------------------------------------------
FlagsOK ==
  /\ isConnected \in BOOLEAN /\ sendRegistered \in BOOLEAN
  /\ inService \in BOOLEAN /\ inManager \in BOOLEAN
  /\ ioErrorLogged \in BOOLEAN
  /\ iocpObj \in [Events -> BOOLEAN]

ThreadsOK ==
  /\ pc \in [Threads -> Labels]
  /\ sendRet \in [Threads -> {"idle", "RegisterRecv", "OnRecv", "EndBroadcast"}]
  /\ discRet \in [Threads -> {"idle", "RecvError", "SendError", "OnSend"}]
  /\ rwLock \in Threads \cup {NoThread}
  /\ managerLock \in Threads \cup {NoThread}

EventsOK ==
  /\ posted \in [Events -> Nat] /\ link \in LinkStates
  /\ sessionCount \in Int

QueuesOK ==
  /\ sendQueue \in Seq(Nat) /\ sendBuffers \in Seq(Nat)
  /\ inflight \in Seq(Nat) /\ wire \in Seq(Nat) /\ accepted \in Nat

\* Every variable has its type; the steps Send and Disconnect return to are
\* those of their callers (Session.cpp:23-57).
TypeOK == FlagsOK /\ ThreadsOK /\ EventsOK /\ QueuesOK

InDisconnect(t) == pc[t] \in {"Disconnect", "DisconnectExError"}

\* t is between winning sendRegistered (or taking the send completion) and
\* posting the next WSASend (or giving sendRegistered up).
OwnsSend(t) ==
  \/ pc[t] \in {"RegisterSend", "Drain", "WSASend", "SendError",
                "ProcessSend", "SendZero", "OnSend"}
  \/ InDisconnect(t) /\ discRet[t] \in {"SendError", "OnSend"}

\* t is between entering the connection or taking the receive completion and
\* posting the next WSARecv (or giving up).
OwnsRecv(t) ==
  \/ pc[t] \in {"ProcessConnect", "AddSession", "OnConnected", "RegisterRecv",
                "WSARecv", "RecvError", "ProcessRecv", "RecvZero", "OnRecv"}
  \/ sendRet[t] \in {"RegisterRecv", "OnRecv"}
  \/ InDisconnect(t) /\ discRet[t] = "RecvError"

\* The single sendEvent is never reused while the kernel holds it, and only
\* one thread at a time touches it (Session.h:24, Session.cpp:33, 93-139).
SendExclusive ==
  /\ \A t, u \in Threads : OwnsSend(t) /\ OwnsSend(u) => t = u
  /\ \A t \in Threads : OwnsSend(t) => posted["SEND"] = 0 /\ sendRegistered
  /\ posted["SEND"] > 0 => sendRegistered
  /\ posted["SEND"] <= 1

\* The same for recvEvent and the receive buffer behind it: no two threads
\* ever run ProcessRecv of one session (Session.cpp:141-167, 250-279).
RecvExclusive ==
  /\ \A t, u \in Threads : OwnsRecv(t) /\ OwnsRecv(u) => t = u
  /\ \A t \in Threads :
       OwnsRecv(t) => posted["RECV"] = 0 /\ posted["CONNECT"] = 0
  /\ posted["RECV"] + posted["CONNECT"] <= 1

\* While the kernel holds one of the session's events, that event keeps the
\* session alive and can be dispatched (IocpCore.cpp:33-34); for DisconnectEx
\* only if the kernel never completes it synchronously.
EventHoldsSession ==
  \A e \in Events :
    posted[e] > 0 /\ (e # "DISCONNECT" \/ "done" \notin ExResults) => iocpObj[e]

\* The buffers WSASend was given stay referenced until it completes, so their
\* memory cannot be recycled under the kernel (Session.cpp:111, 231).
InFlightRetained == posted["SEND"] > 0 => sendBuffers = inflight

\* Push and pop on sendQueue never overlap (Session.cpp:32 is locked,
\* Session.cpp:103-112 called from Send is not).
NoQueueRace ==
  DrainingUnlocked => \A t \in Threads : pc[t] # "Push"

\* A queued message always has somebody who will send it: nothing waits for
\* the next Send to wake it up (Session.cpp:33, 242-247).
NoLostWakeup ==
  isConnected /\ sendQueue # << >> =>
    posted["SEND"] > 0 \/ \E t \in Threads : OwnsSend(t)

\* A connected session has a receive posted, or a thread on its way to post
\* one or to disconnect, unless an I/O error was printed and forgotten
\* (Session.cpp:141-167, 254-277, 300-302).
RecvArmed ==
  isConnected => \/ posted["RECV"] > 0 \/ ioErrorLogged
                 \/ \E t \in Threads : OwnsRecv(t) \/ pc[t] = "Disconnect"

\* The registries agree with each other and with the session: it is counted
\* once, entered before it can be removed and removed only after Disconnect
\* (Service.cpp:45-58, SessionManager.cpp:5-15, Session.cpp:213-224, 282-289).
RegistryConsistent ==
  /\ sessionCount = IF inService THEN 1 ELSE 0
  /\ inManager => inService
  /\ \A t \in Threads :
       /\ pc[t] = "RemoveSession" => inService /\ ~isConnected /\ ~inManager
       /\ pc[t] = "OnDisconnected" => inService /\ ~isConnected
  /\ isConnected => inService \/ \E t \in Threads : pc[t] = "AddSession"

\* No thread asks for a lock it holds, nor for the manager's lock while it
\* holds the session's (Session.cpp:31, 241, SessionManager.cpp:7-24).
LockOrder ==
  \A t \in Threads :
    /\ pc[t] \in {"Push", "OnSend"} => rwLock # t
    /\ pc[t] \in {"OnConnected", "OnDisconnected"} =>
         rwLock # t /\ managerLock # t

\* sendRegistered tells whether a send is registered, as Session.h:30 says.
FlagTellsRegistered ==
  sendRegistered => posted["SEND"] > 0 \/ \E t \in Threads : OwnsSend(t)

\* Nothing refers to the session any more but a thread whose OnRecv has not
\* returned: it is destroyed as soon as that does, if ever.
Released ==
  /\ ~inService /\ ~inManager
  /\ \A e \in Events : ~iocpObj[e]
  /\ \A t \in Threads : pc[t] \in {"idle", "OnRecv"}

\* A disconnected session is removed from every registry and released: the
\* cleanup Session.cpp:286 says was moved to ProcessDisconnect does happen,
\* whatever the peer does and also when OnRecv keeps one worker for ever.
DisconnectReleases == inService /\ ~isConnected ~> Released

\* The peer goes on reading: a send that is posted completes.
PeerReads == SF_vars(~Crashed /\ \E t \in Threads : ObserveSend(t))

\* If the peer reads, an accepted message reaches the wire unless the
\* connection ends or an I/O error is printed; OnRecv may keep a worker for
\* ever all the same (Session.cpp:23-43, 226-248).
EveryMessageSettles ==
  PeerReads =>
    \A m \in 1 .. MaxSends :
      accepted >= m ~>
        \/ \E i \in DOMAIN wire : wire[i] = m
        \/ ~isConnected \/ ioErrorLogged

\* The send path implements the lossy FIFO outbox.  A batch stops being
\* unsent when its completion is taken, before ProcessSend clears it.
Unsent ==
  IF \E t \in Threads : pc[t] \in {"ProcessSend", "SendZero"}
  THEN << >>
  ELSE sendBuffers
OutboxOf == INSTANCE Outbox WITH backlog <- Unsent \o sendQueue
OutboxSpec == OutboxOf!Spec

\* t has seen its batch fail and is about to disconnect for it.
SendFailed(t) ==
  \/ pc[t] = "SendZero"
  \/ pc[t] = "Disconnect" /\ discRet[t] = "OnSend"

\* While the session is connected and no error was met, the messages on the
\* wire, in the kernel's hands and in the queue are all that Send accepted,
\* each once and in order (Session.cpp:23-43, 93-139, 226-248).
NothingLost ==
  isConnected /\ ~ioErrorLogged /\ (\A t \in Threads : ~SendFailed(t)) =>
    OutboxOf!Messages = [i \in 1 .. accepted |-> i]

\* What the rest of the server sees of the session is the one-way life it
\* relies on: connected, listed, opened, disconnected and removed, each once,
\* whatever its threads do (Session.cpp:45-57, 213-224, 282-289).
SomebodyAt(label) == \E t \in Threads : pc[t] = label
Stage ==
  IF isConnected
  THEN IF ~inService THEN "connected"
       ELSE IF SomebodyAt("OnConnected") THEN "added" ELSE "open"
  ELSE IF inService
  THEN IF SomebodyAt("RemoveSession") THEN "left" ELSE "closing"
  ELSE IF link # "closed" \/ SomebodyAt("ProcessConnect")
  THEN "new" ELSE "removed"
LifeOf == INSTANCE SessionLife WITH
  Managed <- ServiceType = "SERVER", stage <- Stage
LifeSpec == LifeOf!Spec
=============================================================================
