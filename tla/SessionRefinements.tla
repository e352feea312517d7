------------------------- MODULE SessionRefinements -------------------------
(***************************************************************************)
(* A Session with all its threads implements what the rest of the system   *)
(* relies on: the one-way life of SessionLife.  Two consequences of the    *)
(* invariants follow: the cleanup of a disconnected session is never       *)
(* forgotten nor doubled, and the threads that wait for a lock are not     *)
(* waiting for each other.                                                 *)
(***************************************************************************)
EXTENDS SessionProofs

(* The life of a session. *)

\* Where the socket is while the session is opened and after it is removed:
\* what the stages "new" and "removed" differ in.
LinkInv ==
  /\ posted["CONNECT"] > 0 => link = "connecting"
  /\ \A t \in Threads :
       /\ pc[t] \in DiscLabels => link = "closed"
       /\ pc[t] \in {"AddSession", "OnConnected"} => isConnected
  /\ link = "up" /\ ~Crashed =>
       isConnected \/ inService \/ \E t \in Threads : pc[t] = "ProcessConnect"

\* The labels the stage of a session depends on.
StageLabels == {"ProcessConnect", "AddSession", "OnConnected"} \cup DiscLabels

\* A receive, a send or a completed connect moves no thread between them.
LEMMA StageKept ==
  ASSUME ThreadsOK, NEW t \in Threads, RecvStep(t) \/ SendStep(t)
  PROVE  /\ \A u \in Threads :
              pc[u] \in StageLabels \/ pc'[u] \in StageLabels => pc'[u] = pc[u]
         /\ UNCHANGED <<isConnected, inService, inManager, link>>
<1> USE DEF ThreadsOK, Labels, StageLabels, DiscLabels, Goto, Step, CallSend,
            ReturnFromSend, CallDisconnect, flagVars, serviceVars, managerVars,
            registryVars, kernelVars, callVars
<1>1. CASE ObserveRecv(t)
  BY <1>1 DEF ObserveRecv, ObserveIO
<1>2. CASE RegisterRecv(t)
  BY <1>2 DEF RegisterRecv
<1>3. CASE WSARecv(t)
  BY <1>3 DEF WSARecv
<1>4. CASE RecvError(t)
  BY <1>4 DEF RecvError
<1>5. CASE ProcessRecv(t)
  BY <1>5 DEF ProcessRecv
<1>6. CASE OnRecv(t)
  BY <1>6 DEF OnRecv
<1>7. CASE Broadcast(t)
  BY <1>7 DEF Broadcast
<1>8. CASE EndBroadcast(t)
  BY <1>8 DEF EndBroadcast
<1>9. CASE ObserveSend(t)
  BY <1>9 DEF ObserveSend, ObserveIO
<1>10. CASE Send(t)
  BY <1>10 DEF Send
<1>11. CASE Push(t)
  BY <1>11 DEF Push
<1>12. CASE RegisterSend(t)
  BY <1>12 DEF RegisterSend
<1>13. CASE Drain(t)
  BY <1>13 DEF Drain
<1>14. CASE WSASend(t)
  BY <1>14 DEF WSASend
<1>15. CASE SendError(t)
  BY <1>15 DEF SendError
<1>16. CASE ProcessSend(t)
  BY <1>16 DEF ProcessSend
<1>17. CASE OnSend(t)
  BY <1>17 DEF OnSend
<1> QED
  BY <1>1, <1>2, <1>3, <1>4, <1>5, <1>6, <1>7, <1>8, <1>9, <1>10, <1>11,
     <1>12, <1>13, <1>14, <1>15, <1>16, <1>17 DEF RecvStep, SendStep

LEMMA InitLink == Init => LinkInv
  BY DEF Init, LinkInv, DiscLabels, Events

\* The opening thread and the disconnect's completion find the socket so.
LEMMA LinkPreserved ==
  ASSUME IInv, LinkInv, [Next]_vars
  PROVE  LinkInv'
<1> USE DEF LinkInv, DiscLabels, Events, Goto, Step, Post, flagVars,
            queueVars, eventVars, serviceVars, managerVars, registryVars,
            kernelVars, callVars, threadVars
<1>0. /\ ThreadsOK /\ EventsOK /\ OpenInv /\ DiscInv /\ RegistryConsistent
      /\ CallInv
  BY DEF IInv, TypeOK
<1>1. CASE RegisterConnect
  BY <1>0, <1>1 DEF RegisterConnect, EventsOK, Crashed
<1>2. CASE PeerClose
  BY <1>0, <1>2 DEF PeerClose, EventsOK, Crashed
<1>3. ASSUME NEW t \in Threads, ConnectStep(t), ~Crashed PROVE LinkInv'
  <2> USE <1>0 DEF ThreadsOK, EventsOK
  <2>1. CASE ProcessAccept(t)
    BY <2>1 DEF ProcessAccept
  <2>2. CASE ObserveConnect(t)
    <3>1. link' \in {"up", "refused"} /\ link = "connecting"
      BY <2>2 DEF ObserveConnect, ObserveIO
    <3>2. posted'["CONNECT"] = 0
      BY <1>0, <2>2 DEF IInv, RecvInv, RecvExclusive, ObserveConnect, ObserveIO
    <3>3. pc'[t] \in {"ProcessConnect", "crashed"}
      BY <2>2 DEF ObserveConnect, ObserveIO
    <3>4. \A u \in Threads \ {t} : pc'[u] = pc[u]
      BY <2>2 DEF ObserveConnect, ObserveIO
    <3>5. isConnected' = isConnected
      BY <2>2 DEF ObserveConnect, ObserveIO
    <3> QED
      BY <3>1, <3>2, <3>3, <3>4, <3>5 DEF Crashed
  <2>3. CASE ProcessConnect(t)
    BY <2>3 DEF ProcessConnect, Crashed
  <2>4. CASE AddSession(t)
    BY <2>4 DEF AddSession, Crashed
  <2>5. CASE OnConnected(t)
    BY <2>5 DEF OnConnected, CallSend, Crashed
  <2> QED
    BY <1>3, <2>1, <2>2, <2>3, <2>4, <2>5 DEF ConnectStep
<1>4. ASSUME NEW t \in Threads, RecvStep(t) \/ SendStep(t), ~Crashed
      PROVE  LinkInv'
  <2>1. \A u \in Threads :
          pc[u] \in StageLabels \/ pc'[u] \in StageLabels => pc'[u] = pc[u]
    BY <1>0, <1>4, StageKept
  <2>2. UNCHANGED <<isConnected, inService, link>>
    BY <1>0, <1>4, StageKept
  <2>3. posted'["CONNECT"] = posted["CONNECT"]
    BY <1>0, <1>4, SendKeepsRecv, RecvKeepsSend
  <2> QED
    BY <1>4, <2>1, <2>2, <2>3 DEF StageLabels
<1>5. ASSUME NEW t \in Threads, DisconnectStep(t), ~Crashed PROVE LinkInv'
  <2> USE <1>0 DEF ThreadsOK, EventsOK
  <2>1. CASE ObserveDisconnect(t)
    <3>1. posted["CONNECT"] = 0
      BY <2>1 DEF ObserveDisconnect, ObserveIO, OpenInv, Opening
    <3>2. link' = "closed" /\ posted'["CONNECT"] = 0
      BY <2>1, <3>1 DEF ObserveDisconnect, ObserveIO
    <3>3. isConnected' = isConnected
      BY <2>1 DEF ObserveDisconnect, ObserveIO
    <3>4. \A u \in Threads : pc'[u] \in {"AddSession", "OnConnected"} =>
            pc[u] = pc'[u]
      BY <2>1 DEF ObserveDisconnect, ObserveIO
    <3> QED
      BY <3>2, <3>3, <3>4
  <2>2. CASE Disconnect(t)
    <3>1. ~Opening
      BY <2>2 DEF Disconnect, OpenInv, OpenLabels
    <3>2. posted["CONNECT"] = 0 /\ \A u \in Threads : pc[u] \notin OpenLabels
      BY <3>1 DEF Opening
    <3>3. posted'["CONNECT"] = 0 /\ UNCHANGED <<link, inService>>
      BY <2>2, <3>2 DEF Disconnect
    <3>4. \A u \in Threads : pc'[u] = pc[u] \/ pc'[u] \notin StageLabels
      BY <2>2 DEF Disconnect, ReturnFromDisconnect, StageLabels
    <3>5. isConnected => inService
      BY <3>2 DEF RegistryConsistent, OpenLabels
    <3>6. link = "up" => inService
      BY <1>5, <3>2, <3>5 DEF OpenLabels
    <3>7. \A u \in Threads :
            /\ pc'[u] \in DiscLabels => link' = "closed"
            /\ pc'[u] \notin {"AddSession", "OnConnected"}
      BY <3>2, <3>3, <3>4 DEF StageLabels, OpenLabels
    <3> QED
      BY <3>3, <3>6, <3>7
  <2>3. CASE DisconnectExError(t)
    <3>1. UNCHANGED <<posted, link, isConnected, inService>>
      BY <2>3 DEF DisconnectExError
    <3>2. \A u \in Threads :
            /\ pc'[u] = pc[u] \/ pc'[u] \notin StageLabels
            /\ pc[u] = "ProcessConnect" => pc'[u] = pc[u]
      BY <2>3 DEF DisconnectExError, ReturnFromDisconnect, StageLabels
    <3> QED
      BY <1>5, <3>1, <3>2 DEF StageLabels
  <2>4. CASE ProcessDisconnect(t)
    BY <2>4 DEF ProcessDisconnect
  <2>5. CASE OnDisconnected(t)
    BY <2>5 DEF OnDisconnected
  <2>6. CASE RemoveSession(t)
    BY <2>6 DEF RemoveSession
  <2> QED
    BY <1>5, <2>1, <2>2, <2>3, <2>4, <2>5, <2>6 DEF DisconnectStep
<1>6. CASE UNCHANGED vars
  BY <1>6 DEF vars, Crashed
<1>7. ~Crashed \/ UNCHANGED vars
  BY DEF Next
<1> QED
  BY <1>1, <1>2, <1>3, <1>4, <1>5, <1>6, <1>7, NextCases

\* The states the stages of the life are read from.
LEMMA StageFacts ==
  ASSUME IInv, LinkInv
  PROVE  /\ \A t \in Threads : pc[t] \in OpenLabels =>
              /\ ~inManager
              /\ \A u \in Threads : pc[u] \notin DiscLabels
              /\ \A u \in Threads \ {t} : pc[u] \notin OpenLabels
         /\ \A t \in Threads : pc[t] = "ProcessConnect" => Stage = "new"
         /\ \A t \in Threads : pc[t] = "AddSession" => Stage = "connected"
         /\ \A t \in Threads : pc[t] = "OnConnected" => Stage = "added"
         /\ \A t \in Threads :
              pc[t] \in {"Disconnect", "DisconnectExError"} \cup DiscLabels =>
                /\ \A u \in Threads : pc[u] \notin OpenLabels
                /\ isConnected => Stage = "open"
         /\ \A t \in Threads : pc[t] \in {"ProcessDisconnect", "OnDisconnected"} =>
              Stage = "closing"
         /\ \A t \in Threads : pc[t] = "RemoveSession" => Stage = "left"
<1> USE DEF IInv, LinkInv, OpenLabels, DiscLabels
<1>1. ASSUME NEW t \in Threads, pc[t] \in OpenLabels
      PROVE  /\ ~inManager
             /\ \A u \in Threads : pc[u] \notin DiscLabels
             /\ \A u \in Threads \ {t} : pc[u] \notin OpenLabels
  <2>1. Opening
    BY <1>1 DEF Opening
  <2>2. OwnsRecv(t) /\ \A u \in Threads : pc[u] \in OpenLabels => OwnsRecv(u)
    BY <1>1 DEF OwnsRecv
  <2>3. \A u \in Threads : OwnsRecv(u) => u = t
    BY <2>2 DEF RecvInv, RecvExclusive
  <2> HIDE DEF IInv
  <2>4. OpenInv
    BY DEF IInv
  <2> QED
    BY <2>1, <2>2, <2>3, <2>4 DEF OpenInv
<1>2. ASSUME NEW t \in Threads, pc[t] = "ProcessConnect" PROVE Stage = "new"
  BY <1>2 DEF OpenInv, Fresh, Unlisted, Stage, SomebodyAt
<1>3. ASSUME NEW t \in Threads, pc[t] = "AddSession" PROVE Stage = "connected"
  BY <1>3 DEF OpenInv, Unlisted, Stage, SomebodyAt
<1>4. ASSUME NEW t \in Threads, pc[t] = "OnConnected" PROVE Stage = "added"
  BY <1>4 DEF OpenInv, Stage, SomebodyAt
<1>5. ASSUME NEW t \in Threads,
             pc[t] \in {"Disconnect", "DisconnectExError"} \cup DiscLabels
      PROVE  /\ \A u \in Threads : pc[u] \notin OpenLabels
             /\ isConnected => Stage = "open"
  <2>1. \A u \in Threads : pc[u] \notin OpenLabels
    BY <1>5 DEF OpenInv, Opening
  <2>2. isConnected => inService
    BY <2>1 DEF RegistryConsistent
  <2> QED
    BY <2>1, <2>2 DEF Stage, SomebodyAt
<1>6. ASSUME NEW t \in Threads, pc[t] \in DiscLabels
      PROVE  ~isConnected /\ inService /\ \A u \in Threads \ {t} : pc[u] \notin DiscLabels
  BY <1>6 DEF DiscInv
<1>7. ASSUME NEW t \in Threads, pc[t] \in {"ProcessDisconnect", "OnDisconnected"}
      PROVE  Stage = "closing"
  <2>1. /\ ~isConnected /\ inService
        /\ \A u \in Threads \ {t} : pc[u] \notin DiscLabels
    BY <1>6, <1>7
  <2> HIDE DEF IInv, LinkInv
  <2> QED
    BY <1>7, <2>1 DEF Stage, SomebodyAt
<1>8. ASSUME NEW t \in Threads, pc[t] = "RemoveSession" PROVE Stage = "left"
  <2>1. ~isConnected /\ inService
    BY <1>6, <1>8
  <2> HIDE DEF IInv, LinkInv
  <2> QED
    BY <1>8, <2>1 DEF Stage, SomebodyAt
<1> QED
  BY <1>1, <1>2, <1>3, <1>4, <1>5, <1>7, <1>8

\* A step that moves nobody into or out of the labels the stage depends on.
LEMMA LifeStutters ==
  ASSUME \A u \in Threads :
           {pc[u], pc'[u]} \cap {"ProcessConnect", "OnConnected", "RemoveSession"}
             # {} => pc'[u] = pc[u],
         UNCHANGED <<isConnected, inService, inManager>>,
         link' # "closed" <=> link # "closed"
  PROVE  UNCHANGED LifeOf!life
<1>1. \A l \in {"ProcessConnect", "OnConnected", "RemoveSession"} :
        SomebodyAt(l)' <=> SomebodyAt(l)
  BY DEF SomebodyAt
<1>2. Stage' = Stage
  BY <1>1 DEF Stage
<1> QED
  BY <1>2 DEF LifeOf!life

\* Each handler of the connection is the step of the life it is named for.
LEMMA LifeStep ==
  ASSUME IInv, LinkInv, [Next]_vars
  PROVE  [LifeOf!Next]_(LifeOf!life)
<1> USE DEF Goto, Step, flagVars, queueVars, eventVars, serviceVars,
            managerVars, registryVars, kernelVars, callVars, threadVars
<1>0. ThreadsOK /\ pc \in [Threads -> Labels]
  BY DEF IInv, TypeOK, ThreadsOK
<1>1. CASE RegisterConnect
  BY <1>1, LifeStutters DEF RegisterConnect
<1>2. CASE PeerClose /\ ~Crashed
  <2>1. isConnected \/ inService \/ \E t \in Threads : pc[t] = "ProcessConnect"
    BY <1>2 DEF PeerClose, LinkInv
  <2>2. UNCHANGED <<isConnected, inService, inManager, pc>>
    BY <1>2 DEF PeerClose
  <2>3. Stage' = Stage
    BY <2>1, <2>2 DEF Stage, SomebodyAt
  <2> QED
    BY <2>2, <2>3 DEF LifeOf!life
<1>3. ASSUME NEW t \in Threads, ProcessAccept(t) PROVE UNCHANGED LifeOf!life
  <2>1. link = "none" /\ link' = "up" /\ pc[t] = "idle"
    BY <1>3 DEF ProcessAccept
  <2>2. UNCHANGED <<isConnected, inService, inManager>>
    BY <1>3 DEF ProcessAccept
  <2>3. ~isConnected /\ ~inService
    BY <2>1 DEF IInv, OpenInv, Fresh, Unlisted
  <2>4. Stage = "new" /\ Stage' = "new"
    BY <2>1, <2>2, <2>3 DEF Stage
  <2> QED
    BY <2>2, <2>4 DEF LifeOf!life
<1>4. ASSUME NEW t \in Threads, ObserveConnect(t) PROVE UNCHANGED LifeOf!life
  <2>1. posted["CONNECT"] > 0 /\ link' \in {"up", "refused"}
    BY <1>4 DEF ObserveConnect, ObserveIO
  <2>2. UNCHANGED <<isConnected, inService, inManager>>
    BY <1>4 DEF ObserveConnect, ObserveIO
  <2>3. ~isConnected /\ ~inService /\ link = "connecting"
    BY <2>1 DEF IInv, OpenInv, Fresh, Unlisted, LinkInv
  <2>4. Stage = "new" /\ Stage' = "new"
    BY <2>1, <2>2, <2>3 DEF Stage
  <2> QED
    BY <2>2, <2>4 DEF LifeOf!life
<1>5. ASSUME NEW t \in Threads, ProcessConnect(t) PROVE LifeOf!Connect
  <2>1. pc[t] = "ProcessConnect" /\ pc'[t] = "AddSession"
    BY <1>0, <1>5 DEF ProcessConnect
  <2>2. Stage = "new" /\ ~inService
    BY <2>1, StageFacts DEF IInv, OpenInv, Unlisted
  <2>3. isConnected' = TRUE /\ UNCHANGED <<inService, inManager>>
    BY <1>5 DEF ProcessConnect
  <2>4. Stage' = "connected"
    BY <2>2, <2>3 DEF Stage
  <2> QED
    BY <2>2, <2>3, <2>4 DEF LifeOf!Connect, LifeOf!Advance
<1>6. ASSUME NEW t \in Threads, AddSession(t) PROVE LifeOf!AddSession
  <2>1. pc[t] = "AddSession" /\ pc'[t] = "OnConnected"
    BY <1>0, <1>6 DEF AddSession
  <2>2. Stage = "connected" /\ isConnected
    BY <2>1, StageFacts DEF LinkInv
  <2>3. inService' = TRUE /\ UNCHANGED <<isConnected, inManager>>
    BY <1>6 DEF AddSession
  <2>4. Stage' = "added"
    BY <2>1, <2>2, <2>3 DEF Stage, SomebodyAt
  <2> QED
    BY <2>2, <2>3, <2>4 DEF LifeOf!AddSession, LifeOf!Advance
<1>7. ASSUME NEW t \in Threads, OnConnected(t) PROVE LifeOf!Open
  <2>1. pc[t] = "OnConnected" /\ pc'[t] # "OnConnected"
    BY <1>0, <1>7 DEF OnConnected, CallSend
  <2>2. Stage = "added" /\ ~inManager /\ isConnected
    BY <2>1, StageFacts DEF LinkInv, OpenLabels
  <2>3. inManager' = (ServiceType = "SERVER")
    <3>1. ServiceType \in {"SERVER", "CLIENT"} /\ inManager = FALSE
      BY <2>2, SessionAssumption DEF IInv, TypeOK, FlagsOK
    <3>2. CASE ServiceType = "SERVER"
      BY <1>7, <3>2 DEF OnConnected
    <3>3. CASE ServiceType = "CLIENT"
      BY <1>7, <3>1, <3>3 DEF OnConnected
    <3> QED
      BY <3>1, <3>2, <3>3
  <2>4. UNCHANGED <<isConnected, inService>>
    BY <1>7 DEF OnConnected
  <2>5. \A u \in Threads \ {t} : pc[u] # "OnConnected" /\ pc'[u] = pc[u]
    BY <1>0, <1>7, <2>1, StageFacts DEF OnConnected, CallSend, OpenLabels
  <2>6. inService
    BY <2>1 DEF IInv, OpenInv
  <2>7. ~SomebodyAt("OnConnected")'
    BY <2>1, <2>5 DEF SomebodyAt
  <2>8. Stage' = "open"
    BY <2>2, <2>4, <2>6, <2>7 DEF Stage
  <2> QED
    BY <2>2, <2>3, <2>4, <2>8 DEF LifeOf!Open, LifeOf!Advance
<1>8. ASSUME NEW t \in Threads, RecvStep(t) \/ SendStep(t)
      PROVE  UNCHANGED LifeOf!life
  <2>1. \A u \in Threads :
          pc[u] \in StageLabels \/ pc'[u] \in StageLabels => pc'[u] = pc[u]
    BY <1>0, <1>8, StageKept
  <2>2. UNCHANGED <<isConnected, inService, inManager, link>>
    BY <1>0, <1>8, StageKept
  <2> QED
    BY <2>1, <2>2, LifeStutters DEF StageLabels, DiscLabels
<1>9. ASSUME NEW t \in Threads, Disconnect(t)
      PROVE  LifeOf!Disconnect \/ UNCHANGED LifeOf!life
  <2>1. /\ pc[t] = "Disconnect" /\ isConnected' = FALSE
        /\ UNCHANGED <<inService, inManager, link>>
    BY <1>9 DEF Disconnect
  <2>2. \A u \in Threads : pc'[u] # pc[u] =>
          /\ u = t /\ pc[u] = "Disconnect"
          /\ pc'[u] \notin {"ProcessConnect", "OnConnected", "RemoveSession"}
    BY <1>0, <1>9 DEF Disconnect, ReturnFromDisconnect, IInv, TypeOK, ThreadsOK
  <2>3. CASE isConnected
    <3>1. Stage = "open"
      BY <2>1, <2>3, StageFacts
    <3>2. inService
      BY <2>3, <3>1 DEF Stage
    <3>3. \A u \in Threads : pc[u] # "RemoveSession"
      BY <2>3 DEF IInv, DiscInv, DiscLabels
    <3>4. Stage' = "closing"
      BY <2>1, <2>2, <3>2, <3>3 DEF Stage, SomebodyAt
    <3> QED
      BY <2>1, <3>1, <3>4 DEF LifeOf!Disconnect, LifeOf!Advance
  <2>4. CASE ~isConnected
    <3>1. isConnected \in BOOLEAN
      BY DEF IInv, TypeOK, FlagsOK
    <3>2. UNCHANGED isConnected
      BY <2>1, <2>4, <3>1
    <3> QED
      BY <2>1, <2>2, <3>2, LifeStutters
  <2> QED
    BY <2>3, <2>4
<1>10. ASSUME NEW t \in Threads, OnDisconnected(t) PROVE LifeOf!Leave
  <2>1. pc[t] = "OnDisconnected" /\ pc'[t] = "RemoveSession"
    BY <1>0, <1>10 DEF OnDisconnected
  <2>2. Stage = "closing" /\ ~isConnected /\ inService
    BY <2>1, StageFacts DEF IInv, DiscInv, DiscLabels
  <2>3. inManager \in BOOLEAN /\ (inManager => ServiceType = "SERVER")
    BY DEF IInv, TypeOK, FlagsOK, DiscInv
  <2>4. ~inManager' /\ UNCHANGED <<isConnected, inService>>
    BY <1>10, <2>3 DEF OnDisconnected
  <2>5. Stage' = "left"
    BY <2>1, <2>2, <2>4 DEF Stage, SomebodyAt
  <2> QED
    BY <2>2, <2>4, <2>5 DEF LifeOf!Leave, LifeOf!Advance
<1>11. ASSUME NEW t \in Threads, RemoveSession(t) PROVE LifeOf!RemoveSession
  <2>1. pc[t] = "RemoveSession" /\ \A u \in Threads \ {t} : pc'[u] = pc[u]
    BY <1>0, <1>11 DEF RemoveSession
  <2>2. pc'[t] = "idle"
    BY <1>0, <1>11 DEF RemoveSession
  <2>3. Stage = "left"
    BY <2>1, StageFacts
  <2>4. /\ ~isConnected /\ link = "closed"
        /\ \A u \in Threads : pc[u] \notin OpenLabels
    BY <2>1, StageFacts DEF IInv, DiscInv, LinkInv, DiscLabels
  <2>5. ~inService' /\ UNCHANGED <<isConnected, inManager, link>>
    BY <1>11 DEF RemoveSession
  <2>6. ~SomebodyAt("ProcessConnect")'
    BY <2>1, <2>2, <2>4 DEF SomebodyAt, OpenLabels
  <2>7. Stage' = "removed"
    BY <2>4, <2>5, <2>6 DEF Stage
  <2> QED
    BY <2>3, <2>5, <2>7 DEF LifeOf!RemoveSession, LifeOf!Advance
<1>12. ASSUME NEW t \in Threads,
              ObserveDisconnect(t) \/ DisconnectExError(t) \/ ProcessDisconnect(t)
       PROVE  UNCHANGED LifeOf!life
  <2>1. /\ UNCHANGED <<isConnected, inService, inManager>>
        /\ \A u \in Threads : pc'[u] # pc[u] =>
             {pc[u], pc'[u]} \cap {"ProcessConnect", "OnConnected", "RemoveSession"}
               = {}
    <3>1. CASE ObserveDisconnect(t)
      BY <1>0, <3>1 DEF ObserveDisconnect, ObserveIO
    <3>2. CASE DisconnectExError(t)
      BY <1>0, <3>2 DEF DisconnectExError, ReturnFromDisconnect, IInv, TypeOK,
         ThreadsOK
    <3>3. CASE ProcessDisconnect(t)
      BY <1>0, <3>3 DEF ProcessDisconnect
    <3> QED
      BY <1>12, <3>1, <3>2, <3>3
  <2>2. CASE link' = link
    BY <2>1, <2>2, LifeStutters
  <2>3. CASE link' # link
    <3>1. ObserveDisconnect(t) /\ posted["DISCONNECT"] > 0
      BY <1>12, <2>3 DEF ObserveDisconnect, ObserveIO, DisconnectExError,
         ProcessDisconnect
    <3>2. inService
      BY <3>1 DEF IInv, DiscInv
    <3>3. Stage' = Stage
      BY <2>1, <3>2 DEF Stage, SomebodyAt
    <3> QED
      BY <2>1, <3>3 DEF LifeOf!life
  <2> QED
    BY <2>2, <2>3
<1>13. CASE UNCHANGED vars
  BY <1>13, LifeStutters DEF vars
<1>14. ~Crashed \/ UNCHANGED vars
  BY DEF Next
<1> QED
  BY <1>1, <1>2, <1>3, <1>4, <1>5, <1>6, <1>7, <1>8, <1>9, <1>10, <1>11,
     <1>12, <1>13, <1>14, NextCases DEF ConnectStep, DisconnectStep, LifeOf!Next

\* Session.cpp:45-57, 213-224 and 282-289: whatever the threads, the kernel and
\* the peer do, a session is connected, listed, opened, disconnected and
\* removed in this order, each at most once.
THEOREM SessionImplementsLife == Spec => LifeSpec
<1>1. Init => LifeOf!Init
  BY DEF Init, LifeOf!Init, Stage
<1>2. Spec => [](IInv /\ LinkInv)
  <2>1. Init => LinkInv
    BY InitLink
  <2>2. IInv /\ LinkInv /\ [Next]_vars => LinkInv'
    BY LinkPreserved
  <2> QED
    BY <2>1, <2>2, Invariance, PTL DEF Spec
<1>3. IInv /\ LinkInv /\ [Next]_vars
        => [LifeOf!Next]_(LifeOf!life)
  BY LifeStep
<1> QED
  BY <1>1, <1>2, <1>3, PTL DEF Spec, LifeSpec, LifeOf!Spec
(* The cleanup of a disconnected session. *)

\* A session that was disconnected and is still listed has its cleanup ahead:
\* a DisconnectEx in the kernel, or one thread that processes its completion.
CleanupOwed ==
  inService /\ ~isConnected /\ ~Crashed =>
    \/ posted["DISCONNECT"] = 1 /\ \A t \in Threads : pc[t] \notin DiscLabels
    \/ /\ posted["DISCONNECT"] = 0
       /\ \E t \in Threads :
            \A u \in Threads : pc[u] \in DiscLabels <=> u = t

OwedInv ==
  inService /\ ~isConnected /\ ~Crashed =>
    posted["DISCONNECT"] > 0 \/ \E t \in Threads : pc[t] \in DiscLabels

LEMMA OwedPreserved ==
  ASSUME "failed" \notin ExResults, IInv, LinkInv, OwedInv, [Next]_vars
  PROVE  OwedInv'
<1>0. /\ ThreadsOK /\ EventsOK /\ OpenInv /\ CallInv
      /\ posted \in [Events -> Nat]
  BY DEF IInv, TypeOK, EventsOK
<1> USE DEF OwedInv, DiscLabels, Crashed, Goto, Step, Post, flagVars,
            serviceVars, registryVars, kernelVars, threadVars
<1>1. CASE RegisterConnect \/ PeerClose
  <2>1. /\ UNCHANGED <<inService, isConnected, pc>>
        /\ posted'["DISCONNECT"] = posted["DISCONNECT"]
    BY <1>0, <1>1 DEF RegisterConnect, PeerClose, Events
  <2> QED
    BY <2>1
<1>2. ASSUME NEW t \in Threads, ConnectStep(t) PROVE OwedInv'
  <2> USE <1>0 DEF ThreadsOK
  <2>1. CASE ProcessAccept(t) \/ ObserveConnect(t) \/ ProcessConnect(t)
    <3>1. ~inService
      BY <2>1 DEF OpenInv, Unlisted, ProcessAccept, ObserveConnect, ObserveIO,
         ProcessConnect
    <3>2. inService' = inService
      BY <2>1 DEF ProcessAccept, ObserveConnect, ObserveIO, ProcessConnect
    <3> QED
      BY <3>1, <3>2
  <2>2. CASE AddSession(t)
    BY <2>2 DEF AddSession, LinkInv
  <2>3. CASE OnConnected(t)
    BY <2>3 DEF OnConnected, LinkInv
  <2> QED
    BY <1>2, <2>1, <2>2, <2>3 DEF ConnectStep
<1>3. ASSUME NEW t \in Threads, RecvStep(t) \/ SendStep(t) PROVE OwedInv'
  <2>1. \A u \in Threads :
          pc[u] \in StageLabels \/ pc'[u] \in StageLabels => pc'[u] = pc[u]
    BY <1>0, <1>3, StageKept
  <2>2. UNCHANGED <<isConnected, inService>>
    BY <1>0, <1>3, StageKept
  <2>3. posted'["DISCONNECT"] = posted["DISCONNECT"]
    <3> USE <1>0 DEF Events
    <3>1. CASE RecvStep(t)
      BY <3>1 DEF RecvStep, ObserveRecv, RegisterRecv, WSARecv, RecvError,
         ProcessRecv, OnRecv, ObserveIO
    <3>2. CASE SendStep(t)
      BY <3>2 DEF SendStep, Broadcast, EndBroadcast, ObserveSend, Send, Push,
         RegisterSend, Drain, WSASend, SendError, ProcessSend, OnSend,
         ObserveIO
    <3> QED
      BY <1>3, <3>1, <3>2
  <2>4. CASE ~Crashed
    BY <2>1, <2>2, <2>3, <2>4 DEF StageLabels
  <2>5. CASE Crashed
    <3>1. PICK u \in Threads : pc[u] = "crashed"
      BY <2>5
    <3>2. pc'[u] = "crashed"
      BY <1>0, <1>3, <3>1 DEF ThreadsOK, RecvStep, ObserveRecv, RegisterRecv,
         WSARecv, RecvError, ProcessRecv, OnRecv, ObserveIO, SendStep,
         Broadcast, EndBroadcast, ObserveSend, Send, Push, RegisterSend, Drain,
         WSASend, SendError, ProcessSend, OnSend, CallSend, ReturnFromSend,
         CallDisconnect
    <3> QED
      BY <3>2
  <2> QED
    BY <2>4, <2>5
<1>4. ASSUME NEW t \in Threads, DisconnectStep(t) PROVE OwedInv'
  <2> USE <1>0 DEF ThreadsOK, Events
  <2>1. CASE ObserveDisconnect(t)
    <3>1. pc'[t] \in {"ProcessDisconnect", "crashed"}
      BY <2>1 DEF ObserveDisconnect, ObserveIO
    <3> QED
      BY <3>1
  <2>2. CASE Disconnect(t) /\ isConnected
    <3>1. PICK r \in ExResults :
            IF r = "failed" THEN UNCHANGED posted ELSE Post("DISCONNECT")
      BY <2>2 DEF Disconnect
    <3>2. posted'["DISCONNECT"] = posted["DISCONNECT"] + 1
      BY <3>1
    <3> QED
      BY <3>2
  <2>3. CASE Disconnect(t) /\ ~isConnected
    BY <2>3 DEF Disconnect, ReturnFromDisconnect
  <2>4. CASE DisconnectExError(t)
    BY <2>4 DEF DisconnectExError, ReturnFromDisconnect
  <2>5. CASE ProcessDisconnect(t) \/ OnDisconnected(t)
    <3>1. pc'[t] \in DiscLabels
      BY <2>5 DEF ProcessDisconnect, OnDisconnected
    <3> QED
      BY <3>1
  <2>6. CASE RemoveSession(t)
    BY <2>6 DEF RemoveSession
  <2> QED
    BY <1>4, <2>1, <2>2, <2>3, <2>4, <2>5, <2>6 DEF DisconnectStep
<1>5. CASE UNCHANGED vars
  BY <1>5 DEF vars
<1> QED
  BY <1>1, <1>2, <1>3, <1>4, <1>5, NextCases

\* Session.cpp:45-57, 282-289 (the comment at 286): unless DisconnectEx fails
\* at once, the session's removal is always ahead of it, and exactly once.
THEOREM CleanupAhead ==
  ASSUME "failed" \notin ExResults PROVE Spec => []CleanupOwed
<1>1. Init => OwedInv
  BY DEF Init, OwedInv
<1>2. IInv /\ LinkInv /\ OwedInv /\ [Next]_vars => OwedInv'
  BY OwedPreserved
<1>3. IInv /\ OwedInv => CleanupOwed
  BY DEF IInv, TypeOK, EventsOK, Events, DiscInv, OwedInv, CleanupOwed
<1>4. Init => LinkInv
  BY InitLink
<1>5. IInv /\ LinkInv /\ [Next]_vars => LinkInv'
  BY LinkPreserved
<1> QED
  BY <1>1, <1>2, <1>3, <1>4, <1>5, Invariance, PTL DEF Spec

(* Waiting for locks. *)

\* t cannot go on until u gives a lock up.
WaitsFor(t, u) ==
  \/ pc[t] \in {"Push", "OnSend"} /\ rwLock = u
  \/ /\ ServiceType = "SERVER" /\ pc[t] \in {"OnConnected", "OnDisconnected"}
     /\ managerLock = u

\* Whoever waits, waits for a thread that runs, or for one that waits for a
\* thread that runs.
WaitingEnds ==
  \A t, u, v, w \in Threads : WaitsFor(t, u) /\ WaitsFor(u, v) => ~WaitsFor(v, w)

\* Session.cpp:31, 241 and SessionManager.cpp:7-24: Broadcast calls Send with
\* the manager's lock held, and still no threads wait for each other: the
\* session's lock is never held while the manager's is asked for.
THEOREM NoCircularWait == Spec => []WaitingEnds
<1>1. IInv => WaitingEnds
  <2> SUFFICES ASSUME IInv,
                      NEW t \in Threads, NEW u \in Threads,
                      NEW v \in Threads, NEW w \in Threads,
                      WaitsFor(t, u), WaitsFor(u, v), WaitsFor(v, w)
               PROVE  FALSE
    BY DEF WaitingEnds
  <2>1. LockInv /\ CallInv
    BY DEF IInv
  <2>2. ASSUME NEW x \in Threads, rwLock = x
        PROVE  pc[x] \notin {"Push", "OnSend", "OnConnected", "OnDisconnected"}
    BY <2>1, <2>2 DEF LockInv, InRegisterSend, InDisconnect
  <2>3. ASSUME NEW x \in Threads, managerLock = x
        PROVE  pc[x] \notin {"OnConnected", "OnDisconnected"}
    BY <2>1, <2>3 DEF LockInv, CallInv, SendLabels, InDisconnect
  <2>4. managerLock = u /\ rwLock = v
    BY <2>2, <2>3 DEF WaitsFor
  <2> QED
    BY <2>2, <2>4 DEF WaitsFor
<1> QED
  BY <1>1, Invariance, PTL

=============================================================================
