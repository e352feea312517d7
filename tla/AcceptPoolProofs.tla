-------------------------- MODULE AcceptPoolProofs --------------------------
(***************************************************************************)
(* The safety properties of AcceptPool hold for any number of workers,     *)
(* accept events, clients, failures and broadcasts.  IInv is inductive;    *)
(* each of its parts has a lemma with one step per action.  The parts      *)
(* MainInv, LocalsInv, OpenInv and LeaveInv say which sessions the         *)
(* handlers work on; the lists agree because of them.                      *)
(***************************************************************************)
EXTENDS AcceptPool, FiniteSetTheorems, TLAPS

LEMMA NextCases ==
  ASSUME [Next]_vars
  PROVE  \/ Knock \/ StartWorkers \/ UNCHANGED vars
         \/ \E e \in AcceptEvents : StartAccept(e)
         \/ \E t \in All :
              \/ RegisterAccept(t) \/ ProcessConnect(t) \/ AddSession(t)
              \/ OnConnected(t) \/ RegisterRecv(t) \/ OnDisconnected(t)
              \/ RemoveSession(t) \/ SendNext(t) \/ EndBroadcast(t)
              \/ Broadcast(t)
         \/ \E t \in Threads, e \in AcceptEvents : ProcessAccept(t, e)
         \/ \E t \in Threads, s \in 1 .. created :
              ProcessRecv(t, s) \/ ProcessSend(t, s) \/ ProcessDisconnect(t, s)
  BY DEF Next, Start, Observe, Run, All

(* The parts of the inductive invariant. *)

\* The workers start when main has armed every event.
MainInv ==
  /\ pc[Main] \in {"StartAccept", "RegisterAccept", "done", "crashed"}
  /\ session[Main] = NoSession
  /\ \A t \in Threads :
       /\ pc[t] \notin {"StartAccept", "done"}
       /\ pc[t] # "idle" => pc[Main] = "done"
  /\ pc[Main] = "done" => \A e \in AcceptEvents : acceptSession[e] # NoSession

OpenLabels == {"ProcessConnect", "AddSession", "OnConnected"}
AcceptLabels == OpenLabels \cup {"RegisterRecv"}
LeaveLabels == {"OnDisconnected", "RemoveSession"}

\* A handler has the event and the session it was entered with.
LocalsInv ==
  \A t \in All :
    /\ pc[t] \in AcceptLabels \cup {"RegisterAccept"} => event[t] \in AcceptEvents
    /\ event[t] # NoEvent => pc[t] \in AcceptLabels \cup {"RegisterAccept", "crashed"}
    /\ pc[t] \in AcceptLabels \cup LeaveLabels => session[t] \in 1 .. created
    /\ pc[t] = "Broadcast" => t \in Threads

\* Until OnConnected only the thread that opens a session can reach it, and
\* what is connected is listed or about to be.
OpenInv ==
  /\ sessions \cup connected \cup recvPosted \cup visited \cup manager \subseteq opened
  /\ \A s \in connected :
       s \in sessions \/ \E t \in All : pc[t] = "AddSession" /\ session[t] = s
  /\ \A t, u \in All :
       pc[t] \in AcceptLabels /\ pc[u] \in AcceptLabels /\ session[t] = session[u]
         => t = u
  /\ \A t \in All :
       /\ pc[t] \in OpenLabels => session[t] \notin manager \cup recvPosted \cup visited
       /\ pc[t] = "ProcessConnect" => session[t] \notin opened
       /\ pc[t] = "AddSession" => session[t] \in connected \ sessions
       /\ pc[t] = "OnConnected" => session[t] \in connected \cap sessions

\* One thread processes the disconnect of a session.
LeaveInv ==
  /\ \A t, u \in All :
       pc[t] \in LeaveLabels /\ pc[u] \in LeaveLabels /\ session[t] = session[u]
         => t = u
  /\ \A t \in All : pc[t] = "RemoveSession" => session[t] \notin manager

IInv ==
  /\ TypeOK /\ MainInv /\ LocalsInv /\ AcceptsKept /\ AcceptsFresh
  /\ OpenInv /\ LeaveInv /\ ListsAgree /\ BroadcastReachesAll

\* Every variable keeps its type.
LEMMA TypePreserved ==
  ASSUME TypeOK, MainInv, LocalsInv, AcceptsFresh, [Next]_vars
  PROVE  TypeOK'
<1> USE DEF TypeOK, MainInv, LocalsInv, Labels, AcceptLabels, OpenLabels,
            LeaveLabels, Goto, Step, Return, All, NoSession,
            serviceVars, managerVars, acceptVars, clientVars, sessionVars,
            threadVars
<1>1. CASE Knock
  BY <1>1 DEF Knock
<1>2. CASE StartWorkers
  BY <1>2 DEF StartWorkers
<1>3. ASSUME NEW e \in AcceptEvents, StartAccept(e) PROVE TypeOK'
  BY <1>3 DEF StartAccept
<1>4. ASSUME NEW t \in All, RegisterAccept(t) PROVE TypeOK'
  BY <1>4 DEF RegisterAccept
<1>5. ASSUME NEW t \in Threads, NEW e \in AcceptEvents, ProcessAccept(t, e)
      PROVE  TypeOK'
  BY <1>5 DEF ProcessAccept, AcceptsFresh
<1>6. ASSUME NEW t \in All, ProcessConnect(t) PROVE TypeOK'
  BY <1>6 DEF ProcessConnect
<1>7. ASSUME NEW t \in All, AddSession(t) PROVE TypeOK'
  BY <1>7 DEF AddSession
<1>8. ASSUME NEW t \in All, OnConnected(t) PROVE TypeOK'
  BY <1>8 DEF OnConnected
<1>9. ASSUME NEW t \in All, RegisterRecv(t) PROVE TypeOK'
  BY <1>9 DEF RegisterRecv, Disconnect
<1>10. ASSUME NEW t \in Threads, NEW s \in 1 .. created, ProcessRecv(t, s)
      PROVE  TypeOK'
  BY <1>10 DEF ProcessRecv, Disconnect
<1>11. ASSUME NEW t \in Threads, NEW s \in 1 .. created, ProcessSend(t, s)
      PROVE  TypeOK'
  BY <1>11 DEF ProcessSend, Disconnect
<1>12. ASSUME NEW t \in Threads, NEW s \in 1 .. created, ProcessDisconnect(t, s)
      PROVE  TypeOK'
  BY <1>12 DEF ProcessDisconnect
<1>13. ASSUME NEW t \in All, OnDisconnected(t) PROVE TypeOK'
  BY <1>13 DEF OnDisconnected
<1>14. ASSUME NEW t \in All, RemoveSession(t) PROVE TypeOK'
  BY <1>14 DEF RemoveSession
<1>15. ASSUME NEW t \in All, Broadcast(t) PROVE TypeOK'
  BY <1>15 DEF Broadcast
<1>16. ASSUME NEW t \in All, SendNext(t) PROVE TypeOK'
  BY <1>16 DEF SendNext, Disconnect
<1>17. ASSUME NEW t \in All, EndBroadcast(t) PROVE TypeOK'
  BY <1>17 DEF EndBroadcast
<1>18. CASE UNCHANGED vars
  BY <1>18 DEF vars
<1> QED
  BY <1>1, <1>2, <1>3, <1>4, <1>5, <1>6, <1>7, <1>8, <1>9,
     <1>10, <1>11, <1>12, <1>13, <1>14, <1>15, <1>16, <1>17, <1>18,
     NextCases

\* Main arms every event before a worker runs.
LEMMA MainPreserved ==
  ASSUME TypeOK, MainInv, LocalsInv, [Next]_vars
  PROVE  MainInv'
<1> USE DEF TypeOK, MainInv, LocalsInv, AcceptLabels, OpenLabels, LeaveLabels,
            Goto, Step, Return, All, NoSession,
            serviceVars, managerVars, acceptVars, clientVars, sessionVars,
            threadVars
<1>1. CASE Knock
  BY <1>1 DEF Knock
<1>2. CASE StartWorkers
  BY <1>2 DEF StartWorkers
<1>3. ASSUME NEW e \in AcceptEvents, StartAccept(e) PROVE MainInv'
  BY <1>3 DEF StartAccept
<1>4. ASSUME NEW t \in All, RegisterAccept(t) PROVE MainInv'
  BY <1>4 DEF RegisterAccept
<1>5. ASSUME NEW t \in Threads, NEW e \in AcceptEvents, ProcessAccept(t, e)
      PROVE  MainInv'
  BY <1>5 DEF ProcessAccept
<1>6. ASSUME NEW t \in All, ProcessConnect(t) PROVE MainInv'
  BY <1>6 DEF ProcessConnect
<1>7. ASSUME NEW t \in All, AddSession(t) PROVE MainInv'
  BY <1>7 DEF AddSession
<1>8. ASSUME NEW t \in All, OnConnected(t) PROVE MainInv'
  BY <1>8 DEF OnConnected
<1>9. ASSUME NEW t \in All, RegisterRecv(t) PROVE MainInv'
  BY <1>9 DEF RegisterRecv, Disconnect
<1>10. ASSUME NEW t \in Threads, NEW s \in 1 .. created, ProcessRecv(t, s)
      PROVE  MainInv'
  BY <1>10 DEF ProcessRecv, Disconnect
<1>11. ASSUME NEW t \in Threads, NEW s \in 1 .. created, ProcessSend(t, s)
      PROVE  MainInv'
  BY <1>11 DEF ProcessSend, Disconnect
<1>12. ASSUME NEW t \in Threads, NEW s \in 1 .. created, ProcessDisconnect(t, s)
      PROVE  MainInv'
  BY <1>12 DEF ProcessDisconnect
<1>13. ASSUME NEW t \in All, OnDisconnected(t) PROVE MainInv'
  BY <1>13 DEF OnDisconnected
<1>14. ASSUME NEW t \in All, RemoveSession(t) PROVE MainInv'
  BY <1>14 DEF RemoveSession
<1>15. ASSUME NEW t \in All, Broadcast(t) PROVE MainInv'
  BY <1>15 DEF Broadcast
<1>16. ASSUME NEW t \in All, SendNext(t) PROVE MainInv'
  BY <1>16 DEF SendNext, Disconnect
<1>17. ASSUME NEW t \in All, EndBroadcast(t) PROVE MainInv'
  BY <1>17 DEF EndBroadcast
<1>18. CASE UNCHANGED vars
  BY <1>18 DEF vars
<1> QED
  BY <1>1, <1>2, <1>3, <1>4, <1>5, <1>6, <1>7, <1>8, <1>9,
     <1>10, <1>11, <1>12, <1>13, <1>14, <1>15, <1>16, <1>17, <1>18,
     NextCases

\* Handlers keep their event and session.
LEMMA LocalsPreserved ==
  ASSUME TypeOK, MainInv, LocalsInv, AcceptsFresh, [Next]_vars
  PROVE  LocalsInv'
<1> USE DEF TypeOK, MainInv, LocalsInv, AcceptLabels, OpenLabels, LeaveLabels,
            Goto, Step, Return, All, NoSession,
            serviceVars, managerVars, acceptVars, clientVars, sessionVars,
            threadVars
<1>1. CASE Knock
  BY <1>1 DEF Knock
<1>2. CASE StartWorkers
  BY <1>2 DEF StartWorkers
<1>3. ASSUME NEW e \in AcceptEvents, StartAccept(e) PROVE LocalsInv'
  BY <1>3 DEF StartAccept
<1>4. ASSUME NEW t \in All, RegisterAccept(t) PROVE LocalsInv'
  BY <1>4 DEF RegisterAccept
<1>5. ASSUME NEW t \in Threads, NEW e \in AcceptEvents, ProcessAccept(t, e)
      PROVE  LocalsInv'
  BY <1>5 DEF ProcessAccept, AcceptsFresh
<1>6. ASSUME NEW t \in All, ProcessConnect(t) PROVE LocalsInv'
  BY <1>6 DEF ProcessConnect
<1>7. ASSUME NEW t \in All, AddSession(t) PROVE LocalsInv'
  BY <1>7 DEF AddSession
<1>8. ASSUME NEW t \in All, OnConnected(t) PROVE LocalsInv'
  BY <1>8 DEF OnConnected
<1>9. ASSUME NEW t \in All, RegisterRecv(t) PROVE LocalsInv'
  BY <1>9 DEF RegisterRecv, Disconnect
<1>10. ASSUME NEW t \in Threads, NEW s \in 1 .. created, ProcessRecv(t, s)
      PROVE  LocalsInv'
  BY <1>10 DEF ProcessRecv, Disconnect
<1>11. ASSUME NEW t \in Threads, NEW s \in 1 .. created, ProcessSend(t, s)
      PROVE  LocalsInv'
  BY <1>11 DEF ProcessSend, Disconnect
<1>12. ASSUME NEW t \in Threads, NEW s \in 1 .. created, ProcessDisconnect(t, s)
      PROVE  LocalsInv'
  BY <1>12 DEF ProcessDisconnect
<1>13. ASSUME NEW t \in All, OnDisconnected(t) PROVE LocalsInv'
  BY <1>13 DEF OnDisconnected
<1>14. ASSUME NEW t \in All, RemoveSession(t) PROVE LocalsInv'
  BY <1>14 DEF RemoveSession
<1>15. ASSUME NEW t \in All, Broadcast(t) PROVE LocalsInv'
  BY <1>15 DEF Broadcast
<1>16. ASSUME NEW t \in All, SendNext(t) PROVE LocalsInv'
  BY <1>16 DEF SendNext, Disconnect
<1>17. ASSUME NEW t \in All, EndBroadcast(t) PROVE LocalsInv'
  BY <1>17 DEF EndBroadcast
<1>18. CASE UNCHANGED vars
  BY <1>18 DEF vars
<1> QED
  BY <1>1, <1>2, <1>3, <1>4, <1>5, <1>6, <1>7, <1>8, <1>9,
     <1>10, <1>11, <1>12, <1>13, <1>14, <1>15, <1>16, <1>17, <1>18,
     NextCases

\* No accept slot is lost or doubled.
LEMMA KeptPreserved ==
  ASSUME TypeOK, MainInv, LocalsInv, AcceptsKept, AcceptsFresh, [Next]_vars
  PROVE  AcceptsKept'
<1> USE DEF TypeOK, MainInv, LocalsInv, AcceptsKept, AcceptLabels, OpenLabels,
            Goto, Step, Return, All, NoSession,
            serviceVars, managerVars, acceptVars, clientVars, sessionVars,
            threadVars
<1>1. CASE Knock
  BY <1>1 DEF Knock
<1>2. CASE StartWorkers
  BY <1>2 DEF StartWorkers
<1>3. ASSUME NEW e \in AcceptEvents, StartAccept(e) PROVE AcceptsKept'
  BY <1>3, AcceptAssumption DEF StartAccept, AcceptsFresh
<1>4. ASSUME NEW t \in All, RegisterAccept(t) PROVE AcceptsKept'
  <2>1. event[t] \in AcceptEvents
    BY <1>4 DEF RegisterAccept
  <2>2. CASE UNCHANGED acceptSession
    <3>1. UNCHANGED <<armed, event>>
      BY <1>4, <2>1, <2>2 DEF RegisterAccept
    <3> QED
      BY <2>2, <3>1
  <2>3. CASE /\ acceptSession' = [acceptSession EXCEPT ![event[t]] = created']
             /\ UNCHANGED <<armed, event>>
    BY <2>1, <2>3
  <2>4. CASE /\ acceptSession' = [acceptSession EXCEPT ![event[t]] = created']
             /\ armed' = armed \cup {event[t]}
             /\ event' = [event EXCEPT ![t] = NoEvent]
    BY <2>1, <2>4, AcceptAssumption
  <2> QED
    BY <1>4, <2>2, <2>3, <2>4 DEF RegisterAccept
<1>5. ASSUME NEW t \in Threads, NEW e \in AcceptEvents, ProcessAccept(t, e)
      PROVE  AcceptsKept'
  BY <1>5 DEF ProcessAccept
<1>6. ASSUME NEW t \in All, ProcessConnect(t) PROVE AcceptsKept'
  BY <1>6 DEF ProcessConnect
<1>7. ASSUME NEW t \in All, AddSession(t) PROVE AcceptsKept'
  BY <1>7 DEF AddSession
<1>8. ASSUME NEW t \in All, OnConnected(t) PROVE AcceptsKept'
  BY <1>8 DEF OnConnected
<1>9. ASSUME NEW t \in All, RegisterRecv(t) PROVE AcceptsKept'
  BY <1>9 DEF RegisterRecv, Disconnect
<1>10. ASSUME NEW t \in Threads, NEW s \in 1 .. created, ProcessRecv(t, s)
      PROVE  AcceptsKept'
  BY <1>10 DEF ProcessRecv, Disconnect
<1>11. ASSUME NEW t \in Threads, NEW s \in 1 .. created, ProcessSend(t, s)
      PROVE  AcceptsKept'
  BY <1>11 DEF ProcessSend, Disconnect
<1>12. ASSUME NEW t \in Threads, NEW s \in 1 .. created, ProcessDisconnect(t, s)
      PROVE  AcceptsKept'
  BY <1>12 DEF ProcessDisconnect
<1>13. ASSUME NEW t \in All, OnDisconnected(t) PROVE AcceptsKept'
  BY <1>13 DEF OnDisconnected
<1>14. ASSUME NEW t \in All, RemoveSession(t) PROVE AcceptsKept'
  BY <1>14 DEF RemoveSession
<1>15. ASSUME NEW t \in All, Broadcast(t) PROVE AcceptsKept'
  BY <1>15 DEF Broadcast
<1>16. ASSUME NEW t \in All, SendNext(t) PROVE AcceptsKept'
  BY <1>16 DEF SendNext, Disconnect
<1>17. ASSUME NEW t \in All, EndBroadcast(t) PROVE AcceptsKept'
  BY <1>17 DEF EndBroadcast
<1>18. CASE UNCHANGED vars
  BY <1>18 DEF vars
<1> QED
  BY <1>1, <1>2, <1>3, <1>4, <1>5, <1>6, <1>7, <1>8, <1>9,
     <1>10, <1>11, <1>12, <1>13, <1>14, <1>15, <1>16, <1>17, <1>18,
     NextCases

\* An armed event has a session of its own.
LEMMA FreshPreserved ==
  ASSUME TypeOK, MainInv, LocalsInv, AcceptsKept, AcceptsFresh, ListsAgree,
         [Next]_vars
  PROVE  AcceptsFresh'
<1> USE DEF TypeOK, MainInv, LocalsInv, AcceptsFresh, AcceptLabels,
            OpenLabels, LeaveLabels, Goto, Step, Return, All, NoSession,
            serviceVars, managerVars, acceptVars, clientVars, sessionVars,
            threadVars
<1>1. CASE Knock
  BY <1>1 DEF Knock
<1>2. CASE StartWorkers
  BY <1>2 DEF StartWorkers
<1>3. ASSUME NEW e \in AcceptEvents, StartAccept(e) PROVE AcceptsFresh'
  BY <1>3 DEF StartAccept
<1>4. ASSUME NEW t \in All, RegisterAccept(t) PROVE AcceptsFresh'
  BY <1>4 DEF RegisterAccept
<1>5. ASSUME NEW t \in Threads, NEW e \in AcceptEvents, ProcessAccept(t, e)
      PROVE  AcceptsFresh'
  BY <1>5 DEF ProcessAccept
<1>6. ASSUME NEW t \in All, ProcessConnect(t) PROVE AcceptsFresh'
  BY <1>6 DEF ProcessConnect
<1>7. ASSUME NEW t \in All, AddSession(t) PROVE AcceptsFresh'
  BY <1>7 DEF AddSession
<1>8. ASSUME NEW t \in All, OnConnected(t) PROVE AcceptsFresh'
  BY <1>8 DEF OnConnected
<1>9. ASSUME NEW t \in All, RegisterRecv(t) PROVE AcceptsFresh'
  BY <1>9 DEF RegisterRecv, Disconnect
<1>10. ASSUME NEW t \in Threads, NEW s \in 1 .. created, ProcessRecv(t, s)
      PROVE  AcceptsFresh'
  BY <1>10 DEF ProcessRecv, Disconnect
<1>11. ASSUME NEW t \in Threads, NEW s \in 1 .. created, ProcessSend(t, s)
      PROVE  AcceptsFresh'
  BY <1>11 DEF ProcessSend, Disconnect
<1>12. ASSUME NEW t \in Threads, NEW s \in 1 .. created, ProcessDisconnect(t, s)
      PROVE  AcceptsFresh'
  BY <1>12 DEF ProcessDisconnect, ListsAgree
<1>13. ASSUME NEW t \in All, OnDisconnected(t) PROVE AcceptsFresh'
  BY <1>13 DEF OnDisconnected
<1>14. ASSUME NEW t \in All, RemoveSession(t) PROVE AcceptsFresh'
  BY <1>14 DEF RemoveSession
<1>15. ASSUME NEW t \in All, Broadcast(t) PROVE AcceptsFresh'
  BY <1>15 DEF Broadcast
<1>16. ASSUME NEW t \in All, SendNext(t) PROVE AcceptsFresh'
  BY <1>16 DEF SendNext, Disconnect
<1>17. ASSUME NEW t \in All, EndBroadcast(t) PROVE AcceptsFresh'
  BY <1>17 DEF EndBroadcast
<1>18. CASE UNCHANGED vars
  BY <1>18 DEF vars
<1> QED
  BY <1>1, <1>2, <1>3, <1>4, <1>5, <1>6, <1>7, <1>8, <1>9,
     <1>10, <1>11, <1>12, <1>13, <1>14, <1>15, <1>16, <1>17, <1>18,
     NextCases

\* A session is opened by one thread, before anybody else can reach it.
LEMMA OpenPreserved ==
  ASSUME TypeOK, MainInv, LocalsInv, AcceptsKept, AcceptsFresh, OpenInv, ListsAgree,
         BroadcastReachesAll, [Next]_vars
  PROVE  OpenInv'
<1> USE DEF TypeOK, MainInv, LocalsInv, OpenInv, AcceptLabels, OpenLabels,
            LeaveLabels, Goto, Step, Return, All, NoSession,
            serviceVars, managerVars, acceptVars, clientVars, sessionVars,
            threadVars
<1>1. CASE Knock
  BY <1>1 DEF Knock
<1>2. CASE StartWorkers
  BY <1>2 DEF StartWorkers
<1>3. ASSUME NEW e \in AcceptEvents, StartAccept(e) PROVE OpenInv'
  BY <1>3 DEF StartAccept
<1>4. ASSUME NEW t \in All, RegisterAccept(t) PROVE OpenInv'
  BY <1>4 DEF RegisterAccept
<1>5. ASSUME NEW t \in Threads, NEW e \in AcceptEvents, ProcessAccept(t, e)
      PROVE  OpenInv'
  BY <1>5 DEF ProcessAccept, AcceptsFresh
<1>6. ASSUME NEW t \in All, ProcessConnect(t) PROVE OpenInv'
  BY <1>6 DEF ProcessConnect
<1>7. ASSUME NEW t \in All, AddSession(t) PROVE OpenInv'
  BY <1>7 DEF AddSession
<1>8. ASSUME NEW t \in All, OnConnected(t) PROVE OpenInv'
  BY <1>8 DEF OnConnected
<1>9. ASSUME NEW t \in All, RegisterRecv(t) PROVE OpenInv'
  BY <1>9 DEF RegisterRecv, Disconnect
<1>10. ASSUME NEW t \in Threads, NEW s \in 1 .. created, ProcessRecv(t, s)
      PROVE  OpenInv'
  BY <1>10 DEF ProcessRecv, Disconnect
<1>11. ASSUME NEW t \in Threads, NEW s \in 1 .. created, ProcessSend(t, s)
      PROVE  OpenInv'
  BY <1>11 DEF ProcessSend, Disconnect
<1>12. ASSUME NEW t \in Threads, NEW s \in 1 .. created, ProcessDisconnect(t, s)
      PROVE  OpenInv'
  BY <1>12 DEF ProcessDisconnect
<1>13. ASSUME NEW t \in All, OnDisconnected(t) PROVE OpenInv'
  BY <1>13 DEF OnDisconnected
<1>14. ASSUME NEW t \in All, RemoveSession(t) PROVE OpenInv'
  BY <1>14 DEF RemoveSession, ListsAgree
<1>15. ASSUME NEW t \in All, Broadcast(t) PROVE OpenInv'
  BY <1>15 DEF Broadcast
<1>16. ASSUME NEW t \in All, SendNext(t) PROVE OpenInv'
  BY <1>16 DEF SendNext, Disconnect
<1>17. ASSUME NEW t \in All, EndBroadcast(t) PROVE OpenInv'
  BY <1>17 DEF EndBroadcast
<1>18. CASE UNCHANGED vars
  BY <1>18 DEF vars
<1> QED
  BY <1>1, <1>2, <1>3, <1>4, <1>5, <1>6, <1>7, <1>8, <1>9,
     <1>10, <1>11, <1>12, <1>13, <1>14, <1>15, <1>16, <1>17, <1>18,
     NextCases

\* A disconnect is processed by one thread.
LEMMA LeavePreserved ==
  ASSUME TypeOK, MainInv, LocalsInv, OpenInv, LeaveInv, ListsAgree, [Next]_vars
  PROVE  LeaveInv'
<1> USE DEF TypeOK, LeaveInv, AcceptLabels, OpenLabels, LeaveLabels,
            Goto, Step, Return, All, NoSession,
            serviceVars, managerVars, acceptVars, clientVars, sessionVars,
            threadVars
<1>1. CASE Knock
  BY <1>1 DEF Knock
<1>2. CASE StartWorkers
  BY <1>2 DEF StartWorkers
<1>3. ASSUME NEW e \in AcceptEvents, StartAccept(e) PROVE LeaveInv'
  BY <1>3 DEF StartAccept
<1>4. ASSUME NEW t \in All, RegisterAccept(t) PROVE LeaveInv'
  BY <1>4 DEF RegisterAccept
<1>5. ASSUME NEW t \in Threads, NEW e \in AcceptEvents, ProcessAccept(t, e)
      PROVE  LeaveInv'
  BY <1>5 DEF ProcessAccept
<1>6. ASSUME NEW t \in All, ProcessConnect(t) PROVE LeaveInv'
  BY <1>6 DEF ProcessConnect
<1>7. ASSUME NEW t \in All, AddSession(t) PROVE LeaveInv'
  BY <1>7 DEF AddSession
<1>8. ASSUME NEW t \in All, OnConnected(t) PROVE LeaveInv'
  BY <1>8 DEF OnConnected, ListsAgree, OpenInv
<1>9. ASSUME NEW t \in All, RegisterRecv(t) PROVE LeaveInv'
  BY <1>9 DEF RegisterRecv, Disconnect
<1>10. ASSUME NEW t \in Threads, NEW s \in 1 .. created, ProcessRecv(t, s)
      PROVE  LeaveInv'
  BY <1>10 DEF ProcessRecv, Disconnect
<1>11. ASSUME NEW t \in Threads, NEW s \in 1 .. created, ProcessSend(t, s)
      PROVE  LeaveInv'
  BY <1>11 DEF ProcessSend, Disconnect
<1>12. ASSUME NEW t \in Threads, NEW s \in 1 .. created, ProcessDisconnect(t, s)
      PROVE  LeaveInv'
  BY <1>12 DEF ProcessDisconnect, ListsAgree
<1>13. ASSUME NEW t \in All, OnDisconnected(t) PROVE LeaveInv'
  BY <1>13 DEF OnDisconnected
<1>14. ASSUME NEW t \in All, RemoveSession(t) PROVE LeaveInv'
  BY <1>14 DEF RemoveSession
<1>15. ASSUME NEW t \in All, Broadcast(t) PROVE LeaveInv'
  BY <1>15 DEF Broadcast
<1>16. ASSUME NEW t \in All, SendNext(t) PROVE LeaveInv'
  BY <1>16 DEF SendNext, Disconnect
<1>17. ASSUME NEW t \in All, EndBroadcast(t) PROVE LeaveInv'
  BY <1>17 DEF EndBroadcast
<1>18. CASE UNCHANGED vars
  BY <1>18 DEF vars
<1> QED
  BY <1>1, <1>2, <1>3, <1>4, <1>5, <1>6, <1>7, <1>8, <1>9,
     <1>10, <1>11, <1>12, <1>13, <1>14, <1>15, <1>16, <1>17, <1>18,
     NextCases

\* The lock keeps the set still while Broadcast walks it.
LEMMA BroadcastPreserved ==
  ASSUME TypeOK, LocalsInv, BroadcastReachesAll, [Next]_vars
  PROVE  BroadcastReachesAll'
<1> USE DEF TypeOK, LocalsInv, BroadcastReachesAll, Goto, Step, Return, All, NoSession,
            serviceVars, managerVars, acceptVars, clientVars, sessionVars,
            threadVars
<1>1. CASE Knock
  BY <1>1 DEF Knock
<1>2. CASE StartWorkers
  BY <1>2 DEF StartWorkers
<1>3. ASSUME NEW e \in AcceptEvents, StartAccept(e) PROVE BroadcastReachesAll'
  BY <1>3 DEF StartAccept
<1>4. ASSUME NEW t \in All, RegisterAccept(t) PROVE BroadcastReachesAll'
  BY <1>4 DEF RegisterAccept
<1>5. ASSUME NEW t \in Threads, NEW e \in AcceptEvents, ProcessAccept(t, e)
      PROVE  BroadcastReachesAll'
  BY <1>5 DEF ProcessAccept
<1>6. ASSUME NEW t \in All, ProcessConnect(t) PROVE BroadcastReachesAll'
  BY <1>6 DEF ProcessConnect
<1>7. ASSUME NEW t \in All, AddSession(t) PROVE BroadcastReachesAll'
  BY <1>7 DEF AddSession
<1>8. ASSUME NEW t \in All, OnConnected(t) PROVE BroadcastReachesAll'
  BY <1>8, AcceptAssumption DEF OnConnected
<1>9. ASSUME NEW t \in All, RegisterRecv(t) PROVE BroadcastReachesAll'
  BY <1>9 DEF RegisterRecv, Disconnect
<1>10. ASSUME NEW t \in Threads, NEW s \in 1 .. created, ProcessRecv(t, s)
      PROVE  BroadcastReachesAll'
  BY <1>10 DEF ProcessRecv, Disconnect
<1>11. ASSUME NEW t \in Threads, NEW s \in 1 .. created, ProcessSend(t, s)
      PROVE  BroadcastReachesAll'
  BY <1>11 DEF ProcessSend, Disconnect
<1>12. ASSUME NEW t \in Threads, NEW s \in 1 .. created, ProcessDisconnect(t, s)
      PROVE  BroadcastReachesAll'
  BY <1>12 DEF ProcessDisconnect
<1>13. ASSUME NEW t \in All, OnDisconnected(t) PROVE BroadcastReachesAll'
  BY <1>13, AcceptAssumption DEF OnDisconnected
<1>14. ASSUME NEW t \in All, RemoveSession(t) PROVE BroadcastReachesAll'
  BY <1>14 DEF RemoveSession
<1>15. ASSUME NEW t \in All, Broadcast(t) PROVE BroadcastReachesAll'
  BY <1>15, AcceptAssumption DEF Broadcast
<1>16. ASSUME NEW t \in All, SendNext(t) PROVE BroadcastReachesAll'
  BY <1>16 DEF SendNext, Disconnect
<1>17. ASSUME NEW t \in All, EndBroadcast(t) PROVE BroadcastReachesAll'
  BY <1>17 DEF EndBroadcast
<1>18. CASE UNCHANGED vars
  BY <1>18 DEF vars
<1> QED
  BY <1>1, <1>2, <1>3, <1>4, <1>5, <1>6, <1>7, <1>8, <1>9,
     <1>10, <1>11, <1>12, <1>13, <1>14, <1>15, <1>16, <1>17, <1>18,
     NextCases

\* The count follows the list.
LEMMA CountPreserved ==
  ASSUME TypeOK, MainInv, LocalsInv, OpenInv, ListsAgree, [Next]_vars
  PROVE  sessionCount' = Cardinality(sessions')
<1> USE DEF serviceVars
<1>1. sessionCount = Cardinality(sessions) /\ IsFiniteSet(sessions)
  <2>1. 1 \in Int /\ created \in Int /\ sessions \subseteq 1 .. created
    BY DEF TypeOK
  <2>2. IsFiniteSet(1 .. created)
    BY <2>1, FS_Interval
  <2> QED
    BY <2>1, <2>2, FS_Subset DEF ListsAgree
<1>2. ASSUME NEW t \in All, AddSession(t)
      PROVE  sessionCount' = Cardinality(sessions')
  <2>1. session[t] \notin sessions
    BY <1>2 DEF AddSession, Step, OpenInv
  <2>2. Cardinality(sessions \cup {session[t]}) = Cardinality(sessions) + 1
    BY <1>1, <2>1, FS_AddElement
  <2> QED
    BY <1>1, <1>2, <2>2 DEF AddSession
<1>3. ASSUME NEW t \in All, RemoveSession(t)
      PROVE  sessionCount' = Cardinality(sessions')
  <2>1. session[t] \in sessions
    BY <1>3 DEF RemoveSession, ListsAgree
  <2>2. Cardinality(sessions \ {session[t]}) = Cardinality(sessions) - 1
    BY <1>1, <2>1, FS_RemoveElement
  <2> QED
    BY <1>1, <1>3, <2>2 DEF RemoveSession
<1>4. CASE UNCHANGED serviceVars
  BY <1>1, <1>4
<1>5. \/ UNCHANGED serviceVars
      \/ \E t \in All : AddSession(t) \/ RemoveSession(t)
  BY NextCases DEF Knock, StartWorkers, StartAccept, RegisterAccept,
     ProcessAccept, ProcessConnect, OnConnected, RegisterRecv, ProcessRecv,
     ProcessSend, ProcessDisconnect, OnDisconnected, Broadcast, SendNext,
     EndBroadcast, vars
<1> QED
  BY <1>2, <1>3, <1>4, <1>5

\* The manager knows listed sessions only, and a disconnect finds its own.
LEMMA ListsPreserved ==
  ASSUME TypeOK, MainInv, LocalsInv, OpenInv, LeaveInv, ListsAgree,
         BroadcastReachesAll, [Next]_vars
  PROVE  ListsAgree'
<1> DEFINE Rest ==
     /\ manager \subseteq sessions
     /\ discPosted \subseteq sessions \ connected
     /\ \A t \in All : pc[t] \in {"OnDisconnected", "RemoveSession"} =>
          session[t] \in sessions \ (connected \cup discPosted)
<1>0. Rest
  BY DEF ListsAgree
<1>count. sessionCount' = Cardinality(sessions')
  BY CountPreserved
<1> SUFFICES Rest'
  BY <1>count DEF ListsAgree
<1> USE <1>0 DEF TypeOK, LocalsInv, OpenInv, LeaveInv, AcceptLabels, OpenLabels,
            LeaveLabels, Goto, Step, Return, All, NoSession,
            serviceVars, managerVars, acceptVars, clientVars, sessionVars,
            threadVars
<1>1. CASE Knock
  BY <1>1 DEF Knock
<1>2. CASE StartWorkers
  BY <1>2 DEF StartWorkers
<1>3. ASSUME NEW e \in AcceptEvents, StartAccept(e) PROVE Rest'
  BY <1>3 DEF StartAccept
<1>4. ASSUME NEW t \in All, RegisterAccept(t) PROVE Rest'
  BY <1>4 DEF RegisterAccept
<1>5. ASSUME NEW t \in Threads, NEW e \in AcceptEvents, ProcessAccept(t, e)
      PROVE  Rest'
  BY <1>5 DEF ProcessAccept
<1>6. ASSUME NEW t \in All, ProcessConnect(t) PROVE Rest'
  BY <1>6 DEF ProcessConnect
<1>7. ASSUME NEW t \in All, AddSession(t) PROVE Rest'
  BY <1>7 DEF AddSession
<1>8. ASSUME NEW t \in All, OnConnected(t) PROVE Rest'
  BY <1>8 DEF OnConnected
<1>9. ASSUME NEW t \in All, RegisterRecv(t) PROVE Rest'
  BY <1>9 DEF RegisterRecv, Disconnect
<1>10. ASSUME NEW t \in Threads, NEW s \in 1 .. created, ProcessRecv(t, s)
      PROVE  Rest'
  BY <1>10 DEF ProcessRecv, Disconnect
<1>11. ASSUME NEW t \in Threads, NEW s \in 1 .. created, ProcessSend(t, s)
      PROVE  Rest'
  BY <1>11 DEF ProcessSend, Disconnect
<1>12. ASSUME NEW t \in Threads, NEW s \in 1 .. created, ProcessDisconnect(t, s)
      PROVE  Rest'
  BY <1>12 DEF ProcessDisconnect
<1>13. ASSUME NEW t \in All, OnDisconnected(t) PROVE Rest'
  BY <1>13 DEF OnDisconnected
<1>14. ASSUME NEW t \in All, RemoveSession(t) PROVE Rest'
  BY <1>14 DEF RemoveSession
<1>15. ASSUME NEW t \in All, Broadcast(t) PROVE Rest'
  BY <1>15 DEF Broadcast
<1>16. ASSUME NEW t \in All, SendNext(t) PROVE Rest'
  BY <1>16 DEF SendNext, Disconnect
<1>17. ASSUME NEW t \in All, EndBroadcast(t) PROVE Rest'
  BY <1>17 DEF EndBroadcast
<1>18. CASE UNCHANGED vars
  BY <1>18 DEF vars
<1> QED
  BY <1>1, <1>2, <1>3, <1>4, <1>5, <1>6, <1>7, <1>8, <1>9,
     <1>10, <1>11, <1>12, <1>13, <1>14, <1>15, <1>16, <1>17, <1>18,
     NextCases

LEMMA InitInv == Init => IInv
<1> SUFFICES ASSUME Init PROVE IInv
  OBVIOUS
<1> USE AcceptAssumption DEF Init, All, NoSession
<1>1. TypeOK
  BY DEF TypeOK, Labels
<1>2. MainInv /\ LocalsInv
  BY DEF MainInv, LocalsInv, AcceptLabels, OpenLabels, LeaveLabels
<1>3. AcceptsKept /\ AcceptsFresh
  BY DEF AcceptsKept, AcceptsFresh
<1>4. OpenInv /\ LeaveInv
  BY DEF OpenInv, LeaveInv, AcceptLabels, OpenLabels, LeaveLabels
<1>5. ListsAgree
  BY FS_EmptySet DEF ListsAgree
<1>6. BroadcastReachesAll
  BY DEF BroadcastReachesAll
<1> QED
  BY <1>1, <1>2, <1>3, <1>4, <1>5, <1>6 DEF IInv

LEMMA NextInv == IInv /\ [Next]_vars => IInv'
  BY TypePreserved, MainPreserved, LocalsPreserved, KeptPreserved,
     FreshPreserved, OpenPreserved, LeavePreserved, ListsPreserved,
     BroadcastPreserved DEF IInv

\* In every reachable state, whatever the numbers of workers, events and
\* clients, the invariant holds (Listener.cpp, Service.cpp, SessionManager.cpp).
THEOREM Invariance == Spec => []IInv
  BY InitInv, NextInv, PTL DEF Spec

(* What the reader should know of. *)

\* The types of the model's variables: a null session is never connected,
\* listed or sent to (Listener.cpp:66-110).
THEOREM TypeCorrect == Spec => []TypeOK
  BY Invariance, PTL DEF IInv

\* Listener.cpp:66-110: no accept slot is lost or served by two threads.
THEOREM SlotsKept == Spec => []AcceptsKept
  BY Invariance, PTL DEF IInv

\* Listener.cpp:68-74: an armed accept has a socket nobody else uses.
THEOREM SocketsFresh == Spec => []AcceptsFresh
  BY Invariance, PTL DEF IInv

\* Service.cpp:45-58 and SessionManager.cpp:5-15: the lists and the count of
\* all sessions agree.
THEOREM RegistriesAgree == Spec => []ListsAgree
  BY Invariance, PTL DEF IInv

\* SessionManager.cpp:17-25: nobody enters or leaves the set under
\* Broadcast's iterator.
THEOREM BroadcastComplete == Spec => []BroadcastReachesAll
  BY Invariance, PTL DEF IInv

(* No session is made for nothing. *)

\* The bounds of the model are kept, nobody leaves the listen queue who has
\* not entered it, and every session made is accounted for.
BoundInv ==
  /\ waiting <= clients /\ clients <= MaxClients /\ fails <= MaxFails
  /\ SocketsBounded

\* Sessions are made, and slots armed and taken, by two actions only.
LEMMA CountsKept ==
  ASSUME TypeOK, [Next]_vars
  PROVE  \/ UNCHANGED <<armed, created, fails, waiting, clients>>
         \/ Knock
         \/ \E t \in All : RegisterAccept(t)
         \/ \E t \in Threads, e \in AcceptEvents : ProcessAccept(t, e)
<1> DEFINE Kept == UNCHANGED <<armed, created, fails, waiting, clients>>
<1> USE DEF acceptVars, clientVars
<1>1. ASSUME StartWorkers \/ UNCHANGED vars PROVE Kept
  BY <1>1 DEF StartWorkers, vars
<1>2. ASSUME NEW e \in AcceptEvents, StartAccept(e) PROVE Kept
  BY <1>2 DEF StartAccept
<1>3. ASSUME NEW t \in All,
             \/ ProcessConnect(t) \/ AddSession(t) \/ OnConnected(t)
             \/ RegisterRecv(t) \/ OnDisconnected(t) \/ RemoveSession(t)
             \/ SendNext(t) \/ EndBroadcast(t) \/ Broadcast(t)
      PROVE  Kept
  BY <1>3 DEF ProcessConnect, AddSession, OnConnected, RegisterRecv,
     OnDisconnected, RemoveSession, SendNext, EndBroadcast, Broadcast
<1>4. ASSUME NEW t \in Threads, NEW s \in 1 .. created,
             ProcessRecv(t, s) \/ ProcessSend(t, s) \/ ProcessDisconnect(t, s)
      PROVE  Kept
  BY <1>4 DEF ProcessRecv, ProcessSend, ProcessDisconnect
<1> QED
  BY <1>1, <1>2, <1>3, <1>4, NextCases

\* The slots are finitely many, and arming or taking one counts as one.
LEMMA ArmedCount ==
  ASSUME TypeOK, NEW e \in AcceptEvents
  PROVE  /\ Cardinality(armed) \in Nat
         /\ Cardinality(armed) <= Cardinality(AcceptEvents)
         /\ e \notin armed =>
              Cardinality(armed \cup {e}) = Cardinality(armed) + 1
         /\ e \in armed =>
              Cardinality(armed \ {e}) = Cardinality(armed) - 1
<1>1. IsFiniteSet(armed) /\ Cardinality(armed) <= Cardinality(AcceptEvents)
  BY AcceptAssumption, FS_Subset DEF TypeOK
<1> QED
  BY <1>1, FS_CardinalityType, FS_AddElement, FS_RemoveElement

LEMMA BoundPreserved ==
  ASSUME TypeOK, LocalsInv, AcceptsKept, BoundInv, [Next]_vars
  PROVE  BoundInv'
<1> USE DEF TypeOK, BoundInv, SocketsBounded
<1>1. CASE UNCHANGED <<armed, created, fails, waiting, clients>>
  BY <1>1
<1>2. CASE Knock
  <2>1. UNCHANGED <<armed, created, fails>>
    BY <1>2 DEF Knock, acceptVars
  <2>2. clients' - waiting' = clients - waiting
    BY <1>2 DEF Knock
  <2>3. waiting' <= clients' /\ clients' <= MaxClients
    BY <1>2, AcceptAssumption DEF Knock
  <2> QED
    BY <2>1, <2>2, <2>3
<1>3. ASSUME NEW t \in All, RegisterAccept(t) PROVE BoundInv'
  <2>1. event[t] \in AcceptEvents /\ event[t] \notin armed
    BY <1>3 DEF RegisterAccept, LocalsInv, AcceptsKept
  <2>2. /\ Cardinality(armed) \in Nat
        /\ Cardinality(armed \cup {event[t]}) = Cardinality(armed) + 1
    BY <2>1, ArmedCount
  <2>3. UNCHANGED <<waiting, clients>>
    BY <1>3 DEF RegisterAccept, clientVars
  <2>4. CASE /\ created' = created + 1 /\ armed' = armed \cup {event[t]}
             /\ UNCHANGED fails
    <3>1. Cardinality(armed') = Cardinality(armed) + 1
      BY <2>2, <2>4
    <3> QED
      BY <2>2, <2>3, <2>4, <3>1
  <2>5. CASE /\ created' \in {created, created + 1} /\ UNCHANGED armed
             /\ fails < MaxFails /\ fails' = fails + 1
    BY <2>2, <2>3, <2>5, AcceptAssumption
  <2> QED
    BY <1>3, <2>4, <2>5 DEF RegisterAccept
<1>4. ASSUME NEW t \in Threads, NEW e \in AcceptEvents, ProcessAccept(t, e)
      PROVE  BoundInv'
  <2>1. /\ armed' = armed \ {e} /\ waiting' = waiting - 1 /\ waiting > 0
        /\ UNCHANGED <<created, clients>>
        /\ fails' \in {fails, fails + 1} /\ fails' <= MaxFails
    BY <1>4, AcceptAssumption DEF ProcessAccept
  <2>2. /\ Cardinality(armed) \in Nat
        /\ Cardinality(armed \ {e}) = Cardinality(armed) - 1
    BY <1>4, ArmedCount DEF ProcessAccept
  <2>3. Cardinality(armed') = Cardinality(armed) - 1
    BY <2>1, <2>2
  <2> QED
    BY <2>1, <2>2, <2>3
<1> QED
  BY <1>1, <1>2, <1>3, <1>4, CountsKept

LEMMA BoundInvariance == Spec => []BoundInv
<1>1. Init => BoundInv
  BY AcceptAssumption, FS_EmptySet DEF Init, BoundInv, SocketsBounded
<1>2. IInv /\ BoundInv /\ [Next]_vars => BoundInv'
  BY BoundPreserved DEF IInv
<1> QED
  BY <1>1, <1>2, Invariance, PTL DEF Spec

\* Listener.cpp:66-82 and 87-110: however accepts fail and are tried again, a
\* session is made for an armed slot, a client that was taken or an accept
\* that failed, and for nothing else.
THEOREM SocketsLimited == Spec => []SocketsBounded
  BY BoundInvariance, PTL DEF BoundInv

\* LifeSpec speaks of the sessions 1 .. SessionBound; no behaviour makes
\* another (Listener.cpp:66-82), so it speaks of all.
THEOREM EverySessionCovered == Spec => [](created <= SessionBound)
<1>1. TypeOK /\ BoundInv => created <= SessionBound
  <2> SUFFICES ASSUME TypeOK, BoundInv PROVE created <= SessionBound
    OBVIOUS
  <2>1. IsFiniteSet(armed) /\ Cardinality(armed) <= Cardinality(AcceptEvents)
    BY AcceptAssumption, FS_Subset DEF TypeOK
  <2>2. Cardinality(armed) \in Nat /\ Cardinality(AcceptEvents) \in Nat
    BY <2>1, AcceptAssumption, FS_CardinalityType
  <2> QED
    BY <2>1, <2>2, AcceptAssumption
    DEF TypeOK, BoundInv, SocketsBounded, SessionBound
<1> QED
  BY <1>1, BoundInvariance, TypeCorrect, PTL

(* Every session lives the life of SessionLife. *)

\* A session that no list takes or drops, and that nobody starts or ends to
\* open or to remove, stays in its stage.
LEMMA LifeStutters ==
  ASSUME NEW s,
         \A t \in All : \A l \in {"OnConnected", "RemoveSession"} :
           (pc'[t] = l /\ session'[t] = s) <=> (pc[t] = l /\ session[t] = s),
         s \in connected' <=> s \in connected,
         s \in sessions' <=> s \in sessions,
         s \in manager' <=> s \in manager,
         s \in opened' <=> s \in opened
  PROVE  UNCHANGED LifeOf(s)!life
<1>1. /\ SomebodyAt("OnConnected", s)' <=> SomebodyAt("OnConnected", s)
      /\ SomebodyAt("RemoveSession", s)' <=> SomebodyAt("RemoveSession", s)
  BY DEF SomebodyAt
<1>2. UNCHANGED StageOf(s)
  BY <1>1 DEF StageOf
<1>3. UNCHANGED <<s \in connected, s \in sessions, s \in manager>>
  OBVIOUS
<1> QED
  BY <1>2, <1>3 DEF LifeOf!life

\* Disconnect closes an open session and no other.
LEMMA DisconnectCloses ==
  ASSUME IInv, NEW s, NEW d, Disconnect(d),
         \A t \in All : pc[t] \in OpenLabels => session[t] # d,
         \A t \in All : \A l \in {"OnConnected", "RemoveSession"} :
           (pc'[t] = l /\ session'[t] = s) <=> (pc[t] = l /\ session[t] = s),
         UNCHANGED <<sessions, manager, opened>>
  PROVE  LifeOf(s)!Next \/ UNCHANGED LifeOf(s)!life
<1>1. connected' = connected \ {d}
  BY DEF Disconnect
<1>2. CASE s # d \/ s \notin connected
  <2>1. s \in connected' <=> s \in connected
    BY <1>1, <1>2
  <2> QED
    BY <2>1, LifeStutters
<1>3. CASE s = d /\ s \in connected
  <2>1. s \in sessions /\ ~SomebodyAt("OnConnected", s)
    BY <1>3 DEF IInv, OpenInv, OpenLabels, SomebodyAt
  <2>2. ~SomebodyAt("RemoveSession", s)
    BY <1>3 DEF IInv, ListsAgree, SomebodyAt
  <2>3. ~SomebodyAt("RemoveSession", s)'
    BY <2>2 DEF SomebodyAt
  <2>4. s \notin connected' /\ s \in sessions'
    BY <1>1, <1>3, <2>1
  <2>5. StageOf(s) = "open" /\ StageOf(s)' = "closing"
    BY <1>3, <2>1, <2>3, <2>4 DEF StageOf
  <2>6. UNCHANGED <<s \in sessions, s \in manager>>
    OBVIOUS
  <2> QED
    BY <2>4, <2>5, <2>6 DEF LifeOf!Next, LifeOf!Disconnect, LifeOf!Advance
<1> QED
  BY <1>2, <1>3

LEMMA LifeStep ==
  ASSUME IInv, [Next]_vars, NEW s
  PROVE  LifeOf(s)!Next \/ UNCHANGED LifeOf(s)!life
<1> DEFINE Lives == LifeOf(s)!Next \/ UNCHANGED LifeOf(s)!life
           Steady == \A t \in All : \A l \in {"OnConnected", "RemoveSession"} :
             (pc'[t] = l /\ session'[t] = s) <=> (pc[t] = l /\ session[t] = s)
           Lists == UNCHANGED <<connected, sessions, manager, opened>>
<1>0. /\ TypeOK /\ MainInv /\ LocalsInv /\ OpenInv /\ LeaveInv /\ ListsAgree
      /\ pc \in [All -> Labels] /\ session \in [All -> 0 .. created]
  BY DEF IInv, TypeOK
<1>still. Steady /\ Lists => UNCHANGED LifeOf(s)!life
  BY LifeStutters
<1> HIDE DEF Lives
<1> USE DEF serviceVars, managerVars, acceptVars, clientVars, sessionVars,
            threadVars
<1>1. ASSUME Knock \/ StartWorkers PROVE Lives
  <2>1. Steady /\ Lists
    BY <1>0, <1>1 DEF Knock, StartWorkers, Step, Goto, All
  <2> QED
    BY <2>1, <1>still DEF Lives
<1>2. ASSUME NEW e \in AcceptEvents, StartAccept(e) PROVE Lives
  <2>1. Steady /\ Lists
    BY <1>0, <1>2 DEF StartAccept, Step, Goto, All
  <2> QED
    BY <2>1, <1>still DEF Lives
<1>3. ASSUME NEW t \in All, RegisterAccept(t) PROVE Lives
  <2>1. Steady /\ Lists
    BY <1>0, <1>3 DEF RegisterAccept, Return, Goto
  <2> QED
    BY <2>1, <1>still DEF Lives
<1>4. ASSUME NEW t \in Threads, NEW e \in AcceptEvents, ProcessAccept(t, e)
      PROVE  Lives
  <2>1. Steady /\ Lists
    BY <1>0, <1>4 DEF ProcessAccept, Goto, All
  <2> QED
    BY <2>1, <1>still DEF Lives
<1>5. ASSUME NEW t \in All, ProcessConnect(t) PROVE Lives
  <2>1. /\ pc[t] = "ProcessConnect" /\ pc'[t] = "AddSession"
        /\ \A u \in All \ {t} : pc'[u] = pc[u]
        /\ UNCHANGED <<session, sessions, manager>>
        /\ connected' = connected \cup {session[t]}
        /\ opened' = opened \cup {session[t]}
    BY <1>0, <1>5 DEF ProcessConnect, Step, Goto
  <2>2. CASE s = session[t]
    <3>1. s \notin opened /\ s \notin connected /\ s \notin sessions
      BY <1>0, <2>1, <2>2 DEF OpenInv
    <3>2. s \in connected' /\ s \notin sessions'
      BY <2>1, <2>2, <3>1
    <3>3. StageOf(s) = "new" /\ StageOf(s)' = "connected"
      BY <3>1, <3>2 DEF StageOf
    <3>4. UNCHANGED <<s \in sessions, s \in manager>>
      BY <2>1
    <3> QED
      BY <3>2, <3>3, <3>4 DEF Lives, LifeOf!Next, LifeOf!Connect, LifeOf!Advance
  <2>3. CASE s # session[t]
    <3>1. /\ Steady
          /\ s \in connected' <=> s \in connected
          /\ s \in opened' <=> s \in opened
      BY <2>1, <2>3
    <3> QED
      BY <2>1, <3>1, LifeStutters DEF Lives
  <2> QED
    BY <2>2, <2>3
<1>6. ASSUME NEW t \in All, AddSession(t) PROVE Lives
  <2>1. /\ pc[t] = "AddSession" /\ pc'[t] = "OnConnected"
        /\ \A u \in All \ {t} : pc'[u] = pc[u]
        /\ UNCHANGED <<session, connected, manager, opened>>
        /\ sessions' = sessions \cup {session[t]}
    BY <1>0, <1>6 DEF AddSession, Step, Goto
  <2>2. CASE s = session[t]
    <3>1. s \in connected /\ s \notin sessions
      BY <1>0, <2>1, <2>2 DEF OpenInv
    <3>2. s \in sessions' /\ s \in connected'
      BY <2>1, <2>2, <3>1
    <3>3. SomebodyAt("OnConnected", s)'
      BY <2>1, <2>2 DEF SomebodyAt
    <3>4. StageOf(s) = "connected" /\ StageOf(s)' = "added"
      BY <3>1, <3>2, <3>3 DEF StageOf
    <3>5. UNCHANGED <<s \in connected, s \in manager>>
      BY <2>1
    <3> QED
      BY <3>2, <3>4, <3>5 DEF Lives, LifeOf!Next, LifeOf!AddSession, LifeOf!Advance
  <2>3. CASE s # session[t]
    <3>1. Steady /\ (s \in sessions' <=> s \in sessions)
      BY <2>1, <2>3
    <3> QED
      BY <2>1, <3>1, LifeStutters DEF Lives
  <2> QED
    BY <2>2, <2>3
<1>7. ASSUME NEW t \in All, OnConnected(t) PROVE Lives
  <2>1. /\ pc[t] = "OnConnected" /\ pc'[t] = "RegisterRecv"
        /\ \A u \in All \ {t} : pc'[u] = pc[u]
        /\ UNCHANGED <<session, connected, sessions, opened>>
        /\ manager' = manager \cup {session[t]}
    BY <1>0, <1>7 DEF OnConnected, Step, Goto
  <2>2. CASE s = session[t]
    <3>1. s \in connected /\ s \in sessions
      BY <1>0, <2>1, <2>2 DEF OpenInv
    <3>2. \A u \in All \ {t} : pc[u] = "OnConnected" => session[u] # s
      BY <1>0, <2>1, <2>2 DEF OpenInv, AcceptLabels, OpenLabels
    <3>3. SomebodyAt("OnConnected", s)
      BY <2>1, <2>2 DEF SomebodyAt
    <3>4. ~SomebodyAt("OnConnected", s)'
      BY <2>1, <3>2 DEF SomebodyAt
    <3>5. s \in manager' /\ s \in connected' /\ s \in sessions'
      BY <2>1, <2>2, <3>1
    <3>6. StageOf(s) = "added" /\ StageOf(s)' = "open"
      BY <3>1, <3>3, <3>4, <3>5 DEF StageOf
    <3>7. UNCHANGED <<s \in connected, s \in sessions>>
      BY <2>1
    <3>8. (s \in manager') = TRUE
      BY <3>5
    <3> QED
      BY <3>6, <3>7, <3>8 DEF Lives, LifeOf!Next, LifeOf!Open, LifeOf!Advance
  <2>3. CASE s # session[t]
    <3>1. Steady /\ (s \in manager' <=> s \in manager)
      BY <2>1, <2>3
    <3> QED
      BY <2>1, <3>1, LifeStutters DEF Lives
  <2> QED
    BY <2>2, <2>3
<1>8. ASSUME NEW t \in All, RegisterRecv(t) PROVE Lives
  <2>1. pc[t] = "RegisterRecv" /\ Steady /\ UNCHANGED <<sessions, manager, opened>>
    BY <1>0, <1>8 DEF RegisterRecv, Step, Goto
  <2>2. \A u \in All : pc[u] \in OpenLabels => session[u] # session[t]
    BY <1>0, <2>1 DEF OpenInv, AcceptLabels, OpenLabels
  <2>3. CASE UNCHANGED connected
    BY <2>1, <2>3, <1>still DEF Lives
  <2>4. CASE Disconnect(session[t])
    BY <2>1, <2>2, <2>4, DisconnectCloses DEF Lives
  <2> QED
    BY <1>8, <2>3, <2>4 DEF RegisterRecv
<1>9. ASSUME NEW t \in Threads, NEW d \in 1 .. created,
             ProcessRecv(t, d) \/ ProcessSend(t, d)
      PROVE  Lives
  <2>1. Steady /\ UNCHANGED <<sessions, manager, opened>>
    BY <1>0, <1>9 DEF ProcessRecv, ProcessSend, Goto
  <2>2. d \in recvPosted \cup manager
    BY <1>9 DEF ProcessRecv, ProcessSend
  <2>3. \A u \in All : pc[u] \in OpenLabels => session[u] # d
    BY <1>0, <2>2 DEF OpenInv
  <2>4. CASE UNCHANGED connected
    BY <2>1, <2>4, <1>still DEF Lives
  <2>5. CASE Disconnect(d)
    BY <2>1, <2>3, <2>5, DisconnectCloses DEF Lives
  <2> QED
    BY <1>9, <2>4, <2>5 DEF ProcessRecv, ProcessSend
<1>10. ASSUME NEW t \in Threads, NEW d \in 1 .. created,
              ProcessDisconnect(t, d)
       PROVE  Lives
  <2>1. Steady /\ Lists
    BY <1>0, <1>10 DEF ProcessDisconnect, Step, Goto, All
  <2> QED
    BY <2>1, <1>still DEF Lives
<1>11. ASSUME NEW t \in All, OnDisconnected(t) PROVE Lives
  <2>1. /\ pc[t] = "OnDisconnected" /\ pc'[t] = "RemoveSession"
        /\ \A u \in All \ {t} : pc'[u] = pc[u]
        /\ UNCHANGED <<session, connected, sessions, opened>>
        /\ manager' = manager \ {session[t]}
    BY <1>0, <1>11 DEF OnDisconnected, Step, Goto
  <2>2. CASE s = session[t]
    <3>1. s \in sessions /\ s \notin connected
      BY <1>0, <2>1, <2>2 DEF ListsAgree
    <3>2. ~SomebodyAt("RemoveSession", s)
      BY <1>0, <2>1, <2>2 DEF LeaveInv, LeaveLabels, SomebodyAt
    <3>3. SomebodyAt("RemoveSession", s)'
      BY <2>1, <2>2 DEF SomebodyAt
    <3>4. s \notin manager' /\ s \notin connected' /\ s \in sessions'
      BY <2>1, <2>2, <3>1
    <3>5. StageOf(s) = "closing" /\ StageOf(s)' = "left"
      BY <3>1, <3>2, <3>3, <3>4 DEF StageOf
    <3>6. UNCHANGED <<s \in connected, s \in sessions>>
      BY <2>1
    <3> QED
      BY <3>4, <3>5, <3>6 DEF Lives, LifeOf!Next, LifeOf!Leave, LifeOf!Advance
  <2>3. CASE s # session[t]
    <3>1. Steady /\ (s \in manager' <=> s \in manager)
      BY <2>1, <2>3
    <3> QED
      BY <2>1, <3>1, LifeStutters DEF Lives
  <2> QED
    BY <2>2, <2>3
<1>12. ASSUME NEW t \in All, RemoveSession(t) PROVE Lives
  <2>1. /\ pc[t] = "RemoveSession" /\ pc'[t] \in {"StartAccept", "idle"}
        /\ \A u \in All \ {t} : pc'[u] = pc[u] /\ session'[u] = session[u]
        /\ UNCHANGED <<connected, manager, opened>>
        /\ sessions' = sessions \ {session[t]}
    BY <1>0, <1>12 DEF RemoveSession, Return, Goto
  <2>2. CASE s = session[t]
    <3>1. s \in sessions /\ s \notin connected /\ s \in opened
      BY <1>0, <2>1, <2>2 DEF ListsAgree, OpenInv
    <3>2. SomebodyAt("RemoveSession", s)
      BY <2>1, <2>2 DEF SomebodyAt
    <3>3. s \notin sessions' /\ s \notin connected' /\ s \in opened'
      BY <2>1, <2>2, <3>1
    <3>4. StageOf(s) = "left" /\ StageOf(s)' = "removed"
      BY <3>1, <3>2, <3>3 DEF StageOf
    <3>5. UNCHANGED <<s \in connected, s \in manager>>
      BY <2>1
    <3> QED
      BY <3>3, <3>4, <3>5 DEF Lives, LifeOf!Next, LifeOf!RemoveSession,
         LifeOf!Advance
  <2>3. CASE s # session[t]
    <3>1. Steady /\ (s \in sessions' <=> s \in sessions)
      BY <2>1, <2>3
    <3> QED
      BY <2>1, <3>1, LifeStutters DEF Lives
  <2> QED
    BY <2>2, <2>3
<1>13. ASSUME NEW t \in All, Broadcast(t) \/ EndBroadcast(t) PROVE Lives
  <2>1. Steady /\ Lists
    BY <1>0, <1>13 DEF Broadcast, EndBroadcast, Step, Goto
  <2> QED
    BY <2>1, <1>still DEF Lives
<1>14. ASSUME NEW t \in All, SendNext(t) PROVE Lives
  <2>1. Steady /\ UNCHANGED <<sessions, manager, opened>>
    BY <1>14 DEF SendNext
  <2>2. PICK d \in manager : Disconnect(d) \/ UNCHANGED connected
    BY <1>14 DEF SendNext
  <2>3. \A u \in All : pc[u] \in OpenLabels => session[u] # d
    BY <1>0 DEF OpenInv
  <2>4. CASE UNCHANGED connected
    BY <2>1, <2>4, <1>still DEF Lives
  <2>5. CASE Disconnect(d)
    BY <2>1, <2>3, <2>5, DisconnectCloses DEF Lives
  <2> QED
    BY <2>2, <2>4, <2>5
<1>15. ASSUME UNCHANGED vars PROVE Lives
  <2>1. Steady /\ Lists
    BY <1>15 DEF vars
  <2> QED
    BY <2>1, <1>still DEF Lives
<1>16. ASSUME NEW t \in All,
              \/ RegisterAccept(t) \/ ProcessConnect(t) \/ AddSession(t)
              \/ OnConnected(t) \/ RegisterRecv(t) \/ OnDisconnected(t)
              \/ RemoveSession(t) \/ SendNext(t) \/ EndBroadcast(t)
              \/ Broadcast(t)
       PROVE  Lives
  BY <1>16, <1>3, <1>5, <1>6, <1>7, <1>8, <1>11, <1>12, <1>13, <1>14
<1>17. ASSUME NEW t \in Threads, NEW d \in 1 .. created,
              ProcessRecv(t, d) \/ ProcessSend(t, d) \/ ProcessDisconnect(t, d)
       PROVE  Lives
  BY <1>17, <1>9, <1>10
<1>18. Lives
  BY <1>1, <1>2, <1>4, <1>15, <1>16, <1>17, NextCases
<1> QED
  BY <1>18 DEF Lives

\* Session.cpp:45-57, 213-224 and 282-289, Listener.cpp:66-110: however the
\* handlers of all sessions interleave, each session is connected, listed,
\* opened, disconnected and removed in this order, each at most once.
THEOREM SessionsLive == Spec => LifeSpec
<1>1. Init => \A s \in 1 .. SessionBound : LifeOf(s)!Init
  BY DEF Init, LifeOf!Init, StageOf
<1>2. IInv /\ [Next]_vars =>
        [\A s \in 1 .. SessionBound :
            LifeOf(s)!Next \/ UNCHANGED LifeOf(s)!life]_vars
  BY LifeStep
<1> QED
  BY <1>1, <1>2, Invariance, PTL DEF Spec, LifeSpec

=============================================================================
