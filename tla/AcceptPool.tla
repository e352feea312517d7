----------------------------- MODULE AcceptPool -----------------------------
(***************************************************************************)
(* The server around its sessions: the Listener's pool of AcceptEvents     *)
(* (ServerCore/Listener.cpp), the Service's list and count of sessions     *)
(* (ServerCore/Service.cpp), GameServer's SessionManager with Broadcast,   *)
(* the main thread that arms the pool and the workers that run handlers.   *)
(*                                                                         *)
(* A session is reduced to what these parts see of it: SessionLife, which  *)
(* Session implements.  Sessions are numbered as CreateSession makes them. *)
(***************************************************************************)
EXTENDS Integers, FiniteSets

CONSTANTS
  Threads,       \* the workers
  Main,          \* the thread that calls StartAccept
  NoThread,      \* nobody holds the manager's lock
  AcceptEvents,  \* the events StartAccept creates
  NoEvent,       \* a thread that handles none of them
  MaxClients,    \* bound: clients that ever connect
  MaxFails,      \* bound: accepts that fail, in AcceptEx or after it
  MaxBroadcasts  \* bound: calls of SessionManager::Broadcast

ASSUME AcceptAssumption ==
  /\ Main \notin Threads /\ NoThread \notin Threads
  /\ IsFiniteSet(AcceptEvents) /\ NoEvent \notin AcceptEvents
  /\ {MaxClients, MaxFails, MaxBroadcasts} \subseteq Nat

VARIABLES
  acceptSession,       \* AcceptEvent::session
  sessions, sessionCount,  \* Service::sessions, Service::sessionCount
  manager, managerLock,    \* SessionManager::sessions and its rwLock
  connected,           \* the sessions whose isConnected is set
  visited,             \* the part of the set Broadcast's iterator has passed
  pc, event, session,  \* per thread: next step, the handler's locals
  \* external: clients in the listen queue, operations the kernel holds
  waiting, armed, recvPosted, discPosted,
  \* history: sessions created, those ProcessConnect ran on, the sessions
  \* in the set when Broadcast began, and what the bounds count
  created, opened, audience, clients, fails, broadcasts

serviceVars == <<sessions, sessionCount>>
managerVars == <<manager, managerLock, visited, audience, broadcasts>>
acceptVars == <<acceptSession, armed, created, fails>>
clientVars == <<waiting, clients>>
sessionVars == <<connected, recvPosted, discPosted, opened>>
threadVars == <<pc, event, session>>
vars == <<serviceVars, managerVars, acceptVars, clientVars, sessionVars,
          threadVars>>

All == Threads \cup {Main}
NoSession == 0

Init ==
  /\ acceptSession = [e \in AcceptEvents |-> NoSession]
  /\ sessions = {} /\ sessionCount = 0
  /\ manager = {} /\ managerLock = NoThread
  /\ visited = {} /\ audience = {} /\ broadcasts = 0
  /\ connected = {} /\ recvPosted = {} /\ discPosted = {} /\ opened = {}
  /\ armed = {} /\ created = 0 /\ fails = 0
  /\ waiting = 0 /\ clients = 0
  /\ pc = [t \in All |-> IF t = Main THEN "StartAccept" ELSE "idle"]
  /\ event = [t \in All |-> NoEvent]
  /\ session = [t \in All |-> NoSession]

Goto(t, to) == pc' = [pc EXCEPT ![t] = to]

Step(t, from, to) == pc[t] = from /\ Goto(t, to)

\* The handler of t returns to GetQueuedCompletionStatus or to StartAccept.
Return(t) ==
  /\ Goto(t, IF t = Main THEN "StartAccept" ELSE "idle")
  /\ event' = [event EXCEPT ![t] = NoEvent]
  /\ session' = [session EXCEPT ![t] = NoSession]

SomebodyAt(label, s) == \E t \in All : pc[t] = label /\ session[t] = s

Crashed == \E t \in All : pc[t] = "crashed"

-----------------------------------------------------------------------------
(* Listener. *)

\* External: a client enters the listen queue.
Knock ==
  /\ clients < MaxClients
  /\ clients' = clients + 1 /\ waiting' = waiting + 1
  /\ UNCHANGED <<serviceVars, managerVars, acceptVars, sessionVars, threadVars>>

\* The loop of StartAccept: an event is created and registered.
StartAccept(e) ==
  /\ acceptSession[e] = NoSession
  /\ Step(Main, "StartAccept", "RegisterAccept")
  /\ event' = [event EXCEPT ![Main] = e]
  /\ UNCHANGED <<serviceVars, managerVars, acceptVars, clientVars, sessionVars,
                 session>>

\* All events are registered: main starts the workers and joins them.
StartWorkers ==
  /\ \A e \in AcceptEvents : acceptSession[e] # NoSession
  /\ Step(Main, "StartAccept", "done")
  /\ UNCHANGED <<serviceVars, managerVars, acceptVars, clientVars, sessionVars,
                 event, session>>

\* Mutant: the event keeps the session it was armed with before.
RegisterAcceptReuses(t) ==
  /\ pc[t] = "RegisterAccept"
  /\ created' = created + 1
  /\ acceptSession' = [acceptSession EXCEPT ![event[t]] =
                         IF @ = NoSession THEN created' ELSE @]
  /\ armed' = armed \cup {event[t]} /\ UNCHANGED fails
  /\ Return(t)
  /\ UNCHANGED <<serviceVars, managerVars, clientVars, sessionVars>>

\* Mutant: an AcceptEx that fails at once is not tried again.
RegisterAcceptGivesUp(t) ==
  /\ pc[t] = "RegisterAccept"
  /\ created' = created + 1
  /\ acceptSession' = [acceptSession EXCEPT ![event[t]] = created']
  /\ \/ armed' = armed \cup {event[t]} /\ UNCHANGED fails
     \/ fails < MaxFails /\ fails' = fails + 1 /\ UNCHANGED armed
  /\ Return(t)
  /\ UNCHANGED <<serviceVars, managerVars, clientVars, sessionVars>>

\* Mutant: AcceptEx is posted for the null session of a failed CreateSession.
RegisterAcceptUnchecked(t) ==
  /\ pc[t] = "RegisterAccept"
  /\ \E s \in {NoSession, created + 1} :
       /\ acceptSession' = [acceptSession EXCEPT ![event[t]] = s]
       /\ created' = IF s = NoSession THEN created ELSE s
  /\ armed' = armed \cup {event[t]} /\ UNCHANGED fails
  /\ Return(t)
  /\ UNCHANGED <<serviceVars, managerVars, clientVars, sessionVars>>

\* Mutant: an AcceptEx that is pending is taken for one that failed.
RegisterAcceptAgain(t) ==
  /\ pc[t] = "RegisterAccept"
  /\ created' = created + 1
  /\ acceptSession' = [acceptSession EXCEPT ![event[t]] = created']
  /\ armed' = armed \cup {event[t]}
  /\ Return(t) \/ UNCHANGED threadVars
  /\ UNCHANGED <<serviceVars, managerVars, clientVars, sessionVars, fails>>

\* RegisterAccept makes a session and posts AcceptEx with it.  If AcceptEx
\* fails at once RegisterAccept calls itself; if CreateSession returned null
\* it is dereferenced.  Until AcceptEx nobody else sees the event.
RegisterAccept(t) ==
  /\ pc[t] = "RegisterAccept"
  /\ \/ /\ created' = created + 1
        /\ acceptSession' = [acceptSession EXCEPT ![event[t]] = created']
        /\ \/ armed' = armed \cup {event[t]} /\ Return(t) /\ UNCHANGED fails
           \/ /\ fails < MaxFails /\ fails' = fails + 1
              /\ UNCHANGED <<armed, threadVars>>
     \/ /\ fails < MaxFails /\ fails' = fails + 1
        /\ Goto(t, "crashed")
        /\ UNCHANGED <<acceptSession, armed, created, event, session>>
  /\ UNCHANGED <<serviceVars, managerVars, clientVars, sessionVars>>

\* Mutant: ProcessAccept returns from a failed check without RegisterAccept.
ProcessAcceptDrops(t, e) ==
  /\ pc[Main] = "done" /\ pc[t] = "idle"
  /\ e \in armed /\ waiting > 0
  /\ armed' = armed \ {e} /\ waiting' = waiting - 1
  /\ \/ /\ Goto(t, "ProcessConnect") /\ UNCHANGED fails
        /\ event' = [event EXCEPT ![t] = e]
        /\ session' = [session EXCEPT ![t] = acceptSession[e]]
     \/ /\ fails < MaxFails /\ fails' = fails + 1
        /\ UNCHANGED threadVars
  /\ UNCHANGED <<serviceVars, managerVars, acceptSession, created, clients,
                 sessionVars>>

\* A worker takes the completion of an AcceptEx.  If SetUpdateAcceptSocket or
\* getpeername fails the session is given up and the event armed again.
ProcessAccept(t, e) ==
  /\ pc[Main] = "done" /\ pc[t] = "idle"
  /\ e \in armed /\ waiting > 0
  /\ armed' = armed \ {e} /\ waiting' = waiting - 1
  /\ event' = [event EXCEPT ![t] = e]
  /\ session' = [session EXCEPT ![t] = acceptSession[e]]
  /\ \/ Goto(t, "ProcessConnect") /\ UNCHANGED fails
     \/ fails < MaxFails /\ fails' = fails + 1 /\ Goto(t, "RegisterAccept")
  /\ UNCHANGED <<serviceVars, managerVars, acceptSession, created, clients,
                 sessionVars>>

-----------------------------------------------------------------------------
(* A session is opened: Session::ProcessConnect, called by ProcessAccept. *)

ProcessConnect(t) ==
  /\ Step(t, "ProcessConnect", "AddSession")
  /\ connected' = connected \cup {session[t]}
  /\ opened' = opened \cup {session[t]}
  /\ UNCHANGED <<serviceVars, managerVars, acceptVars, clientVars, recvPosted,
                 discPosted, event, session>>

AddSession(t) ==
  /\ Step(t, "AddSession", "OnConnected")
  /\ sessions' = sessions \cup {session[t]}
  /\ sessionCount' = sessionCount + 1
  /\ UNCHANGED <<managerVars, acceptVars, clientVars, sessionVars, event,
                 session>>

\* SessionManager::Add.
OnConnected(t) ==
  /\ managerLock = NoThread
  /\ Step(t, "OnConnected", "RegisterRecv")
  /\ manager' = manager \cup {session[t]}
  /\ UNCHANGED <<serviceVars, managerLock, visited, audience, broadcasts,
                 acceptVars, clientVars, sessionVars, event, session>>

\* Mutant: isConnected.exchange's result is ignored.
DisconnectUnguarded(s) ==
  /\ connected' = connected \ {s}
  /\ discPosted' = discPosted \cup {s}

\* Session::Disconnect; a DisconnectEx that fails at once is not posted.
Disconnect(s) ==
  /\ connected' = connected \ {s}
  /\ \/ UNCHANGED discPosted
     \/ s \in connected /\ discPosted' = discPosted \cup {s}

\* The receive may be refused because Broadcast has disconnected the session,
\* or because WSARecv fails, which disconnects it if the peer reset it.
RegisterRecv(t) ==
  /\ Step(t, "RegisterRecv", "RegisterAccept")
  /\ \/ /\ session[t] \in connected
        /\ recvPosted' = recvPosted \cup {session[t]}
        /\ UNCHANGED <<connected, discPosted>>
     \/ UNCHANGED recvPosted /\ Disconnect(session[t])
     \/ UNCHANGED <<recvPosted, connected, discPosted>>
  /\ UNCHANGED <<serviceVars, managerVars, acceptVars, clientVars, opened,
                 event, session>>

-----------------------------------------------------------------------------
(* A session ends. *)

\* The last receive of s: ProcessRecv disconnects, or cannot post the next
\* one, or OnRecv never comes back (PacketStream) and neither does the worker.
\* The receives before it change nothing these parts see.
ProcessRecv(t, s) ==
  /\ pc[Main] = "done" /\ pc[t] = "idle"
  /\ s \in recvPosted /\ recvPosted' = recvPosted \ {s}
  /\ \/ Disconnect(s) /\ UNCHANGED pc
     \/ UNCHANGED <<connected, discPosted>> /\ (UNCHANGED pc \/ Goto(t, "OnRecv"))
  /\ UNCHANGED <<serviceVars, managerVars, acceptVars, clientVars, opened, event,
                 session>>

\* A send that fails or completes with nothing sent disconnects.  Sessions are
\* sent to by the handlers of their receives, of which there are none before
\* ProcessConnect has returned, and by Broadcast.
ProcessSend(t, s) ==
  /\ pc[Main] = "done" /\ pc[t] = "idle"
  /\ s \in manager
  /\ s \in visited \/ ~SomebodyAt("RegisterRecv", s)
  /\ Disconnect(s)
  /\ UNCHANGED <<serviceVars, managerVars, acceptVars, clientVars, recvPosted,
                 opened, threadVars>>

ProcessDisconnect(t, s) ==
  /\ pc[Main] = "done" /\ Step(t, "idle", "OnDisconnected")
  /\ s \in discPosted /\ discPosted' = discPosted \ {s}
  /\ session' = [session EXCEPT ![t] = s]
  /\ UNCHANGED <<serviceVars, managerVars, acceptVars, clientVars, connected,
                 recvPosted, opened, event>>

\* Mutant: SessionManager::Remove does not take the lock.
OnDisconnectedUnlocked(t) ==
  /\ Step(t, "OnDisconnected", "RemoveSession")
  /\ manager' = manager \ {session[t]}
  /\ UNCHANGED <<serviceVars, managerLock, visited, audience, broadcasts,
                 acceptVars, clientVars, sessionVars, event, session>>

\* Mutant: ProcessDisconnect does not call RemoveSession.
OnDisconnectedOnly(t) ==
  /\ managerLock = NoThread
  /\ pc[t] = "OnDisconnected"
  /\ manager' = manager \ {session[t]}
  /\ Return(t)
  /\ UNCHANGED <<serviceVars, managerLock, visited, audience, broadcasts,
                 acceptVars, clientVars, sessionVars>>

\* SessionManager::Remove.
OnDisconnected(t) ==
  /\ managerLock = NoThread
  /\ Step(t, "OnDisconnected", "RemoveSession")
  /\ manager' = manager \ {session[t]}
  /\ UNCHANGED <<serviceVars, managerLock, visited, audience, broadcasts,
                 acceptVars, clientVars, sessionVars, event, session>>

RemoveSession(t) ==
  /\ pc[t] = "RemoveSession"
  /\ sessions' = sessions \ {session[t]}
  /\ sessionCount' = sessionCount - 1
  /\ Return(t)
  /\ UNCHANGED <<managerVars, acceptVars, clientVars, sessionVars>>

-----------------------------------------------------------------------------
(* SessionManager::Broadcast. *)

Broadcast(t) ==
  /\ broadcasts < MaxBroadcasts /\ managerLock = NoThread
  /\ pc[Main] = "done" /\ Step(t, "idle", "Broadcast")
  /\ broadcasts' = broadcasts + 1 /\ managerLock' = t
  /\ visited' = {} /\ audience' = manager
  /\ UNCHANGED <<serviceVars, manager, acceptVars, clientVars, sessionVars,
                 event, session>>

\* The loop's body: Send, which disconnects the session if its peer reset it.
SendNext(t) ==
  /\ pc[t] = "Broadcast"
  /\ \E s \in manager \ visited :
       /\ visited' = visited \cup {s}
       /\ Disconnect(s) \/ UNCHANGED <<connected, discPosted>>
  /\ UNCHANGED <<serviceVars, manager, managerLock, audience, broadcasts,
                 acceptVars, clientVars, recvPosted, opened, threadVars>>

EndBroadcast(t) ==
  /\ manager \subseteq visited
  /\ Step(t, "Broadcast", "idle")
  /\ managerLock' = NoThread
  /\ UNCHANGED <<serviceVars, manager, visited, audience, broadcasts,
                 acceptVars, clientVars, sessionVars, event, session>>

-----------------------------------------------------------------------------
Start == StartWorkers \/ \E e \in AcceptEvents : StartAccept(e)

Observe(t) ==
  \/ \E e \in AcceptEvents : ProcessAccept(t, e)
  \/ \E s \in 1 .. created :
       ProcessRecv(t, s) \/ ProcessSend(t, s) \/ ProcessDisconnect(t, s)

\* The steps of a thread inside a handler.
Run(t) ==
  \/ ProcessConnect(t) \/ AddSession(t) \/ OnConnected(t) \/ RegisterRecv(t)
  \/ RegisterAccept(t) \/ OnDisconnected(t) \/ RemoveSession(t)
  \/ SendNext(t) \/ EndBroadcast(t)

\* No worker is left to take completions.
WorkersLost == \A t \in Threads : pc[t] = "OnRecv"

\* The process died, or every worker waits for a completion that needs a
\* client, or is in OnRecv for ever.
Halted ==
  \/ Crashed
  \/ /\ pc[Main] = "done" /\ clients = MaxClients
     /\ \A t \in Threads : pc[t] \in {"idle", "OnRecv"}

Next ==
  \/ /\ ~Crashed
     /\ \/ Knock \/ Start
        \/ \E t \in Threads : Observe(t) \/ Broadcast(t)
        \/ \E t \in All : Run(t)
  \/ Halted /\ UNCHANGED vars

Spec == Init /\ [][Next]_vars

\* Threads do not stop inside a handler, except in OnRecv, and the port hands
\* out a completed accept to an idle worker, if there is one.  Clients,
\* receives and Broadcast need not come.
Fairness ==
  /\ WF_vars(~Crashed /\ Start)
  /\ \A t \in All : WF_vars(~Crashed /\ Run(t))
  /\ WF_vars(~Crashed /\
             \E t \in Threads, e \in AcceptEvents : ProcessAccept(t, e))

FairSpec == Spec /\ Fairness

-----------------------------------------------------------------------------
Labels == {"StartAccept", "done", "idle", "crashed", "ProcessConnect",
           "AddSession", "OnConnected", "RegisterRecv", "RegisterAccept",
           "OnRecv", "OnDisconnected", "RemoveSession", "Broadcast"}

\* Every variable has its type: sessions are the ones CreateSession made.
TypeOK ==
  /\ created \in Nat /\ {waiting, clients, fails, broadcasts} \subseteq Nat
  /\ acceptSession \in [AcceptEvents -> 0 .. created]
  /\ sessionCount \in Int /\ managerLock \in Threads \cup {NoThread}
  /\ sessions \cup manager \cup visited \cup audience \subseteq 1 .. created
  /\ connected \cup recvPosted \cup discPosted \cup opened \subseteq 1 .. created
  /\ armed \subseteq AcceptEvents
  /\ pc \in [All -> Labels]
  /\ event \in [All -> AcceptEvents \cup {NoEvent}]
  /\ session \in [All -> 0 .. created]

\* No accept slot is lost or doubled: once StartAccept has registered an
\* event it is armed or one thread is on its way to arm it, whatever fails
\* (Listener.cpp:66-110).
AcceptsKept ==
  \A e \in AcceptEvents :
    /\ \A t, u \in All : event[t] = e /\ event[u] = e => t = u
    /\ \A t \in All : event[t] = e => e \notin armed
    /\ acceptSession[e] # NoSession => e \in armed \/ \E t \in All : event[t] = e

\* An armed AcceptEx has a socket of its own: no other event, handler or list
\* knows its session, and no client was ever accepted on it
\* (Listener.cpp:68-74).
AcceptsFresh ==
  \A e \in armed :
    /\ acceptSession[e] \in 1 .. created
    /\ acceptSession[e] \notin opened \cup sessions \cup recvPosted
    /\ \A f \in armed : acceptSession[e] = acceptSession[f] => e = f
    /\ \A t \in All : session[t] # acceptSession[e]

\* The lists of all sessions stay in step: the count is the number listed,
\* the manager knows only listed sessions, and whoever removes one finds it
\* (Service.cpp:45-58, SessionManager.cpp:5-15).
ListsAgree ==
  /\ sessionCount = Cardinality(sessions)
  /\ manager \subseteq sessions
  /\ discPosted \subseteq sessions \ connected
  /\ \A t \in All : pc[t] \in {"OnDisconnected", "RemoveSession"} =>
       session[t] \in sessions \ (connected \cup discPosted)

\* Sessions, each with a socket of its own, are not made for nothing: one for
\* every armed slot, every client taken and every accept that failed
\* (Listener.cpp:66-82, 87-110).
SocketsBounded ==
  created <= Cardinality(armed) + (clients - waiting) + fails

\* Broadcast's loop passes over the very sessions that were in the set when
\* it began: nobody joins or leaves under its iterator
\* (SessionManager.cpp:17-25).
BroadcastReachesAll ==
  \A t \in Threads : pc[t] = "Broadcast" =>
    /\ managerLock = t
    /\ manager = audience /\ visited \subseteq audience

\* Once the clients stop coming, every accept slot is armed again, also when
\* workers were lost in OnRecv: none takes a slot along
\* (Listener.cpp:66-110).
PoolRefills == <>[](Crashed \/ armed = AcceptEvents)

\* A client in the listen queue is taken from it as long as one worker is left
\* that OnRecv has not kept (Listener.cpp:66-110, GameServer.cpp:28-40).
ClientsAccepted == waiting > 0 ~> waiting = 0 \/ Crashed \/ WorkersLost

\* Every session goes through the stages of SessionLife, once.
StageOf(s) ==
  IF s \in connected
  THEN IF s \notin sessions THEN "connected"
       ELSE IF SomebodyAt("OnConnected", s) THEN "added" ELSE "open"
  ELSE IF s \in sessions
  THEN IF SomebodyAt("RemoveSession", s) THEN "left" ELSE "closing"
  ELSE IF s \in opened THEN "removed" ELSE "new"

LifeOf(s) == INSTANCE SessionLife WITH
  Managed <- TRUE, isConnected <- s \in connected, inService <- s \in sessions,
  inManager <- s \in manager, stage <- StageOf(s)

\* The sessions a behaviour can create within its bounds.
SessionBound == Cardinality(AcceptEvents) + MaxClients + MaxFails

LifeSpec ==
  /\ \A s \in 1 .. SessionBound : LifeOf(s)!Init
  /\ [][\A s \in 1 .. SessionBound :
           LifeOf(s)!Next \/ UNCHANGED LifeOf(s)!life]_vars
=============================================================================
