--------------------------- MODULE DeliveryProofs ---------------------------
(***************************************************************************)
(* What the receiver of a session's messages may rely on, as long as       *)
(* nobody calls Broadcast: they are on the wire, in the kernel or queued   *)
(* in the order Send accepted them, none twice, and none is missing while  *)
(* the session is connected and no error was met.                          *)
(***************************************************************************)
EXTENDS OutboxProofs

(* Sequences of message numbers that rise. *)

Rising(s, n) ==
  /\ \A i \in DOMAIN s : s[i] \in 1 .. n
  /\ \A i, j \in DOMAIN s : i < j => s[i] < s[j]

LEMMA RisingAppend ==
  ASSUME NEW s \in Seq(Nat), NEW n \in Nat, Rising(s, n)
  PROVE  Rising(Append(s, n + 1), n + 1)
<1> DEFINE a == Append(s, n + 1)
<1>1. /\ Len(s) \in Nat /\ DOMAIN s = 1 .. Len(s)
      /\ DOMAIN a = 1 .. Len(s) + 1
      /\ \A i \in 1 .. Len(s) : a[i] = s[i] /\ s[i] \in 1 .. n
      /\ a[Len(s) + 1] = n + 1
  BY LenProperties, AppendProperties DEF Rising
<1> HIDE DEF a
<1>2. \A i \in DOMAIN a : a[i] \in 1 .. n + 1
  BY <1>1
<1>3. ASSUME NEW i \in DOMAIN a, NEW j \in DOMAIN a, i < j
      PROVE  a[i] < a[j]
  <2>1. i \in DOMAIN s
    BY <1>1, <1>3
  <2>2. CASE j \in DOMAIN s
    BY <1>1, <1>3, <2>1, <2>2 DEF Rising
  <2>3. CASE j = Len(s) + 1
    BY <1>1, <2>1, <2>3
  <2> QED
    BY <1>1, <2>2, <2>3
<1> QED
  BY <1>2, <1>3 DEF Rising, a

\* Cutting k elements out of a rising sequence, from place m + 1 on, leaves a
\* rising one.
LEMMA RisingCut ==
  ASSUME NEW s \in Seq(Nat), NEW u \in Seq(Nat), NEW n \in Nat,
         NEW m \in Nat, NEW k \in Nat,
         Len(s) = Len(u) + k,
         \A i \in 1 .. Len(u) : i <= m => u[i] = s[i],
         \A i \in 1 .. Len(u) : ~(i <= m) => u[i] = s[i + k],
         Rising(s, n)
  PROVE  Rising(u, n)
<1> DEFINE At(i) == IF i <= m THEN i ELSE i + k
<1>1. /\ Len(u) \in Nat /\ DOMAIN u = 1 .. Len(u)
      /\ DOMAIN s = 1 .. Len(u) + k
  BY LenProperties
<1>2. \A i \in 1 .. Len(u) : At(i) \in 1 .. Len(u) + k
  BY <1>1
<1>3. \A i, j \in 1 .. Len(u) : i < j => At(i) < At(j)
  BY <1>1
<1>4. \A i \in 1 .. Len(u) : u[i] = s[At(i)]
  OBVIOUS
<1> HIDE DEF At
<1> QED
  BY <1>1, <1>2, <1>3, <1>4 DEF Rising

\* What is left when the k oldest of b are lost still rises.
LEMMA RisingDrop ==
  ASSUME NEW w \in Seq(Nat), NEW b \in Seq(Nat), NEW n \in Nat,
         NEW k \in 1 .. Len(b), Rising(w \o b, n)
  PROVE  Rising(w \o SubSeq(b, k + 1, Len(b)), n)
<1> DEFINE r == SubSeq(b, k + 1, Len(b))
           s == w \o b
           u == w \o r
<1>1. Len(w) \in Nat /\ Len(b) \in Nat /\ \A i \in 1 .. Len(b) : b[i] \in Nat
  BY LenProperties, ElementOfSeq
<1>2. /\ s \in Seq(Nat) /\ Len(s) = Len(w) + Len(b)
      /\ \A i \in 1 .. Len(w) + Len(b) :
           s[i] = IF i <= Len(w) THEN w[i] ELSE b[i - Len(w)]
  BY ConcatProperties
<1>3. /\ r \in Seq(Nat)
      /\ Len(r) = IF k + 1 <= Len(b) THEN Len(b) - (k + 1) + 1 ELSE 0
      /\ \A i \in 1 .. Len(b) - (k + 1) + 1 : r[i] = b[k + 1 + i - 1]
  BY <1>1, SubSeqProperties
<1> HIDE DEF r
<1>4. Len(r) = Len(b) - k /\ \A i \in 1 .. Len(r) : r[i] = b[k + i]
  <2>1. Len(b) - (k + 1) + 1 = Len(b) - k
    BY <1>1
  <2>2. Len(r) = Len(b) - k
    BY <1>1, <1>3
  <2>3. ASSUME NEW i \in 1 .. Len(r) PROVE r[i] = b[k + i]
    <3>1. i \in 1 .. Len(b) - (k + 1) + 1 /\ k + 1 + i - 1 = k + i
      BY <1>1, <2>2
    <3>2. r[i] = b[k + 1 + i - 1]
      BY <1>3, <3>1
    <3> QED
      BY <3>1, <3>2, Zenon
  <2> QED
    BY <2>2, <2>3
<1>5. /\ u \in Seq(Nat) /\ Len(u) = Len(w) + Len(r)
      /\ \A i \in 1 .. Len(w) + Len(r) :
           u[i] = IF i <= Len(w) THEN w[i] ELSE r[i - Len(w)]
  BY <1>3, ConcatProperties
<1>6. Rising(s, n)
  OBVIOUS
<1> HIDE DEF s, u
<1>7. Len(s) = Len(u) + k
  BY <1>1, <1>2, <1>4, <1>5
<1>8. ASSUME NEW i \in 1 .. Len(u), i <= Len(w) PROVE u[i] = s[i]
  <2>1. i \in 1 .. Len(w) + Len(r) /\ i \in 1 .. Len(w) + Len(b)
    BY <1>1, <1>4, <1>5, <1>8
  <2>2. u[i] = w[i] /\ s[i] = w[i]
    BY <2>1, <1>2, <1>5, <1>8
  <2> QED
    BY <2>2
<1>9. ASSUME NEW i \in 1 .. Len(u), ~(i <= Len(w)) PROVE u[i] = s[i + k]
  <2>1. /\ i - Len(w) \in 1 .. Len(r) /\ i + k \in 1 .. Len(w) + Len(b)
        /\ ~(i + k <= Len(w)) /\ k + (i - Len(w)) = i + k - Len(w)
    BY <1>1, <1>4, <1>5, <1>9
  <2>2. u[i] = r[i - Len(w)]
    BY <1>5, <1>9
  <2>3. r[i - Len(w)] = b[k + (i - Len(w))]
    BY <2>1, <1>4
  <2>4. s[i + k] = b[i + k - Len(w)]
    BY <2>1, <1>2
  <2> QED
    BY <2>1, <2>2, <2>3, <2>4
<1>10. Rising(u, n)
  <2>1. k \in Nat
    BY <1>1
  <2> QED
    BY <2>1, <1>1, <1>2, <1>5, <1>6, <1>7, <1>8, <1>9, RisingCut
<1> QED
  BY <1>10 DEF u, r

LEMMA Regroup ==
  ASSUME NEW s \in Seq(Nat), NEW t \in Seq(Nat), NEW u \in Seq(Nat)
  PROVE  (s \o t) \o u = s \o (t \o u)
  BY ConcatAssociative

\* The k oldest of b move behind w.
LEMMA BatchMoves ==
  ASSUME NEW w \in Seq(Nat), NEW b \in Seq(Nat), NEW k \in 1 .. Len(b)
  PROVE  (w \o SubSeq(b, 1, k)) \o SubSeq(b, k + 1, Len(b)) = w \o b
<1> DEFINE o == SubSeq(b, 1, k)
           r == SubSeq(b, k + 1, Len(b))
<1>1. Len(b) \in Nat /\ \A i \in 1 .. Len(b) : b[i] \in Nat
  BY LenProperties, ElementOfSeq
<1>2. o \in Seq(Nat) /\ r \in Seq(Nat)
  BY <1>1, SubSeqProperties
<1>3. o \o r = SubSeq(b, 1, Len(b))
  <2>1. 1 \in 1 .. Len(b) + 1 /\ k \in 0 .. Len(b) /\ Len(b) \in k .. Len(b)
        /\ 1 - 1 = 0
    BY <1>1
  <2> QED
    BY <2>1, ConcatAdjacentSubSeq
<1>4. SubSeq(b, 1, Len(b)) = b
  BY SubSeqFull
<1> HIDE DEF o, r
<1>5. (w \o o) \o r = w \o (o \o r)
  BY <1>2, Regroup, Zenon
<1>6. (w \o o) \o r = w \o b
  BY <1>3, <1>4, <1>5
<1> QED
  BY <1>6 DEF o, r

(* Nothing overtakes, repeats or invents a message. *)

LEMMA OrderKept ==
  ASSUME IInv, OutboxOf!InOrder, [OutboxOf!Next]_(OutboxOf!vars)
  PROVE  OutboxOf!InOrder'
<1> DEFINE b == Unsent \o sendQueue
<1>1. b \in Seq(Nat) /\ wire \in Seq(Nat) /\ accepted \in Nat
  BY DEF IInv, TypeOK, QueuesOK, Unsent
<1>2. Rising(wire \o b, accepted)
  BY DEF OutboxOf!InOrder, OutboxOf!Messages, Rising
<1>3. SUFFICES Rising((wire \o b)', accepted')
  BY DEF OutboxOf!InOrder, OutboxOf!Messages, Rising
<1> HIDE DEF b
<1>4. CASE UNCHANGED <<accepted, b, wire>>
  BY <1>2, <1>4
<1>5. CASE accepted' = accepted + 1 /\ b' = Append(b, accepted + 1) /\ UNCHANGED wire
  <2>1. wire \o Append(b, accepted + 1) = Append(wire \o b, accepted + 1)
    BY <1>1, Batches
  <2>2. wire \o b \in Seq(Nat)
    BY <1>1
  <2> QED
    BY <1>1, <1>2, <1>5, <2>1, <2>2, RisingAppend
<1>6. ASSUME NEW n \in 1 .. Len(b), b' = SubSeq(b, n + 1, Len(b)),
             UNCHANGED accepted,
             wire' = wire \/ wire' = wire \o SubSeq(b, 1, n)
      PROVE  Rising((wire \o b)', accepted')
  <2>1. CASE wire' = wire
    BY <1>1, <1>2, <1>6, <2>1, RisingDrop
  <2>2. CASE wire' = wire \o SubSeq(b, 1, n)
    BY <1>1, <1>2, <1>6, <2>2, BatchMoves
  <2> QED
    BY <1>6, <2>1, <2>2
<1> QED
  BY <1>4, <1>5, <1>6
  DEF b, OutboxOf!Next, OutboxOf!vars, OutboxOf!Accept, OutboxOf!Transmit,
      OutboxOf!Lose, OutboxOf!Oldest, OutboxOf!WithoutOldest

\* Session.cpp:23-43, 93-139 and 226-248: as long as nobody calls Broadcast no
\* message overtakes another, is sent twice or was never accepted, on the
\* wire, in the kernel or in the queue, whatever fails.
THEOREM DeliveredInOrder ==
  ASSUME ~AppBroadcasts PROVE Spec => []OutboxOf!InOrder
<1>1. Init => OutboxOf!InOrder
  BY DEF Init, OutboxOf!InOrder, OutboxOf!Messages, Unsent
<1>2. IInv /\ OutboxOf!InOrder /\ [Next]_vars => OutboxOf!InOrder'
  BY OutboxStep, OrderKept
<1> QED
  BY <1>1, <1>2, Invariance, PTL DEF Spec

(* Nothing is missing while the session is connected. *)

Sound == isConnected /\ ~ioErrorLogged /\ \A t \in Threads : ~SendFailed(t)

\* Before OnConnected nothing was sent, and RegisterSend's error path was
\* taken because of an error that was logged or has disconnected.
LossInv ==
  /\ NothingLost
  /\ Opening => accepted = 0 /\ wire = << >> /\ sendBuffers = << >>
  /\ \A t \in Threads : pc[t] = "SendError" => ioErrorLogged \/ ~isConnected

\* A session that has been opened is not opened again.
LEMMA OpenedOnce ==
  ASSUME ThreadsOK, EventsOK, CallInv, [Next]_vars, Opening'
  PROVE  Opening
<1> USE DEF Opening, OpenLabels, ThreadsOK, EventsOK, Events, Post, Goto,
            Step, CallSend, ReturnFromDisconnect, kernelVars
<1>1. CASE RegisterConnect
  BY <1>1 DEF RegisterConnect
<1>2. CASE PeerClose
  BY <1>2 DEF PeerClose, threadVars
<1>3. ASSUME NEW t \in Threads, ConnectStep(t) PROVE Opening
  BY <1>3 DEF ConnectStep, ProcessAccept, ObserveConnect, ProcessConnect,
     AddSession, OnConnected, ObserveIO
<1>4. ASSUME NEW t \in Threads, RecvStep(t) PROVE Opening
  <2>1. UNCHANGED link /\ posted'["CONNECT"] = posted["CONNECT"]
    BY <1>4, RecvKeepsSend
  <2>2. \A u \in Threads : pc'[u] \in OpenLabels => pc'[u] = pc[u]
    BY <1>4, RecvKeepsSend
  <2> QED
    BY <2>1, <2>2
<1>5. ASSUME NEW t \in Threads, SendStep(t) PROVE Opening
  <2>1. UNCHANGED link /\ posted'["CONNECT"] = posted["CONNECT"]
    BY <1>5, SendKeepsRecv
  <2>2. \A u \in Threads : pc'[u] \in OpenLabels => pc'[u] = pc[u]
    BY <1>5, SendKeepsRecv
  <2> QED
    BY <2>1, <2>2
<1>6. ASSUME NEW t \in Threads, DisconnectStep(t) PROVE Opening
  <2>1. CASE Disconnect(t)
    BY <2>1 DEF Disconnect
  <2> QED
    BY <1>6, <2>1, DisconnectKeepsSend
<1>7. CASE UNCHANGED vars
  BY <1>7 DEF vars, threadVars
<1> QED
  BY <1>1, <1>2, <1>3, <1>4, <1>5, <1>6, <1>7, NextCases

\* Before OnConnected nothing is sent.
LEMMA OpeningQuiet ==
  ASSUME IInv, Opening, [Next]_vars
  PROVE  Quiet
<1>1. /\ \A t \in Threads : pc[t] \in OpenLabels \cup {"idle", "crashed"}
      /\ posted["SEND"] = 0
  BY DEF IInv, OpenInv
<1>2. \A t \in Threads :
        ~(\/ ObserveSend(t) \/ Push(t) \/ Drain(t) \/ SendError(t)
          \/ ProcessSend(t))
  BY <1>1 DEF OpenLabels, ObserveSend, ObserveIO, Push, Drain, SendError,
     ProcessSend, Step
<1> QED
  BY <1>2, QuietSteps DEF IInv, TypeOK

\* A thread whose batch failed does not go on before it has disconnected.
LEMMA FailureNoticed ==
  ASSUME IInv, NEW u \in Threads, SendFailed(u), [Next]_vars
  PROVE  SendFailed(u)' \/ ~isConnected'
<1>0. ThreadsOK
  BY DEF IInv, TypeOK
<1> USE DEF SendFailed, ThreadsOK, Goto, Step, CallSend, ReturnFromSend,
            CallDisconnect, ReturnFromDisconnect, callVars, threadVars
<1>1. CASE RegisterConnect \/ PeerClose \/ UNCHANGED vars
  BY <1>1 DEF RegisterConnect, PeerClose, vars
<1>2. ASSUME NEW t \in Threads, ConnectStep(t) PROVE SendFailed(u)'
  BY <1>0, <1>2 DEF ConnectStep, ProcessAccept, ObserveConnect,
     ProcessConnect, AddSession, OnConnected, ObserveIO
<1>3. ASSUME NEW t \in Threads, RecvStep(t) PROVE SendFailed(u)'
  BY <1>0, <1>3 DEF RecvStep, ObserveRecv, RegisterRecv, WSARecv, RecvError,
     ProcessRecv, OnRecv, ObserveIO
<1>4. ASSUME NEW t \in Threads, SendStep(t) PROVE SendFailed(u)'
  <2>1. CASE ProcessSend(t)
    BY <1>0, <2>1 DEF ProcessSend
  <2>2. CASE WSASend(t)
    BY <1>0, <2>2 DEF WSASend
  <2>3. CASE Send(t) \/ Push(t) \/ RegisterSend(t) \/ SendError(t) \/ OnSend(t)
    BY <1>0, <2>3 DEF Send, Push, RegisterSend, SendError, OnSend
  <2>4. CASE Broadcast(t) \/ EndBroadcast(t) \/ ObserveSend(t) \/ Drain(t)
    BY <1>0, <2>4 DEF Broadcast, EndBroadcast, ObserveSend, Drain, ObserveIO
  <2> QED
    BY <1>4, <2>1, <2>2, <2>3, <2>4 DEF SendStep
<1>5. ASSUME NEW t \in Threads, DisconnectStep(t)
      PROVE  SendFailed(u)' \/ ~isConnected'
  <2>1. CASE Disconnect(t)
    BY <2>1 DEF Disconnect
  <2>2. CASE ObserveDisconnect(t) \/ DisconnectExError(t) \/
            ProcessDisconnect(t) \/ OnDisconnected(t) \/ RemoveSession(t)
    BY <1>0, <2>2 DEF ObserveDisconnect, DisconnectExError,
       ProcessDisconnect, OnDisconnected, RemoveSession, ObserveIO
  <2> QED
    BY <1>5, <2>1, <2>2 DEF DisconnectStep
<1> QED
  BY <1>1, <1>2, <1>3, <1>4, <1>5, NextCases

\* isConnected is set by ProcessConnect only, and an error is never forgotten.
LEMMA FlagsMove ==
  ASSUME IInv, [Next]_vars
  PROVE  /\ isConnected' => isConnected \/ Opening
         /\ ioErrorLogged => ioErrorLogged'
<1>0. ThreadsOK /\ EventsOK /\ CallInv
  BY DEF IInv, TypeOK
<1> USE DEF flagVars, kernelVars
<1>1. ASSUME RegisterConnect \/ PeerClose \/ UNCHANGED vars
      PROVE  UNCHANGED <<isConnected, ioErrorLogged>>
  BY <1>1 DEF RegisterConnect, PeerClose, vars
<1>2. ASSUME NEW t \in Threads, ConnectStep(t)
      PROVE  /\ isConnected' => isConnected \/ Opening
             /\ ioErrorLogged => ioErrorLogged'
  BY <1>2 DEF ConnectStep, ProcessAccept, ObserveConnect, ProcessConnect,
     AddSession, OnConnected, ObserveIO, Step, Opening, OpenLabels
<1>3. ASSUME NEW t \in Threads, RecvStep(t)
      PROVE  isConnected' = isConnected /\ (ioErrorLogged => ioErrorLogged')
  BY <1>3 DEF RecvStep, ObserveRecv, RegisterRecv, WSARecv, RecvError,
     ProcessRecv, OnRecv, ObserveIO
<1>4. ASSUME NEW t \in Threads, SendStep(t)
      PROVE  isConnected' = isConnected /\ (ioErrorLogged => ioErrorLogged')
  BY <1>0, <1>4, SendKeepsRecv
<1>5. ASSUME NEW t \in Threads, DisconnectStep(t)
      PROVE  (isConnected' => isConnected) /\ (ioErrorLogged => ioErrorLogged')
  <2>1. CASE Disconnect(t)
    BY <2>1 DEF Disconnect
  <2>2. CASE ObserveDisconnect(t) \/ DisconnectExError(t) \/
            ProcessDisconnect(t) \/ OnDisconnected(t) \/ RemoveSession(t)
    BY <2>2 DEF ObserveDisconnect, DisconnectExError, ProcessDisconnect,
       OnDisconnected, RemoveSession, ObserveIO
  <2> QED
    BY <1>5, <2>1, <2>2 DEF DisconnectStep
<1> QED
  BY <1>1, <1>2, <1>3, <1>4, <1>5, NextCases

\* A sound session was sound before, or is being opened.
LEMMA SoundBefore ==
  ASSUME IInv, [Next]_vars, Sound'
  PROVE  Sound \/ Opening
  BY FlagsMove, FailureNoticed DEF Sound

\* Whoever drops a batch in RegisterSend has printed the error or has
\* disconnected.
LEMMA ErrorNoticed ==
  ASSUME IInv, LossInv, [Next]_vars, NEW u \in Threads, pc'[u] = "SendError"
  PROVE  ioErrorLogged' \/ ~isConnected'
<1>0. ThreadsOK
  BY DEF IInv, TypeOK
<1> DEFINE Stays == pc[u] = "SendError"
           Noticed == ioErrorLogged' \/ ~isConnected'
<1> USE DEF ThreadsOK, Goto, Step, CallSend, ReturnFromSend, CallDisconnect,
            ReturnFromDisconnect, flagVars, kernelVars, threadVars
<1>1. ASSUME Stays PROVE Noticed
  <2>1. ~Opening
    BY <1>1 DEF IInv, OpenInv, OpenLabels
  <2> QED
    BY <1>1, <2>1, FlagsMove DEF LossInv
<1>2. CASE RegisterConnect \/ PeerClose \/ UNCHANGED vars
  <2>1. Stays
    BY <1>2 DEF RegisterConnect, PeerClose, vars
  <2> QED
    BY <1>1, <2>1
<1>3. ASSUME NEW t \in Threads, ConnectStep(t) PROVE Stays
  BY <1>0, <1>3 DEF ConnectStep, ProcessAccept, ObserveConnect,
     ProcessConnect, AddSession, OnConnected, ObserveIO
<1>4. ASSUME NEW t \in Threads, RecvStep(t) PROVE Stays
  BY <1>0, <1>4 DEF RecvStep, ObserveRecv, RegisterRecv, WSARecv, RecvError,
     ProcessRecv, OnRecv, ObserveIO
<1>5. ASSUME NEW t \in Threads, SendStep(t) PROVE Stays \/ Noticed
  <2>1. CASE WSASend(t)
    BY <1>0, <2>1 DEF WSASend
  <2>2. CASE Send(t) \/ Push(t) \/ RegisterSend(t) \/ SendError(t)
    BY <1>0, <2>2 DEF Send, Push, RegisterSend, SendError
  <2>3. CASE Broadcast(t) \/ EndBroadcast(t) \/ ObserveSend(t) \/ Drain(t)
             \/ OnSend(t) \/ ProcessSend(t)
    BY <1>0, <2>3 DEF Broadcast, EndBroadcast, ObserveSend, Drain, ObserveIO,
       OnSend, ProcessSend
  <2> QED
    BY <1>5, <2>1, <2>2, <2>3 DEF SendStep
<1>6. ASSUME NEW t \in Threads, DisconnectStep(t) PROVE Stays \/ Noticed
  <2>1. CASE Disconnect(t)
    BY <2>1 DEF Disconnect
  <2>2. CASE DisconnectExError(t)
    <3>1. ~isConnected /\ UNCHANGED isConnected
      BY <2>2 DEF DisconnectExError, IInv, RearmInv
    <3> QED
      BY <3>1
  <2>3. CASE ObserveDisconnect(t) \/ ProcessDisconnect(t) \/
            OnDisconnected(t) \/ RemoveSession(t)
    BY <1>0, <2>3 DEF ObserveDisconnect, ProcessDisconnect, OnDisconnected,
       RemoveSession, ObserveIO
  <2> QED
    BY <1>6, <2>1, <2>2, <2>3 DEF DisconnectStep
<1> QED
  BY <1>1, <1>2, <1>3, <1>4, <1>5, <1>6, NextCases

\* While it is being opened a session has accepted nothing and lost nothing.
LEMMA NothingYet ==
  ASSUME IInv, LossInv, Opening, ~AppBroadcasts
  PROVE  /\ accepted = 0
         /\ OutboxOf!Messages = [i \in 1 .. accepted |-> i]
<1>1. /\ accepted = 0 /\ wire = << >> /\ sendBuffers = << >>
      /\ sendQueue = << >>
  BY DEF LossInv, IInv, QueueInv
<1>2. Unsent = << >>
  BY <1>1 DEF Unsent
<1>3. OutboxOf!Messages = << >>
  BY <1>1, <1>2 DEF OutboxOf!Messages
<1>4. [i \in 1 .. accepted |-> i] = << >>
  BY <1>1
<1> QED
  BY <1>1, <1>3, <1>4

\* Appending the next number to the first n.
LEMMA NextMessage ==
  ASSUME NEW n \in Nat
  PROVE  /\ [i \in 1 .. n |-> i] \in Seq(Nat)
         /\ Append([i \in 1 .. n |-> i], n + 1) = [i \in 1 .. n + 1 |-> i]
<1> DEFINE s == [i \in 1 .. n |-> i]
           u == [i \in 1 .. n + 1 |-> i]
<1>1. s \in Seq(Nat) /\ Len(s) = n
  OBVIOUS
<1>2. u \in Seq(Nat) /\ Len(u) = n + 1
  OBVIOUS
<1>3. /\ \A i \in 1 .. n : s[i] = i
      /\ \A i \in 1 .. n + 1 : u[i] = i
  OBVIOUS
<1> HIDE DEF s, u
<1>4. /\ Append(s, n + 1) \in Seq(Nat) /\ Len(Append(s, n + 1)) = n + 1
      /\ \A i \in 1 .. n : Append(s, n + 1)[i] = s[i]
      /\ Append(s, n + 1)[n + 1] = n + 1
  BY <1>1, AppendProperties
<1>5. \A i \in 1 .. n + 1 : Append(s, n + 1)[i] = u[i]
  <2> TAKE i \in 1 .. n + 1
  <2>1. CASE i \in 1 .. n
    BY <2>1, <1>3, <1>4
  <2>2. CASE i = n + 1
    BY <2>2, <1>3, <1>4
  <2>3. i \in 1 .. n \/ i = n + 1
    OBVIOUS
  <2> QED
    BY <2>1, <2>2, <2>3
<1>6. Append(s, n + 1) = u
  BY <1>2, <1>4, <1>5, SeqEqual
<1> QED
  BY <1>1, <1>6 DEF s, u

\* Every step of a session that stays sound keeps its messages together.
LEMMA NothingLostKept ==
  ASSUME IInv, LossInv, ~AppBroadcasts, [Next]_vars, Sound'
  PROVE  (OutboxOf!Messages)' = [i \in 1 .. accepted' |-> i]
<1>1. OutboxOf!Messages = [i \in 1 .. accepted |-> i]
  BY SoundBefore, NothingYet DEF LossInv, NothingLost, Sound
<1>2. /\ ThreadsOK /\ wire \in Seq(Nat) /\ sendQueue \in Seq(Nat)
      /\ sendBuffers \in Seq(Nat) /\ Unsent \in Seq(Nat) /\ accepted \in Nat
  BY DEF IInv, TypeOK, QueuesOK, Unsent
<1>3. ASSUME UNCHANGED OutboxOf!vars
      PROVE  (OutboxOf!Messages)' = [i \in 1 .. accepted' |-> i]
  BY <1>1, <1>3 DEF OutboxOf!vars, OutboxOf!Messages
<1>4. CASE Quiet
  BY <1>3, <1>4, QuietStutters
<1>5. ASSUME NEW t \in Threads, ObserveSend(t)
      PROVE  (OutboxOf!Messages)' = [i \in 1 .. accepted' |-> i]
  <2>1. posted["SEND"] > 0 /\ pc[t] = "idle" /\ SendExclusive
    BY <1>5 DEF ObserveSend, ObserveIO, Step, IInv
  <2>2. Unsent = sendBuffers /\ sendBuffers = inflight
    BY <2>1, OwnerUnsent DEF SentLabels, IInv, InFlightRetained
  <2>3. iocpObj["SEND"]
    BY <2>1 DEF IInv, HoldInv, EventHoldsSession, Events
  <2>4. pc'[t] # "SendZero"
    BY DEF Sound, SendFailed
  <2>5. pc'[t] = "ProcessSend" /\ wire' = wire \o inflight
    BY <1>2, <1>5, <2>3, <2>4
    DEF ObserveSend, ObserveIO, Step, Goto, ThreadsOK
  <2>6. Unsent' = << >> /\ UNCHANGED <<accepted, sendQueue>>
    BY <1>5, <2>5 DEF Unsent, ObserveSend, ObserveIO, queueVars
  <2>7. (OutboxOf!Messages)' = (wire \o Unsent) \o sendQueue
    BY <1>2, <2>2, <2>5, <2>6 DEF OutboxOf!Messages
  <2>8. (wire \o Unsent) \o sendQueue = wire \o (Unsent \o sendQueue)
    BY <1>2, Regroup, Zenon
  <2> QED
    BY <1>1, <2>6, <2>7, <2>8 DEF OutboxOf!Messages
<1>6. ASSUME NEW t \in Threads, Push(t)
      PROVE  (OutboxOf!Messages)' = [i \in 1 .. accepted' |-> i]
  <2> DEFINE backlog == Unsent \o sendQueue
  <2>1. /\ accepted' = accepted + 1
        /\ backlog' = Append(backlog, accepted + 1)
        /\ wire' = wire
    BY <1>6, PushAccepts DEF OutboxOf!Accept
  <2>2. backlog \in Seq(Nat)
    BY <1>2
  <2>3. OutboxOf!Messages = wire \o backlog
    BY DEF OutboxOf!Messages
  <2>4. (OutboxOf!Messages)' = wire' \o backlog'
    BY DEF OutboxOf!Messages
  <2> HIDE DEF backlog
  <2>5. wire \o Append(backlog, accepted + 1)
          = Append(wire \o backlog, accepted + 1)
    BY <1>2, <2>2, Batches
  <2>6. (OutboxOf!Messages)' = Append([i \in 1 .. accepted |-> i], accepted + 1)
    BY <1>1, <2>1, <2>3, <2>4, <2>5
  <2> QED
    BY <1>2, <2>1, <2>6, NextMessage
<1>7. ASSUME NEW t \in Threads, Drain(t)
      PROVE  (OutboxOf!Messages)' = [i \in 1 .. accepted' |-> i]
  BY <1>3, <1>7, DrainMoves
<1>8. ASSUME NEW t \in Threads, SendError(t) PROVE FALSE
  <2>1. ioErrorLogged \/ ~isConnected
    BY <1>8 DEF LossInv, SendError
  <2>2. UNCHANGED <<isConnected, ioErrorLogged>>
    BY <1>8 DEF SendError, kernelVars
  <2> QED
    BY <2>1, <2>2 DEF Sound
<1>9. ASSUME NEW t \in Threads, ProcessSend(t)
      PROVE  (OutboxOf!Messages)' = [i \in 1 .. accepted' |-> i]
  BY <1>3, <1>9, ProcessSendStutters
<1> QED
  BY <1>2, <1>4, <1>5, <1>6, <1>7, <1>8, <1>9, QuietSteps

LEMMA LossPreserved ==
  ASSUME IInv, LossInv, ~AppBroadcasts, [Next]_vars
  PROVE  LossInv'
<1>1. NothingLost'
  BY NothingLostKept DEF NothingLost, Sound
<1>2. ASSUME Opening'
      PROVE  (accepted = 0 /\ wire = << >> /\ sendBuffers = << >>)'
  <2>1. Opening
    BY <1>2, OpenedOnce DEF IInv, TypeOK
  <2>2. Quiet
    BY <2>1, OpeningQuiet
  <2> QED
    BY <2>1, <2>2 DEF LossInv, Quiet
<1>3. \A t \in Threads :
        pc'[t] = "SendError" => ioErrorLogged' \/ ~isConnected'
  BY ErrorNoticed
<1> QED
  BY <1>1, <1>2, <1>3 DEF LossInv

\* Session.cpp:23-43, 93-139 and 226-248: as long as nobody calls Broadcast and
\* the session is connected with no error met, every message Send accepted is
\* on the wire, in the kernel or in the queue, once and in order.
THEOREM NoMessageLost ==
  ASSUME ~AppBroadcasts PROVE Spec => []NothingLost
<1>1. Init => LossInv
  BY DEF Init, LossInv, NothingLost
<1>2. IInv /\ LossInv /\ [Next]_vars => LossInv'
  BY LossPreserved
<1>3. LossInv => NothingLost
  BY DEF LossInv
<1> QED
  BY <1>1, <1>2, <1>3, Invariance, PTL DEF Spec

=============================================================================
