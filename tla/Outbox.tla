------------------------------- MODULE Outbox -------------------------------
(***************************************************************************)
(* What Session::Send promises its caller, with no threads, events or      *)
(* buffers: accepted messages leave in the order they were accepted, each  *)
(* at most once; a failing socket loses a batch as a whole, never          *)
(* reorders or repeats it.  Messages are numbered in the order accepted.   *)
(***************************************************************************)
EXTENDS Naturals, Sequences

VARIABLES
  accepted,  \* how many messages Send has accepted
  backlog,   \* accepted, neither transmitted nor lost, oldest first
  wire       \* handed to the peer, oldest first

vars == <<accepted, backlog, wire>>

Init ==
  /\ accepted = 0
  /\ backlog = << >>
  /\ wire = << >>

Accept ==
  /\ accepted' = accepted + 1
  /\ backlog' = Append(backlog, accepted + 1)
  /\ UNCHANGED wire

\* The n oldest messages leave together.
Oldest(n) == SubSeq(backlog, 1, n)
WithoutOldest(n) == SubSeq(backlog, n + 1, Len(backlog))

Transmit(n) ==
  /\ wire' = wire \o Oldest(n)
  /\ backlog' = WithoutOldest(n)
  /\ UNCHANGED accepted

Lose(n) ==
  /\ backlog' = WithoutOldest(n)
  /\ UNCHANGED <<accepted, wire>>

Next ==
  \/ Accept
  \/ \E n \in 1 .. Len(backlog) : Transmit(n) \/ Lose(n)

Spec == Init /\ [][Next]_vars

-----------------------------------------------------------------------------
\* Everything that was accepted and not lost, oldest first.
Messages == wire \o backlog

\* No message overtakes another, is repeated or invented.
InOrder ==
  /\ \A i \in DOMAIN Messages : Messages[i] \in 1 .. accepted
  /\ \A i, j \in DOMAIN Messages : i < j => Messages[i] < Messages[j]
=============================================================================
