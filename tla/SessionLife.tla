---------------------------- MODULE SessionLife -----------------------------
(***************************************************************************)
(* What the rest of the server relies on about one session: it is          *)
(* connected, listed, opened, disconnected and taken off the lists, in     *)
(* this order, each at most once.  Session implements it with all its      *)
(* threads; AcceptPool composes many such sessions.                        *)
(***************************************************************************)

CONSTANT Managed  \* whether the session enters the SessionManager

VARIABLES isConnected, inService, inManager, stage

life == <<isConnected, inService, inManager, stage>>

Init ==
  /\ ~isConnected /\ ~inService /\ ~inManager
  /\ stage = "new"

Advance(from, to) == stage = from /\ stage' = to

Connect ==
  /\ Advance("new", "connected")
  /\ isConnected' /\ UNCHANGED <<inService, inManager>>

AddSession ==
  /\ Advance("connected", "added")
  /\ inService' /\ UNCHANGED <<isConnected, inManager>>

Open ==
  /\ Advance("added", "open")
  /\ inManager' = Managed /\ UNCHANGED <<isConnected, inService>>

Disconnect ==
  /\ Advance("open", "closing")
  /\ ~isConnected' /\ UNCHANGED <<inService, inManager>>

Leave ==
  /\ Advance("closing", "left")
  /\ ~inManager' /\ UNCHANGED <<isConnected, inService>>

RemoveSession ==
  /\ Advance("left", "removed")
  /\ ~inService' /\ UNCHANGED <<isConnected, inManager>>

Next ==
  Connect \/ AddSession \/ Open \/ Disconnect \/ Leave \/ RemoveSession

Spec == Init /\ [][Next]_life
=============================================================================
