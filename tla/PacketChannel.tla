--------------------------- MODULE PacketChannel ---------------------------
(***************************************************************************)
(* What a peer that sends packets may expect of PacketSession: each packet *)
(* is handed to OnRecvPacket once, whole and in the order sent, and none   *)
(* is left behind.                                                         *)
(***************************************************************************)
EXTENDS Naturals

CONSTANT Total  \* bound: how many packets are sent

VARIABLES sent, delivered

vars == <<sent, delivered>>

Init == sent = 0 /\ delivered = 0

Send == sent < Total /\ sent' = sent + 1 /\ UNCHANGED delivered

Deliver == delivered < sent /\ delivered' = delivered + 1 /\ UNCHANGED sent

Next == Send \/ Deliver

Spec == Init /\ [][Next]_vars /\ WF_vars(Deliver)
=============================================================================
