---------------------------- MODULE MCAcceptPool ----------------------------
(* Small instances of AcceptPool for TLC. *)
EXTENDS AcceptPool
=============================================================================
