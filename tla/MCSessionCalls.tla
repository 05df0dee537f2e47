---------------------------- MODULE MCSessionCalls ----------------------------
(* Small instances of SessionCalls: the names the configurations use. *)
EXTENDS SessionCalls

CONSTANTS c1, c2
=============================================================================
