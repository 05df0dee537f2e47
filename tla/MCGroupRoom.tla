---------------------------- MODULE MCGroupRoom ----------------------------
(* A small instance of GroupRoom: the account, a member, a guest. *)
EXTENDS GroupRoom

CONSTANTS self, m1, guest, none, v
=============================================================================
