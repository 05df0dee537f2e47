---------------------------- MODULE MCClientLoops ----------------------------
(* Small instances of ClientLoops: the names the configurations use. *)
EXTENDS ClientLoops

CONSTANTS starter, caller1, caller2, loop1, loop2, ghost1, group1
=============================================================================
