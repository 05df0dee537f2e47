-------------------------- MODULE MCSessionRegistry --------------------------
(* Small instances of SessionRegistry: what each connection may report.    *)
EXTENDS SessionRegistry

CONSTANTS s1, s2, a1, a2

(* s1 is account a1's.  s2 may be a reconnection of a1, with the previous  *)
(* session open or closed, or another account's.  An answer without an     *)
(* account is a failed identification, which may happen anyway.            *)
ReconnectReports ==
  [s \in Sessions |-> IF s = s1 THEN {a1} ELSE {a1, a2}]
=============================================================================
