--------------------------- MODULE AccountSessions ---------------------------
(***************************************************************************)
(* What the OneBot server promises the rest of the bridge about sessions,  *)
(* seen through QQClient.session(): every QQ account has at most one       *)
(* current session; a session becomes current for one account, once, and   *)
(* only while the account has none; it stays current until it ends, and an *)
(* ended session never comes back.                                         *)
(***************************************************************************)

CONSTANTS
  Sessions,   \* the NapCatQQ connections
  Accounts,   \* the QQ numbers
  None        \* "no session"

VARIABLES
  current,    \* [Accounts -> Sessions \cup {None}]: what session() returns
  ended       \* the sessions that have been closed

vars == <<current, ended>>

TypeOK ==
  /\ current \in [Accounts -> Sessions \cup {None}]
  /\ ended \in SUBSET Sessions

Init ==
  /\ current = [a \in Accounts |-> None]
  /\ ended = {}

(* Session s, alive and current nowhere, becomes the session of account a. *)
Attach(a, s) ==
  /\ current[a] = None
  /\ s \notin ended
  /\ \A b \in Accounts : current[b] # s
  /\ current' = [current EXCEPT ![a] = s]
  /\ UNCHANGED ended

(* Session s is closed, by whomever: from then on no account has it. *)
End(s) ==
  /\ s \notin ended
  /\ ended' = ended \cup {s}
  /\ current' = [a \in Accounts |-> IF current[a] = s THEN None ELSE current[a]]

Next ==
  \E s \in Sessions : End(s) \/ \E a \in Accounts : Attach(a, s)

Spec == Init /\ [][Next]_vars
=============================================================================
