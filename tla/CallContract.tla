---------------------------- MODULE CallContract ----------------------------
(***************************************************************************)
(* What Session.Call promises the rest of the bridge, as if there were no  *)
(* echoes, channels and locks: a goroutine has one call under way at a     *)
(* time, a call the peer has executed may be answered to the goroutine     *)
(* that made it, and to nobody else, and any call may fail, whether or not *)
(* the peer executes it, then or later.                                    *)
(***************************************************************************)

CONSTANTS
  Callers,   \* the goroutines of the bridge that use the session
  Calls,     \* the calls they may make
  None       \* no call

VARIABLES
  open,      \* the call each goroutine has under way, or None
  answer,    \* the call whose answer it was given last, None if that failed
  asked,     \* the calls that were ever made
  executed   \* those the peer has executed

vars == <<open, answer, asked, executed>>

Init ==
  /\ open = [c \in Callers |-> None]
  /\ answer = [c \in Callers |-> None]
  /\ asked = {}
  /\ executed = {}

Ask(c, k) ==
  /\ open[c] = None
  /\ k \notin asked
  /\ open' = [open EXCEPT ![c] = k]
  /\ answer' = [answer EXCEPT ![c] = None]
  /\ asked' = asked \cup {k}
  /\ UNCHANGED executed

Execute(k) ==
  /\ k \in asked
  /\ executed' = executed \cup {k}
  /\ UNCHANGED <<open, answer, asked>>

Answer(c) ==
  /\ open[c] \in executed
  /\ answer' = [answer EXCEPT ![c] = open[c]]
  /\ open' = [open EXCEPT ![c] = None]
  /\ UNCHANGED <<asked, executed>>

Fail(c) ==
  /\ open[c] # None
  /\ open' = [open EXCEPT ![c] = None]
  /\ UNCHANGED <<answer, asked, executed>>

Next ==
  \/ \E c \in Callers : Answer(c) \/ Fail(c) \/ \E k \in Calls : Ask(c, k)
  \/ \E k \in Calls : Execute(k)

Spec == Init /\ [][Next]_vars
=============================================================================
