--------------------------- MODULE SessionRegistry ---------------------------
(***************************************************************************)
(* The OneBot server of pkg/onebot/server.go: reverse WebSocket sessions,  *)
(* the goroutines that serve them, and the map from QQ account to session  *)
(* that the bridge looks sessions up in (QQClient.session()).              *)
(*                                                                         *)
(* Every accepted connection runs two goroutines: readLoop, which closes   *)
(* the session when the connection fails, and identifySession, which asks  *)
(* the peer who it is and registers the session under that account.  Both  *)
(* may call Session.Close, and so may Server.Stop and another session's    *)
(* identifySession.  Close is a call, so it is a frame on top of the       *)
(* goroutine's own program counter: at[p] says where in Close goroutine p  *)
(* is and victim[p] what it closes; pc[p] is where it goes on after it.    *)
(*                                                                         *)
(* sessionsMu is a Go RWMutex: it is not reentrant.  mu is the goroutine   *)
(* that holds it across steps.  A critical section that does nothing but   *)
(* read or write the map is one step, enabled while mu is free.            *)
(***************************************************************************)
EXTENDS FiniteSets

CONSTANTS
  Sessions,   \* the connections NapCatQQ instances may open, one Session each
  Accounts,   \* the QQ numbers get_login_info may answer
  None,       \* no session, no goroutine, no answer
  NoId,       \* the empty user_id
  Lookups,    \* goroutines of the bridge that call QQClient.session()
  Reports,    \* [Sessions -> SUBSET (Accounts \cup {NoId})]: possible answers
  MayStop     \* whether the bridge stops the server in this instance

ASSUME ConstantsAssumption ==
  /\ None \notin Sessions \cup Accounts
  /\ NoId \notin Accounts
  /\ NoId # None
  /\ Reports \in [Sessions -> SUBSET (Accounts \cup {NoId})]
  /\ MayStop \in BOOLEAN

Reader(s) == <<"reader", s>>
Ident(s)  == <<"ident", s>>
Stopper   == <<"stop", None>>

Procs == ({"reader", "ident"} \X Sessions) \cup {Stopper}

ASSUME NoneAssumption == None \notin Procs

VARIABLES
  sessions,   \* Server.sessions
  mu,         \* the goroutine inside a long critical section of sessionsMu
  conn,       \* the WebSocket of each session: "new", "up" or "down"
  self,       \* Session.self.UserID
  closed,     \* Session.closed
  reply,      \* get_login_info's answer, delivered to the pending call
  pc,         \* where each goroutine is
  at,         \* where in Session.Close it is: "no", "swap", "selfID", "remove"
  victim,     \* the session it is closing
  lookup      \* the QQClient.session() calls under way

vars == <<sessions, mu, conn, self, closed, reply, pc, at, victim, lookup>>

NoLookup == [at |-> "idle", want |-> None, got |-> None]

TypeOK ==
  /\ sessions \in [Accounts -> Sessions \cup {None}]
  /\ mu \in Procs \cup {None}
  /\ conn \in [Sessions -> {"new", "up", "down"}]
  /\ self \in [Sessions -> Accounts \cup {NoId}]
  /\ closed \in [Sessions -> BOOLEAN]
  /\ reply \in [Sessions -> Accounts \cup {NoId, None}]
  /\ pc \in [Procs -> {"idle", "read", "call", "lock", "install", "sweep", "done"}]
  /\ at \in [Procs -> {"no", "swap", "selfID", "remove"}]
  /\ victim \in [Procs -> Sessions \cup {None}]
  /\ lookup \in [Lookups -> [at: {"idle", "get", "check"},
                             want: Accounts \cup {None},
                             got: Sessions \cup {None}]]

Init ==
  /\ sessions = [a \in Accounts |-> None]
  /\ mu = None
  /\ conn = [s \in Sessions |-> "new"]
  /\ self = [s \in Sessions |-> NoId]
  /\ closed = [s \in Sessions |-> FALSE]
  /\ reply = [s \in Sessions |-> None]
  /\ pc = [p \in Procs |-> "idle"]
  /\ at = [p \in Procs |-> "no"]
  /\ victim = [p \in Procs |-> None]
  /\ lookup = [k \in Lookups |-> NoLookup]

-----------------------------------------------------------------------------
(* The connection. *)

(* handleWebSocket: an authorized upgrade makes the Session and starts its *)
(* two goroutines.  A connection that authorize refuses, or that comes     *)
(* after the server's context ended, is one that never takes this step.    *)
Connect(s) ==
  /\ pc[Stopper] = "idle"
  /\ conn[s] = "new"
  /\ conn' = [conn EXCEPT ![s] = "up"]
  /\ pc' = [pc EXCEPT ![Reader(s)] = "read", ![Ident(s)] = "call"]
  /\ UNCHANGED <<sessions, mu, self, closed, reply, at, victim, lookup>>

(* The peer goes away, or the network does. *)
ConnLost(s) ==
  /\ conn[s] = "up"
  /\ conn' = [conn EXCEPT ![s] = "down"]
  /\ UNCHANGED <<sessions, mu, self, closed, reply, pc, at, victim, lookup>>

-----------------------------------------------------------------------------
(* Session.Close, called by goroutine p on session s, which then goes on   *)
(* at `cont'.                                                              *)
CallClose(p, s, cont) ==
  /\ at' = [at EXCEPT ![p] = "swap"]
  /\ victim' = [victim EXCEPT ![p] = s]
  /\ pc' = [pc EXCEPT ![p] = cont]

ReturnFromClose(p) ==
  /\ at' = [at EXCEPT ![p] = "no"]
  /\ victim' = [victim EXCEPT ![p] = None]

(* Fault: Close forgets removeSession. *)
CloseSwapNoRemove(p) ==
  /\ at[p] = "swap"
  /\ closed' = [closed EXCEPT ![victim[p]] = TRUE]
  /\ conn' = [conn EXCEPT ![victim[p]] = "down"]
  /\ ReturnFromClose(p)
  /\ UNCHANGED <<sessions, mu, self, reply, pc, lookup>>

(* closed.Swap(true): the first caller goes on and closes the connection,  *)
(* every other one returns.                                                *)
CloseSwap(p) ==
  /\ at[p] = "swap"
  /\ \/ /\ closed[victim[p]]
        /\ ReturnFromClose(p)
        /\ UNCHANGED <<closed, conn>>
     \/ /\ ~closed[victim[p]]
        /\ closed' = [closed EXCEPT ![victim[p]] = TRUE]
        /\ conn' = [conn EXCEPT ![victim[p]] = "down"]
        /\ at' = [at EXCEPT ![p] = "selfID"]
        /\ UNCHANGED victim
  /\ UNCHANGED <<sessions, mu, self, reply, pc, lookup>>

(* removeSession, before the lock: a session without an identity has       *)
(* nothing to remove.                                                      *)
CloseSelfID(p) ==
  /\ at[p] = "selfID"
  /\ \/ /\ self[victim[p]] = NoId
        /\ ReturnFromClose(p)
     \/ /\ self[victim[p]] # NoId
        /\ at' = [at EXCEPT ![p] = "remove"]
        /\ UNCHANGED victim
  /\ UNCHANGED <<sessions, mu, conn, self, closed, reply, pc, lookup>>

(* Fault: removeSession deletes the account's entry, whoever's it is. *)
CloseRemoveAnyone(p) ==
  /\ at[p] = "remove"
  /\ mu = None
  /\ sessions' = [sessions EXCEPT ![self[victim[p]]] = None]
  /\ ReturnFromClose(p)
  /\ UNCHANGED <<mu, conn, self, closed, reply, pc, lookup>>

(* removeSession, under the lock: the entry goes only if it is still this  *)
(* session's.                                                              *)
CloseRemove(p) ==
  /\ at[p] = "remove"
  /\ mu = None
  /\ sessions' = [a \in Accounts |->
                    IF a = self[victim[p]] /\ sessions[a] = victim[p]
                      THEN None ELSE sessions[a]]
  /\ ReturnFromClose(p)
  /\ UNCHANGED <<mu, conn, self, closed, reply, pc, lookup>>

-----------------------------------------------------------------------------
(* readLoop. *)

(* A response with the login call's echo goes to its pending channel: one  *)
(* that has arrived can still be read when the connection is down.         *)
ReadReply(s) ==
  /\ pc[Reader(s)] = "read"
  /\ pc[Ident(s)] = "call"
  /\ reply[s] = None
  /\ \E id \in Reports[s] : reply' = [reply EXCEPT ![s] = id]
  /\ UNCHANGED <<sessions, mu, conn, self, closed, pc, at, victim, lookup>>

(* Fault: readLoop returns without its deferred Close. *)
ReadFailNoClose(s) ==
  /\ pc[Reader(s)] = "read"
  /\ conn[s] = "down"
  /\ pc' = [pc EXCEPT ![Reader(s)] = "done"]
  /\ UNCHANGED <<sessions, mu, conn, self, closed, reply, at, victim, lookup>>

(* ReadMessage fails: the loop ends and its deferred Close runs. *)
ReadFail(s) ==
  /\ pc[Reader(s)] = "read"
  /\ conn[s] = "down"
  /\ CallClose(Reader(s), s, "done")
  /\ UNCHANGED <<sessions, mu, conn, self, closed, reply, lookup>>

-----------------------------------------------------------------------------
(* identifySession. *)

(* Fault: a failed identification only logs. *)
IdentFailNoClose(s) ==
  /\ pc[Ident(s)] = "call"
  /\ pc' = [pc EXCEPT ![Ident(s)] = "done"]
  /\ UNCHANGED <<sessions, mu, conn, self, closed, reply, at, victim, lookup>>

(* GetLoginInfo fails (the session is closed already, the write fails, or  *)
(* the request timeout passes, as it may at any time) or its answer has no *)
(* user_id, the session goes.                                              *)
IdentFail(s) ==
  /\ pc[Ident(s)] = "call"
  /\ CallClose(Ident(s), s, "done")
  /\ UNCHANGED <<sessions, mu, conn, self, closed, reply, lookup>>

(* Fault: the error of GetLoginInfo is not looked at. *)
IdentSetSelfUnchecked(s) ==
  /\ pc[Ident(s)] = "call"
  /\ self' = [self EXCEPT ![s] = reply[s]]
  /\ pc' = [pc EXCEPT ![Ident(s)] = "lock"]
  /\ UNCHANGED <<sessions, mu, conn, closed, reply, at, victim, lookup>>

(* Fault: the session is registered without setSelf. *)
IdentNoSetSelf(s) ==
  /\ pc[Ident(s)] = "call"
  /\ reply[s] \in Accounts
  /\ pc' = [pc EXCEPT ![Ident(s)] = "lock"]
  /\ UNCHANGED <<sessions, mu, conn, self, closed, reply, at, victim, lookup>>

(* GetLoginInfo answers an account: setSelf. *)
IdentSetSelf(s) ==
  /\ pc[Ident(s)] = "call"
  /\ reply[s] \in Accounts
  /\ self' = [self EXCEPT ![s] = reply[s]]
  /\ pc' = [pc EXCEPT ![Ident(s)] = "lock"]
  /\ UNCHANGED <<sessions, mu, conn, closed, reply, at, victim, lookup>>

(* Fault: the old session is not closed. *)
IdentLockKeepsOld(s) ==
  /\ pc[Ident(s)] = "lock"
  /\ mu = None
  /\ mu' = Ident(s)
  /\ pc' = [pc EXCEPT ![Ident(s)] = "install"]
  /\ UNCHANGED <<sessions, conn, self, closed, reply, at, victim, lookup>>

(* sessionsMu.Lock(), and the look at the old session of selfID, the       *)
(* account reported: if there is one it is closed, with the lock held.     *)
IdentLock(s) ==
  /\ pc[Ident(s)] = "lock"
  /\ mu = None
  /\ mu' = Ident(s)
  /\ \/ /\ sessions[reply[s]] \notin {None, s}
        /\ CallClose(Ident(s), sessions[reply[s]], "install")
     \/ /\ sessions[reply[s]] \in {None, s}
        /\ pc' = [pc EXCEPT ![Ident(s)] = "install"]
        /\ UNCHANGED <<at, victim>>
  /\ UNCHANGED <<sessions, conn, self, closed, reply, lookup>>

(* Fault: sessionsMu is not unlocked. *)
IdentInstallNoUnlock(s) ==
  /\ pc[Ident(s)] = "install"
  /\ at[Ident(s)] = "no"
  /\ sessions' = [sessions EXCEPT ![reply[s]] = s]
  /\ pc' = [pc EXCEPT ![Ident(s)] = "done"]
  /\ UNCHANGED <<mu, conn, self, closed, reply, at, victim, lookup>>

(* s.sessions[selfID] = sess, and Unlock. *)
IdentInstall(s) ==
  /\ pc[Ident(s)] = "install"
  /\ at[Ident(s)] = "no"
  /\ sessions' = [sessions EXCEPT ![reply[s]] = s]
  /\ mu' = None
  /\ pc' = [pc EXCEPT ![Ident(s)] = "done"]
  /\ UNCHANGED <<conn, self, closed, reply, at, victim, lookup>>

-----------------------------------------------------------------------------
(* Server.Stop. *)

(* Stop: Shutdown, which ends the accepting and leaves the hijacked        *)
(* connections alone.                                                      *)
StopCall ==
  /\ MayStop
  /\ pc[Stopper] = "idle"
  /\ pc' = [pc EXCEPT ![Stopper] = "lock"]
  /\ UNCHANGED <<sessions, mu, conn, self, closed, reply, at, victim, lookup>>

StopLock ==
  /\ pc[Stopper] = "lock"
  /\ mu = None
  /\ mu' = Stopper
  /\ pc' = [pc EXCEPT ![Stopper] = "sweep"]
  /\ UNCHANGED <<sessions, conn, self, closed, reply, at, victim, lookup>>

(* The range over the sessions closes each one, with the lock held.  Close *)
(* on one that is closed already returns at once, so only the open ones    *)
(* are steps.                                                              *)
StopSweep(a) ==
  /\ pc[Stopper] = "sweep"
  /\ at[Stopper] = "no"
  /\ sessions[a] # None
  /\ ~closed[sessions[a]]
  /\ CallClose(Stopper, sessions[a], "sweep")
  /\ UNCHANGED <<sessions, mu, conn, self, closed, reply, lookup>>

(* The range is over: the map is replaced and the lock released. *)
StopClear ==
  /\ pc[Stopper] = "sweep"
  /\ at[Stopper] = "no"
  /\ \A a \in Accounts : sessions[a] # None => closed[sessions[a]]
  /\ sessions' = [a \in Accounts |-> None]
  /\ mu' = None
  /\ pc' = [pc EXCEPT ![Stopper] = "done"]
  /\ UNCHANGED <<conn, self, closed, reply, at, victim, lookup>>

-----------------------------------------------------------------------------
(* QQClient.session(): GetSession under the read lock, then IsConnected. *)

LookupCall(k, a) ==
  /\ lookup[k].at = "idle"
  /\ lookup' = [lookup EXCEPT ![k] = [at |-> "get", want |-> a, got |-> None]]
  /\ UNCHANGED <<sessions, mu, conn, self, closed, reply, pc, at, victim>>

LookupGet(k) ==
  /\ lookup[k].at = "get"
  /\ mu = None
  /\ lookup' = [lookup EXCEPT ![k] = [at |-> "check", want |-> lookup[k].want,
                                       got |-> sessions[lookup[k].want]]]
  /\ UNCHANGED <<sessions, mu, conn, self, closed, reply, pc, at, victim>>

(* The session is handed to the caller. *)
LookupFound(k) ==
  /\ lookup[k].at = "check"
  /\ lookup[k].got # None
  /\ ~closed[lookup[k].got]
  /\ lookup' = [lookup EXCEPT ![k] = NoLookup]
  /\ UNCHANGED <<sessions, mu, conn, self, closed, reply, pc, at, victim>>

(* "NapCat session for QQ %s is not connected" *)
LookupNotConnected(k) ==
  /\ lookup[k].at = "check"
  /\ lookup[k].got # None => closed[lookup[k].got]
  /\ lookup' = [lookup EXCEPT ![k] = NoLookup]
  /\ UNCHANGED <<sessions, mu, conn, self, closed, reply, pc, at, victim>>

-----------------------------------------------------------------------------
CloseStep(p) == CloseSwap(p) \/ CloseSelfID(p) \/ CloseRemove(p)

IdentStep(s) ==
  \/ IdentFail(s) \/ IdentSetSelf(s) \/ IdentLock(s) \/ IdentInstall(s)

StopStep == StopLock \/ (\E a \in Accounts : StopSweep(a)) \/ StopClear

LookupStep(k) == LookupGet(k) \/ LookupFound(k) \/ LookupNotConnected(k)

Next ==
  \/ \E s \in Sessions :
       \/ Connect(s) \/ ConnLost(s) \/ ReadReply(s) \/ ReadFail(s) \/ IdentStep(s)
  \/ \E p \in Procs : CloseStep(p)
  \/ StopCall \/ StopStep
  \/ \E k \in Lookups : LookupStep(k) \/ \E a \in Accounts : LookupCall(k, a)

Spec == Init /\ [][Next]_vars

(* Goroutines that can run do run: the Go scheduler starves none, and the  *)
(* request timeout bounds the only wait of identifySession outside locks.  *)
(* Nothing is assumed of peers: they need not connect, answer or leave.    *)
Fairness ==
  /\ \A p \in Procs : WF_vars(CloseStep(p))
  /\ \A s \in Sessions : WF_vars(ReadFail(s)) /\ WF_vars(IdentStep(s))
  /\ WF_vars(StopStep)
  /\ \A k \in Lookups : WF_vars(LookupStep(k))

FairSpec == Spec /\ Fairness

-----------------------------------------------------------------------------
(* Properties. *)

(* The session found under an account has identified itself as that        *)
(* account: calls made for one QQ number never go to another one's client  *)
(* (identifySession writes the map and Session.self in different critical  *)
(* sections).                                                              *)
RegisteredUnderOwnAccount ==
  \A a \in Accounts : sessions[a] # None => self[sessions[a]] = a

(* session() reads the map and the closed flag in two steps; still, at the *)
(* moment it returns a session, that session is the one registered for the *)
(* account it was asked for.                                               *)
LookupIsCurrent ==
  [][\A k \in Lookups :
       LookupFound(k) => sessions[lookup[k].want] = lookup[k].got]_vars

(* What session() can see of the server's state implements the abstract    *)
(* account-to-session assignment: one current session per account, kept    *)
(* until it ends, never back after its end.                                *)
CurrentSession ==
  [a \in Accounts |->
     IF sessions[a] # None /\ ~closed[sessions[a]] THEN sessions[a] ELSE None]

Ended == {s \in Sessions : closed[s]}

Abs == INSTANCE AccountSessions WITH current <- CurrentSession, ended <- Ended

ImplementsAccountSessions == Abs!Spec

(* Liveness. *)

(* Every lookup of a session returns: session() is called by every Matrix  *)
(* event, every login and every sync of the bridge.                        *)
LookupReturns ==
  \A k \in Lookups : lookup[k].at # "idle" ~> lookup[k].at = "idle"

(* A goroutine waits for sessionsMu while it holds it. *)
LockedOut == \E p \in Procs : mu = p /\ at[p] = "remove"

(* That is the only thing that can keep a lookup from returning. *)
LookupReturnsUnlessLockedOut ==
  \A k \in Lookups : lookup[k].at # "idle" ~> lookup[k].at = "idle" \/ LockedOut

(* A connection is not left half open: in the end it is registered under   *)
(* the account it reported, or closed.                                     *)
IdentifiedOrClosed ==
  \A s \in Sessions :
    conn[s] = "up" ~>
      closed[s] \/ (self[s] # NoId /\ sessions[self[s]] = s) \/ LockedOut

(* An open session whose connection is lost leaves the map, whoever        *)
(* notices the loss first.                                                 *)
LostSessionLeaves ==
  \A s \in Sessions, a \in Accounts :
    sessions[a] = s /\ ~closed[s] /\ conn[s] = "down" ~> sessions[a] # s \/ LockedOut
=============================================================================
