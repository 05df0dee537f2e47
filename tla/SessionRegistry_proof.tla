----------------------- MODULE SessionRegistry_proof -----------------------
(***************************************************************************)
(* Theorems about SessionRegistry, for every set of sessions, accounts and *)
(* lookups and every assignment of reports: type correctness, the safety   *)
(* invariants and action properties the runs check, and the refinement of  *)
(* AccountSessions.                                                        *)
(***************************************************************************)
EXTENDS SessionRegistry, TLAPS

-----------------------------------------------------------------------------
(* Properties that only the proofs are about. *)

(* However many goroutines close a session, one of them takes it apart:    *)
(* conn.Close and removeSession run once (the closed.Swap of Close).       *)
SingleCloser ==
  \A p, q \in Procs :
    /\ at[p] \in {"selfID", "remove"}
    /\ at[q] \in {"selfID", "remove"}
    /\ victim[p] = victim[q]
    => p = q

(* No step takes a session out of the map, or puts another in its place,   *)
(* while it is open: an open session is never forgotten by a late          *)
(* removeSession of its predecessor, by Stop or by a newer session.        *)
OpenSessionStaysRegistered ==
  [][\A a \in Accounts :
       sessions[a] # None /\ sessions'[a] # sessions[a] => closed[sessions[a]]]_vars

-----------------------------------------------------------------------------
(* The inductive invariant, in named parts. *)

(* A connection that was never accepted has no identifySession. *)
NewIsIdle ==
  \A s \in Sessions : conn[s] = "new" => pc[Ident(s)] = "idle"

(* A registered session has identified itself as the account, and its      *)
(* identifySession is over: it is not registered a second time.            *)
RegisteredIsDone ==
  \A a \in Accounts : sessions[a] # None =>
    /\ self[sessions[a]] = a
    /\ pc[Ident(sessions[a])] = "done"

(* Between setSelf and the registration, Session.self is the local selfID. *)
SelfIsReply ==
  \A s \in Sessions : pc[Ident(s)] \in {"lock", "install"} =>
    /\ reply[s] \in Accounts
    /\ self[s] = reply[s]

(* Who is inside a critical section holds the lock. *)
HoldsLock ==
  /\ \A s \in Sessions : pc[Ident(s)] = "install" => mu = Ident(s)
  /\ pc[Stopper] = "sweep" => mu = Stopper

(* identifySession, when it is about to write the map, has an old session  *)
(* that is closed, or is on its way to close it.                           *)
OldIsClosed ==
  \A s \in Sessions : pc[Ident(s)] = "install" =>
    \/ sessions[reply[s]] = None
    \/ closed[sessions[reply[s]]]
    \/ at[Ident(s)] = "swap" /\ victim[Ident(s)] = sessions[reply[s]]

(* Close has a session to close, which is closed once the swap is done. *)
ClosingClosed ==
  \A p \in Procs :
    /\ at[p] # "no" => victim[p] \in Sessions
    /\ at[p] \in {"selfID", "remove"} => closed[victim[p]]

(* What a lookup has read from the map is still there, or closed. *)
LookupOpenIsCurrent ==
  \A k \in Lookups :
    /\ lookup[k].at # "idle" => lookup[k].want \in Accounts
    /\ /\ lookup[k].at = "check"
       /\ lookup[k].got # None
       /\ ~closed[lookup[k].got]
       => sessions[lookup[k].want] = lookup[k].got

IInv ==
  /\ TypeOK
  /\ NewIsIdle
  /\ RegisteredIsDone
  /\ SelfIsReply
  /\ HoldsLock
  /\ OldIsClosed
  /\ ClosingClosed
  /\ SingleCloser
  /\ LookupOpenIsCurrent

-----------------------------------------------------------------------------
(* The goroutines of different sessions and of different kinds differ. *)
LEMMA ProcFacts ==
  /\ Stopper \in Procs
  /\ None \notin Procs
  /\ \A s \in Sessions :
       /\ Reader(s) \in Procs
       /\ Ident(s) \in Procs
       /\ Reader(s) # Stopper
       /\ Ident(s) # Stopper
       /\ \A t \in Sessions : Reader(s) # Ident(t) /\ (Ident(s) = Ident(t) => s = t)
BY NoneAssumption DEF Procs, Reader, Ident, Stopper

(* The initial states satisfy the inductive invariant. *)
LEMMA InitIInv == Init => IInv
<1> SUFFICES ASSUME Init PROVE IInv
  OBVIOUS
<1>1. TypeOK
  BY ConstantsAssumption DEF Init, TypeOK, NoLookup
<1>2. /\ NewIsIdle /\ RegisteredIsDone /\ SelfIsReply /\ HoldsLock
      /\ OldIsClosed /\ ClosingClosed /\ SingleCloser /\ LookupOpenIsCurrent
  BY ProcFacts DEF Init, NewIsIdle, RegisteredIsDone, SelfIsReply, HoldsLock, OldIsClosed,
     ClosingClosed, SingleCloser, LookupOpenIsCurrent, NoLookup
<1> QED
  BY <1>1, <1>2 DEF IInv

(* Every step keeps the types. *)
LEMMA NextTypeOK == ASSUME IInv, [Next]_vars PROVE TypeOK'
<1> USE ConstantsAssumption, ProcFacts DEF TypeOK
<1>0. TypeOK /\ SelfIsReply /\ ClosingClosed /\ LookupOpenIsCurrent
  BY DEF IInv
<1>1. ASSUME NEW s \in Sessions, Connect(s) PROVE TypeOK'
  BY <1>0, <1>1 DEF Connect
<1>2. ASSUME NEW s \in Sessions, ConnLost(s) PROVE TypeOK'
  BY <1>0, <1>2 DEF ConnLost
<1>3. ASSUME NEW s \in Sessions, ReadReply(s) PROVE TypeOK'
  BY <1>0, <1>3 DEF ReadReply
<1>4. ASSUME NEW s \in Sessions, ReadFail(s) PROVE TypeOK'
  BY <1>0, <1>4 DEF ReadFail, CallClose
<1>5. ASSUME NEW s \in Sessions, IdentFail(s) PROVE TypeOK'
  BY <1>0, <1>5 DEF IdentFail, CallClose
<1>6. ASSUME NEW s \in Sessions, IdentSetSelf(s) PROVE TypeOK'
  BY <1>0, <1>6 DEF IdentSetSelf
<1>7. ASSUME NEW s \in Sessions, IdentLock(s) PROVE TypeOK'
  BY <1>0, <1>7 DEF IdentLock, CallClose, SelfIsReply
<1>8. ASSUME NEW s \in Sessions, IdentInstall(s) PROVE TypeOK'
  BY <1>0, <1>8 DEF IdentInstall
<1>9. ASSUME NEW p \in Procs, CloseSwap(p) PROVE TypeOK'
  <2>1. victim[p] \in Sessions
    BY <1>0, <1>9 DEF CloseSwap, ClosingClosed
  <2>2. CASE closed[victim[p]]
    BY <1>0, <1>9, <2>1, <2>2 DEF CloseSwap, ReturnFromClose
  <2>3. CASE ~closed[victim[p]]
    <3>1. /\ closed' = [closed EXCEPT ![victim[p]] = TRUE]
          /\ conn' = [conn EXCEPT ![victim[p]] = "down"]
          /\ at' = [at EXCEPT ![p] = "selfID"]
          /\ UNCHANGED <<sessions, mu, self, reply, pc, victim, lookup>>
      BY <1>9, <2>3 DEF CloseSwap
    <3>2. closed' \in [Sessions -> BOOLEAN]
      BY <1>0, <3>1
    <3>3. /\ conn' \in [Sessions -> {"new", "up", "down"}]
          /\ at' \in [Procs -> {"no", "swap", "selfID", "remove"}]
      BY <1>0, <2>1, <3>1
    <3> QED
      BY <1>0, <3>1, <3>2, <3>3
  <2> QED
    BY <2>2, <2>3
<1>10. ASSUME NEW p \in Procs, CloseSelfID(p) PROVE TypeOK'
  BY <1>0, <1>10 DEF CloseSelfID, ReturnFromClose
<1>11. ASSUME NEW p \in Procs, CloseRemove(p) PROVE TypeOK'
  BY <1>0, <1>11 DEF CloseRemove, ReturnFromClose
<1>12. ASSUME StopCall PROVE TypeOK'
  BY <1>0, <1>12 DEF StopCall
<1>13. ASSUME StopLock PROVE TypeOK'
  BY <1>0, <1>13 DEF StopLock
<1>14. ASSUME NEW a \in Accounts, StopSweep(a) PROVE TypeOK'
  BY <1>0, <1>14 DEF StopSweep, CallClose
<1>15. ASSUME StopClear PROVE TypeOK'
  BY <1>0, <1>15 DEF StopClear
<1>16. ASSUME NEW k \in Lookups, NEW a \in Accounts, LookupCall(k, a) PROVE TypeOK'
  BY <1>0, <1>16 DEF LookupCall
<1>17. ASSUME NEW k \in Lookups, LookupStep(k) PROVE TypeOK'
  <2>1. CASE LookupGet(k)
    <3>1. /\ lookup[k].want \in Accounts
          /\ sessions[lookup[k].want] \in Sessions \cup {None}
      BY <1>0, <2>1 DEF LookupGet, LookupOpenIsCurrent
    <3> QED
      BY <1>0, <2>1, <3>1 DEF LookupGet
  <2>2. CASE LookupFound(k) \/ LookupNotConnected(k)
    BY <1>0, <2>2 DEF LookupFound, LookupNotConnected, NoLookup
  <2> QED
    BY <1>17, <2>1, <2>2 DEF LookupStep
<1>18. ASSUME UNCHANGED vars PROVE TypeOK'
  BY <1>0, <1>18 DEF vars
<1> QED
  BY <1>1, <1>2, <1>3, <1>4, <1>5, <1>6, <1>7, <1>8, <1>9, <1>10, <1>11, <1>12, <1>13, <1>14,
     <1>15, <1>16, <1>17, <1>18 DEF Next, IdentStep, CloseStep, StopStep

(* Every step keeps the inductive invariant. *)
LEMMA NextIInv == ASSUME IInv, [Next]_vars PROVE IInv'
<1> USE ConstantsAssumption, ProcFacts DEF TypeOK
<1>0. TypeOK'
  BY NextTypeOK
<1>1. ASSUME NEW s \in Sessions, Connect(s) PROVE IInv'
  <2>1. NewIsIdle'
    BY <1>0, <1>1 DEF IInv, NewIsIdle, Connect
  <2>2. RegisteredIsDone'
    BY <1>0, <1>1 DEF IInv, RegisteredIsDone, NewIsIdle, Connect
  <2>3. SelfIsReply'
    BY <1>0, <1>1 DEF IInv, SelfIsReply, Connect
  <2>4. HoldsLock'
    BY <1>0, <1>1 DEF IInv, HoldsLock, Connect
  <2>5. OldIsClosed'
    BY <1>0, <1>1 DEF IInv, OldIsClosed, Connect
  <2>6. ClosingClosed' /\ SingleCloser' /\ LookupOpenIsCurrent'
    BY <1>1 DEF IInv, ClosingClosed, SingleCloser, LookupOpenIsCurrent, Connect
  <2> QED
    BY <1>0, <2>1, <2>2, <2>3, <2>4, <2>5, <2>6 DEF IInv
<1>2. ASSUME NEW s \in Sessions, ConnLost(s) PROVE IInv'
  <2>1. NewIsIdle'
    BY <1>0, <1>2 DEF IInv, NewIsIdle, ConnLost
  <2>2. RegisteredIsDone' /\ SelfIsReply' /\ HoldsLock' /\ OldIsClosed' /\
     ClosingClosed' /\ SingleCloser' /\ LookupOpenIsCurrent'
    BY <1>2 DEF IInv, RegisteredIsDone, SelfIsReply, HoldsLock, OldIsClosed,
       ClosingClosed, SingleCloser, LookupOpenIsCurrent, ConnLost
  <2> QED
    BY <1>0, <2>1, <2>2 DEF IInv
<1>3. ASSUME NEW s \in Sessions, ReadReply(s) PROVE IInv'
  <2>1. SelfIsReply'
    BY <1>0, <1>3 DEF IInv, SelfIsReply, ReadReply
  <2>2. OldIsClosed'
    BY <1>0, <1>3 DEF IInv, OldIsClosed, ReadReply
  <2>3. NewIsIdle' /\ RegisteredIsDone' /\ HoldsLock' /\ ClosingClosed' /\ SingleCloser'
     /\ LookupOpenIsCurrent'
    BY <1>3 DEF IInv, NewIsIdle, RegisteredIsDone, HoldsLock, ClosingClosed,
       SingleCloser, LookupOpenIsCurrent, ReadReply
  <2> QED
    BY <1>0, <2>1, <2>2, <2>3 DEF IInv
<1>4. ASSUME NEW s \in Sessions, ReadFail(s) PROVE IInv'
  <2>1. NewIsIdle'
    BY <1>0, <1>4 DEF IInv, NewIsIdle, ReadFail, CallClose
  <2>2. RegisteredIsDone'
    BY <1>0, <1>4 DEF IInv, RegisteredIsDone, ReadFail, CallClose
  <2>3. SelfIsReply'
    BY <1>0, <1>4 DEF IInv, SelfIsReply, ReadFail, CallClose
  <2>4. HoldsLock'
    BY <1>0, <1>4 DEF IInv, HoldsLock, ReadFail, CallClose
  <2>5. OldIsClosed'
    BY <1>0, <1>4 DEF IInv, OldIsClosed, ReadFail, CallClose
  <2>6. ClosingClosed'
    BY <1>0, <1>4 DEF IInv, ClosingClosed, ReadFail, CallClose
  <2>7. SingleCloser'
    BY <1>0, <1>4 DEF IInv, SingleCloser, ReadFail, CallClose
  <2>8. LookupOpenIsCurrent'
    BY <1>4 DEF IInv, LookupOpenIsCurrent, ReadFail, CallClose
  <2> QED
    BY <1>0, <2>1, <2>2, <2>3, <2>4, <2>5, <2>6, <2>7, <2>8 DEF IInv
<1>5. ASSUME NEW s \in Sessions, IdentFail(s) PROVE IInv'
  <2>1. NewIsIdle'
    BY <1>0, <1>5 DEF IInv, NewIsIdle, IdentFail, CallClose
  <2>2. RegisteredIsDone'
    BY <1>0, <1>5 DEF IInv, RegisteredIsDone, IdentFail, CallClose
  <2>3. SelfIsReply'
    BY <1>0, <1>5 DEF IInv, SelfIsReply, IdentFail, CallClose
  <2>4. HoldsLock'
    BY <1>0, <1>5 DEF IInv, HoldsLock, IdentFail, CallClose
  <2>5. OldIsClosed'
    BY <1>0, <1>5 DEF IInv, OldIsClosed, IdentFail, CallClose
  <2>6. ClosingClosed'
    BY <1>0, <1>5 DEF IInv, ClosingClosed, IdentFail, CallClose
  <2>7. SingleCloser'
    BY <1>0, <1>5 DEF IInv, SingleCloser, IdentFail, CallClose
  <2>8. LookupOpenIsCurrent'
    BY <1>5 DEF IInv, LookupOpenIsCurrent, IdentFail, CallClose
  <2> QED
    BY <1>0, <2>1, <2>2, <2>3, <2>4, <2>5, <2>6, <2>7, <2>8 DEF IInv
<1>6. ASSUME NEW s \in Sessions, IdentSetSelf(s) PROVE IInv'
  <2>1. NewIsIdle'
    BY <1>0, <1>6 DEF IInv, NewIsIdle, IdentSetSelf
  <2>2. RegisteredIsDone'
    BY <1>0, <1>6 DEF IInv, RegisteredIsDone, IdentSetSelf
  <2>3. SelfIsReply'
    BY <1>0, <1>6 DEF IInv, SelfIsReply, IdentSetSelf
  <2>4. HoldsLock'
    BY <1>0, <1>6 DEF IInv, HoldsLock, IdentSetSelf
  <2>5. OldIsClosed'
    BY <1>0, <1>6 DEF IInv, OldIsClosed, IdentSetSelf
  <2>6. ClosingClosed' /\ SingleCloser' /\ LookupOpenIsCurrent'
    BY <1>6 DEF IInv, ClosingClosed, SingleCloser, LookupOpenIsCurrent, IdentSetSelf
  <2> QED
    BY <1>0, <2>1, <2>2, <2>3, <2>4, <2>5, <2>6 DEF IInv
<1>7. ASSUME NEW s \in Sessions, IdentLock(s) PROVE IInv'
  <2>1. NewIsIdle'
    BY <1>0, <1>7 DEF IInv, NewIsIdle, IdentLock, CallClose
  <2>2. RegisteredIsDone'
    BY <1>0, <1>7 DEF IInv, RegisteredIsDone, IdentLock, CallClose
  <2>3. SelfIsReply'
    BY <1>0, <1>7 DEF IInv, SelfIsReply, IdentLock, CallClose
  <2>4. HoldsLock'
    BY <1>0, <1>7 DEF IInv, HoldsLock, IdentLock, CallClose
  <2>5. OldIsClosed'
    <3>1. /\ pc' = [pc EXCEPT ![Ident(s)] = "install"]
          /\ UNCHANGED <<sessions, closed, reply>>
          /\ mu = None
      BY <1>7 DEF IdentLock, CallClose
    <3>2. \/ sessions[reply[s]] = None
          \/ at'[Ident(s)] = "swap" /\ victim'[Ident(s)] = sessions[reply[s]]
          \/ sessions[reply[s]] = s
      BY <1>7 DEF IInv, IdentLock, CallClose
    <3>3. sessions[reply[s]] # s
      BY <1>7 DEF IInv, IdentLock, RegisteredIsDone, SelfIsReply
    <3>4. \A t \in Sessions : pc[Ident(t)] # "install"
      BY <3>1 DEF IInv, HoldsLock
    <3> QED
      BY <3>1, <3>2, <3>3, <3>4 DEF IInv, OldIsClosed
  <2>6. ClosingClosed'
    BY <1>0, <1>7 DEF IInv, ClosingClosed, IdentLock, CallClose
  <2>7. SingleCloser'
    BY <1>0, <1>7 DEF IInv, SingleCloser, IdentLock, CallClose
  <2>8. LookupOpenIsCurrent'
    BY <1>7 DEF IInv, LookupOpenIsCurrent, IdentLock, CallClose
  <2> QED
    BY <1>0, <2>1, <2>2, <2>3, <2>4, <2>5, <2>6, <2>7, <2>8 DEF IInv
<1>8. ASSUME NEW s \in Sessions, IdentInstall(s) PROVE IInv'
  <2>1. NewIsIdle'
    BY <1>0, <1>8 DEF IInv, NewIsIdle, IdentInstall
  <2>2. RegisteredIsDone'
    BY <1>0, <1>8 DEF IInv, RegisteredIsDone, SelfIsReply, HoldsLock, IdentInstall
  <2>3. SelfIsReply'
    BY <1>0, <1>8 DEF IInv, SelfIsReply, IdentInstall
  <2>4. HoldsLock'
    BY <1>0, <1>8 DEF IInv, HoldsLock, IdentInstall
  <2>5. OldIsClosed'
    BY <1>0, <1>8 DEF IInv, OldIsClosed, HoldsLock, IdentInstall
  <2>6. LookupOpenIsCurrent'
    BY <1>0, <1>8 DEF IInv, LookupOpenIsCurrent, OldIsClosed, IdentInstall
  <2>7. ClosingClosed' /\ SingleCloser'
    BY <1>8 DEF IInv, ClosingClosed, SingleCloser, IdentInstall
  <2> QED
    BY <1>0, <2>1, <2>2, <2>3, <2>4, <2>5, <2>6, <2>7 DEF IInv
<1>9. ASSUME NEW p \in Procs, CloseSwap(p) PROVE IInv'
  <2>1. NewIsIdle'
    BY <1>0, <1>9 DEF IInv, NewIsIdle, CloseSwap, ReturnFromClose
  <2>2. OldIsClosed'
    <3>1. UNCHANGED <<pc, sessions, reply>>
      BY <1>9 DEF CloseSwap
    <3>2. \A x \in Sessions : closed[x] => closed'[x]
      BY <1>9 DEF IInv, CloseSwap
    <3>3. victim[p] \in Sessions /\ closed'[victim[p]]
      BY <1>9 DEF IInv, ClosingClosed, CloseSwap
    <3>4. \A q \in Procs : q # p => at'[q] = at[q] /\ victim'[q] = victim[q]
      BY <1>9 DEF IInv, CloseSwap, ReturnFromClose
    <3> QED
      BY <3>1, <3>2, <3>3, <3>4 DEF IInv, OldIsClosed, SelfIsReply
  <2>3. ClosingClosed'
    BY <1>0, <1>9 DEF IInv, ClosingClosed, CloseSwap, ReturnFromClose
  <2>4. SingleCloser'
    BY <1>0, <1>9 DEF IInv, SingleCloser, ClosingClosed, CloseSwap, ReturnFromClose
  <2>5. LookupOpenIsCurrent'
    BY <1>0, <1>9 DEF IInv, LookupOpenIsCurrent, CloseSwap, ReturnFromClose
  <2>6. RegisteredIsDone' /\ SelfIsReply' /\ HoldsLock'
    BY <1>9 DEF IInv, RegisteredIsDone, SelfIsReply, HoldsLock, CloseSwap,
       ReturnFromClose
  <2> QED
    BY <1>0, <2>1, <2>2, <2>3, <2>4, <2>5, <2>6 DEF IInv
<1>10. ASSUME NEW p \in Procs, CloseSelfID(p) PROVE IInv'
  <2>1. OldIsClosed'
    BY <1>0, <1>10 DEF IInv, OldIsClosed, CloseSelfID, ReturnFromClose
  <2>2. ClosingClosed'
    BY <1>0, <1>10 DEF IInv, ClosingClosed, CloseSelfID, ReturnFromClose
  <2>3. SingleCloser'
    BY <1>0, <1>10 DEF IInv, SingleCloser, CloseSelfID, ReturnFromClose
  <2>4. NewIsIdle' /\ RegisteredIsDone' /\ SelfIsReply' /\ HoldsLock' /\
     LookupOpenIsCurrent'
    BY <1>10 DEF IInv, NewIsIdle, RegisteredIsDone, SelfIsReply, HoldsLock,
       LookupOpenIsCurrent, CloseSelfID, ReturnFromClose
  <2> QED
    BY <1>0, <2>1, <2>2, <2>3, <2>4 DEF IInv
<1>11. ASSUME NEW p \in Procs, CloseRemove(p) PROVE IInv'
  <2>1. RegisteredIsDone'
    BY <1>0, <1>11 DEF IInv, RegisteredIsDone, CloseRemove, ReturnFromClose
  <2>2. OldIsClosed'
    BY <1>0, <1>11 DEF IInv, OldIsClosed, HoldsLock, CloseRemove, ReturnFromClose
  <2>3. ClosingClosed'
    BY <1>0, <1>11 DEF IInv, ClosingClosed, CloseRemove, ReturnFromClose
  <2>4. SingleCloser'
    BY <1>0, <1>11 DEF IInv, SingleCloser, CloseRemove, ReturnFromClose
  <2>5. LookupOpenIsCurrent'
    BY <1>0, <1>11 DEF IInv, LookupOpenIsCurrent, ClosingClosed, CloseRemove,
       ReturnFromClose
  <2>6. NewIsIdle' /\ SelfIsReply' /\ HoldsLock'
    BY <1>11 DEF IInv, NewIsIdle, SelfIsReply, HoldsLock, CloseRemove, ReturnFromClose
  <2> QED
    BY <1>0, <2>1, <2>2, <2>3, <2>4, <2>5, <2>6 DEF IInv
<1>12. ASSUME StopCall PROVE IInv'
  <2>1. NewIsIdle'
    BY <1>0, <1>12 DEF IInv, NewIsIdle, StopCall
  <2>2. RegisteredIsDone'
    BY <1>0, <1>12 DEF IInv, RegisteredIsDone, StopCall
  <2>3. SelfIsReply'
    BY <1>0, <1>12 DEF IInv, SelfIsReply, StopCall
  <2>4. HoldsLock'
    BY <1>0, <1>12 DEF IInv, HoldsLock, StopCall
  <2>5. OldIsClosed'
    BY <1>0, <1>12 DEF IInv, OldIsClosed, StopCall
  <2>6. ClosingClosed' /\ SingleCloser' /\ LookupOpenIsCurrent'
    BY <1>12 DEF IInv, ClosingClosed, SingleCloser, LookupOpenIsCurrent, StopCall
  <2> QED
    BY <1>0, <2>1, <2>2, <2>3, <2>4, <2>5, <2>6 DEF IInv
<1>13. ASSUME StopLock PROVE IInv'
  <2>1. NewIsIdle'
    BY <1>0, <1>13 DEF IInv, NewIsIdle, StopLock
  <2>2. RegisteredIsDone'
    BY <1>0, <1>13 DEF IInv, RegisteredIsDone, StopLock
  <2>3. SelfIsReply'
    BY <1>0, <1>13 DEF IInv, SelfIsReply, StopLock
  <2>4. HoldsLock'
    BY <1>0, <1>13 DEF IInv, HoldsLock, StopLock
  <2>5. OldIsClosed'
    BY <1>0, <1>13 DEF IInv, OldIsClosed, StopLock
  <2>6. ClosingClosed' /\ SingleCloser' /\ LookupOpenIsCurrent'
    BY <1>13 DEF IInv, ClosingClosed, SingleCloser, LookupOpenIsCurrent, StopLock
  <2> QED
    BY <1>0, <2>1, <2>2, <2>3, <2>4, <2>5, <2>6 DEF IInv
<1>14. ASSUME NEW a \in Accounts, StopSweep(a) PROVE IInv'
  <2>1. NewIsIdle'
    BY <1>0, <1>14 DEF IInv, NewIsIdle, StopSweep, CallClose
  <2>2. RegisteredIsDone'
    BY <1>0, <1>14 DEF IInv, RegisteredIsDone, StopSweep, CallClose
  <2>3. SelfIsReply'
    BY <1>0, <1>14 DEF IInv, SelfIsReply, StopSweep, CallClose
  <2>4. HoldsLock'
    BY <1>0, <1>14 DEF IInv, HoldsLock, StopSweep, CallClose
  <2>5. OldIsClosed'
    BY <1>0, <1>14 DEF IInv, OldIsClosed, StopSweep, CallClose
  <2>6. ClosingClosed'
    BY <1>0, <1>14 DEF IInv, ClosingClosed, StopSweep, CallClose
  <2>7. SingleCloser'
    BY <1>0, <1>14 DEF IInv, SingleCloser, StopSweep, CallClose
  <2>8. LookupOpenIsCurrent'
    BY <1>14 DEF IInv, LookupOpenIsCurrent, StopSweep, CallClose
  <2> QED
    BY <1>0, <2>1, <2>2, <2>3, <2>4, <2>5, <2>6, <2>7, <2>8 DEF IInv
<1>15. ASSUME StopClear PROVE IInv'
  <2>1. NewIsIdle'
    BY <1>0, <1>15 DEF IInv, NewIsIdle, StopClear
  <2>2. RegisteredIsDone'
    BY <1>0, <1>15 DEF IInv, RegisteredIsDone, StopClear
  <2>3. SelfIsReply'
    BY <1>0, <1>15 DEF IInv, SelfIsReply, StopClear
  <2>4. HoldsLock'
    BY <1>0, <1>15 DEF IInv, HoldsLock, StopClear
  <2>5. OldIsClosed'
    BY <1>0, <1>15 DEF IInv, OldIsClosed, HoldsLock, StopClear
  <2>6. LookupOpenIsCurrent'
    BY <1>0, <1>15 DEF IInv, LookupOpenIsCurrent, StopClear
  <2>7. ClosingClosed' /\ SingleCloser'
    BY <1>15 DEF IInv, ClosingClosed, SingleCloser, StopClear
  <2> QED
    BY <1>0, <2>1, <2>2, <2>3, <2>4, <2>5, <2>6, <2>7 DEF IInv
<1>16. ASSUME NEW k \in Lookups, NEW a \in Accounts, LookupCall(k, a) PROVE IInv'
  <2>1. LookupOpenIsCurrent'
    BY <1>0, <1>16 DEF IInv, LookupOpenIsCurrent, LookupCall, NoLookup
  <2>2. NewIsIdle' /\ RegisteredIsDone' /\ SelfIsReply' /\ HoldsLock' /\ OldIsClosed' /\
     ClosingClosed' /\ SingleCloser'
    BY <1>16 DEF IInv, NewIsIdle, RegisteredIsDone, SelfIsReply, HoldsLock, OldIsClosed,
       ClosingClosed, SingleCloser, LookupCall, NoLookup
  <2> QED
    BY <1>0, <2>1, <2>2 DEF IInv
<1>17. ASSUME NEW k \in Lookups, LookupStep(k) PROVE IInv'
  <2>1. LookupOpenIsCurrent'
    <3>1. CASE LookupGet(k)
      BY <1>0, <3>1 DEF IInv, LookupOpenIsCurrent, LookupGet
    <3>2. CASE LookupFound(k) \/ LookupNotConnected(k)
      BY <1>0, <3>2 DEF IInv, LookupOpenIsCurrent, LookupFound, LookupNotConnected, NoLookup
    <3> QED
      BY <1>17, <3>1, <3>2 DEF LookupStep
  <2>2. NewIsIdle' /\ RegisteredIsDone' /\ SelfIsReply' /\ HoldsLock' /\ OldIsClosed' /\
     ClosingClosed' /\ SingleCloser'
    BY <1>17 DEF IInv, NewIsIdle, RegisteredIsDone, SelfIsReply, HoldsLock, OldIsClosed,
       ClosingClosed, SingleCloser, LookupStep, LookupGet, LookupFound,
       LookupNotConnected, NoLookup
  <2> QED
    BY <1>0, <2>1, <2>2 DEF IInv
<1>18. ASSUME UNCHANGED vars PROVE IInv'
  <2>1. NewIsIdle' /\ RegisteredIsDone' /\ SelfIsReply' /\ HoldsLock' /\ OldIsClosed' /\
     ClosingClosed' /\ SingleCloser' /\ LookupOpenIsCurrent'
    BY <1>18 DEF IInv, NewIsIdle, RegisteredIsDone, SelfIsReply, HoldsLock, OldIsClosed,
       ClosingClosed, SingleCloser, LookupOpenIsCurrent, vars
  <2> QED
    BY <1>0, <2>1 DEF IInv
<1> QED
  BY <1>1, <1>2, <1>3, <1>4, <1>5, <1>6, <1>7, <1>8, <1>9, <1>10, <1>11, <1>12, <1>13,
     <1>14, <1>15, <1>16, <1>17, <1>18 DEF Next, IdentStep, CloseStep, StopStep

-----------------------------------------------------------------------------
(* The theorems. *)

(* The inductive invariant holds in every reachable state. *)
THEOREM Invariance == Spec => []IInv
<1>1. Init => IInv
  BY InitIInv
<1>2. IInv /\ [Next]_vars => IInv'
  BY NextIInv
<1> QED
  BY <1>1, <1>2, PTL DEF Spec

(* Every variable of the registry keeps its type. *)
THEOREM TypeCorrect == Spec => []TypeOK
<1>1. IInv => TypeOK
  BY DEF IInv
<1> QED
  BY <1>1, Invariance, PTL

(* The session found under an account has identified itself as it. *)
THEOREM RegistryIsCorrect == Spec => []RegisteredUnderOwnAccount
<1>1. IInv => RegisteredUnderOwnAccount
  BY DEF IInv, RegisteredIsDone, RegisteredUnderOwnAccount
<1> QED
  BY <1>1, Invariance, PTL

(* One goroutine at a time takes a session apart. *)
THEOREM CloseRunsOnce == Spec => []SingleCloser
<1>1. IInv => SingleCloser
  BY DEF IInv
<1> QED
  BY <1>1, Invariance, PTL

(* An entry of the map changes only when its session is closed: the steps  *)
(* that write the map are the registration, removeSession and the end of   *)
(* Stop.                                                                   *)
LEMMA OpenStays ==
  ASSUME IInv, [Next]_vars, NEW a \in Accounts,
         sessions[a] # None, sessions'[a] # sessions[a]
  PROVE  closed[sessions[a]]
<1> USE ConstantsAssumption, ProcFacts DEF TypeOK
<1>1. ASSUME NEW s \in Sessions, IdentInstall(s) PROVE closed[sessions[a]]
  BY <1>1 DEF IInv, IdentInstall, OldIsClosed
<1>2. ASSUME NEW p \in Procs, CloseRemove(p) PROVE closed[sessions[a]]
  BY <1>2 DEF IInv, CloseRemove, ClosingClosed
<1>3. ASSUME StopClear PROVE closed[sessions[a]]
  BY <1>3 DEF StopClear
<1> QED
  BY <1>1, <1>2, <1>3
  DEF Next, vars, IdentStep, CloseStep, StopStep, LookupStep, Connect, ConnLost, ReadReply,
      ReadFail, IdentFail, IdentSetSelf, IdentLock, CloseSwap, CloseSelfID, StopCall,
      StopLock, StopSweep, LookupCall, LookupGet, LookupFound, LookupNotConnected

(* No step makes the server forget a session that is open. *)
THEOREM OpenStaysRegistered == Spec => OpenSessionStaysRegistered
<1>1. IInv /\ [Next]_vars =>
        [\A a \in Accounts :
           sessions[a] # None /\ sessions'[a] # sessions[a] => closed[sessions[a]]]_vars
  BY OpenStays
<1> QED
  BY <1>1, Invariance, PTL DEF Spec, OpenSessionStaysRegistered

(* session() returns the session that is registered when it returns. *)
THEOREM LookupsAreCurrent == Spec => LookupIsCurrent
<1>1. IInv /\ [Next]_vars =>
        [\A k \in Lookups :
           LookupFound(k) => sessions[lookup[k].want] = lookup[k].got]_vars
  BY DEF IInv, LookupOpenIsCurrent, LookupFound
<1> QED
  BY <1>1, Invariance, PTL DEF Spec, LookupIsCurrent

-----------------------------------------------------------------------------
(* The refinement. *)

(* A registration takes the place of a closed session or of none: it       *)
(* attaches the session to the account, if it is still open.               *)
LEMMA InstallAttaches ==
  ASSUME IInv, IInv', NEW s \in Sessions, IdentInstall(s)
  PROVE  [Abs!Next]_(Abs!vars)
<1> USE ConstantsAssumption, ProcFacts DEF TypeOK
<1> DEFINE a == reply[s]
<1>1. a \in Accounts /\ sessions' = [sessions EXCEPT ![a] = s] /\ UNCHANGED closed
  BY DEF IInv, SelfIsReply, IdentInstall
<1>2. sessions[a] = None \/ closed[sessions[a]]
  BY DEF IInv, IdentInstall, OldIsClosed
<1>3. \A b \in Accounts : sessions[b] # s
  BY DEF IInv, IdentInstall, RegisteredIsDone
<1>4. CurrentSession[a] = None /\ UNCHANGED Ended
  BY <1>1, <1>2 DEF CurrentSession, Ended
<1>5. CASE closed[s]
  BY <1>1, <1>2, <1>4, <1>5 DEF IInv, Abs!vars, CurrentSession
<1>6. CASE ~closed[s]
  <2>1. s \notin Ended /\ \A b \in Accounts : CurrentSession[b] # s
    BY <1>3, <1>6 DEF CurrentSession, Ended
  <2>2. CurrentSession' = [CurrentSession EXCEPT ![a] = s]
    BY <1>1, <1>6 DEF IInv, CurrentSession
  <2>3. Abs!Attach(a, s)
    BY <1>4, <2>1, <2>2 DEF Abs!Attach
  <2> QED
    BY <1>1, <2>3 DEF Abs!Next
<1> QED
  BY <1>5, <1>6

(* The swap of the closed flag is the end of the session. *)
LEMMA SwapEnds ==
  ASSUME IInv, NEW p \in Procs, CloseSwap(p)
  PROVE  [Abs!Next]_(Abs!vars)
<1> USE ConstantsAssumption, ProcFacts DEF TypeOK
<1> DEFINE v == victim[p]
<1>1. v \in Sessions /\ UNCHANGED sessions
  BY DEF IInv, ClosingClosed, CloseSwap
<1>2. CASE closed[v]
  BY <1>1, <1>2 DEF CloseSwap, Abs!vars, CurrentSession, Ended
<1>3. CASE ~closed[v]
  <2>1. closed' = [closed EXCEPT ![v] = TRUE]
    BY <1>3 DEF CloseSwap
  <2>2. \A x \in Sessions : closed'[x] = IF x = v THEN TRUE ELSE closed[x]
    BY <1>1, <2>1 DEF IInv
  <2>3. v \notin Ended /\ Ended' = Ended \cup {v}
    BY <1>1, <1>3, <2>2 DEF Ended
  <2>4. CurrentSession' =
          [b \in Accounts |-> IF CurrentSession[b] = v THEN None ELSE CurrentSession[b]]
    <3>1. \A b \in Accounts : sessions[b] # None => sessions[b] \in Sessions
      BY DEF IInv
    <3> HIDE DEF TypeOK
    <3> QED
      BY <1>1, <1>3, <2>2, <3>1 DEF CurrentSession
  <2>5. Abs!End(v)
    BY <2>3, <2>4 DEF Abs!End
  <2> QED
    BY <1>1, <2>5 DEF Abs!Next
<1> QED
  BY <1>2, <1>3

(* What removeSession and Stop take out of the map was closed before. *)
LEMMA RemovalStutters ==
  ASSUME IInv, (\E p \in Procs : CloseRemove(p)) \/ StopClear
  PROVE  UNCHANGED Abs!vars
<1> USE ConstantsAssumption, ProcFacts DEF TypeOK
<1>1. UNCHANGED closed
  BY DEF CloseRemove, StopClear
<1>2. \A a \in Accounts :
        \/ sessions'[a] = sessions[a]
        \/ /\ sessions'[a] = None
           /\ sessions[a] # None => closed[sessions[a]]
  BY DEF IInv, CloseRemove, StopClear, ClosingClosed
<1> QED
  BY <1>1, <1>2 DEF IInv, Abs!vars, CurrentSession, Ended

(* The registry implements the abstract account-to-session assignment: an  *)
(* account has one current session, kept until it is closed, and a closed  *)
(* session never becomes current again.                                    *)
THEOREM Refinement == Spec => ImplementsAccountSessions
<1>1. Init => Abs!Init
  BY DEF Init, Abs!Init, CurrentSession, Ended
<1>2. IInv /\ IInv' /\ [Next]_vars => [Abs!Next]_(Abs!vars)
  <2> SUFFICES ASSUME IInv, IInv', [Next]_vars PROVE [Abs!Next]_(Abs!vars)
    OBVIOUS
  <2>1. ASSUME UNCHANGED <<sessions, closed>> PROVE UNCHANGED Abs!vars
    BY <2>1 DEF Abs!vars, CurrentSession, Ended
  <2> QED
    BY <2>1, InstallAttaches, SwapEnds, RemovalStutters
    DEF Next, vars, IdentStep, CloseStep, StopStep, LookupStep, Connect, ConnLost, ReadReply,
        ReadFail, IdentFail, IdentSetSelf, IdentLock, CloseSelfID, StopCall, StopLock,
        StopSweep, LookupCall, LookupGet, LookupFound, LookupNotConnected
<1> QED
  BY <1>1, <1>2, Invariance, PTL DEF Spec, ImplementsAccountSessions, Abs!Spec

-----------------------------------------------------------------------------
(* The lock. *)

(* Who holds sessionsMu over several steps is an identifySession or Stop,  *)
(* inside its critical section.                                            *)
HolderIsInside ==
  /\ mu \in {None, Stopper} \cup {Ident(s) : s \in Sessions}
  /\ \A s \in Sessions : mu = Ident(s) => pc[Ident(s)] = "install"
  /\ mu = Stopper => pc[Stopper] = "sweep"

(* The goroutine that holds sessionsMu can take its next step, whatever    *)
(* the others do, unless it waits for the very lock it holds: no circle of *)
(* goroutines waits for each other.  The cases are the guards of           *)
(* CloseSwap and CloseSelfID, IdentInstall, and StopSweep or StopClear.    *)
HolderGoesOn ==
  mu # None /\ ~LockedOut =>
    \/ at[mu] \in {"swap", "selfID"}
    \/ at[mu] = "no" /\ \E s \in Sessions : mu = Ident(s) /\ pc[mu] = "install"
    \/ at[mu] = "no" /\ mu = Stopper /\ pc[mu] = "sweep"

(* Each account connects once, and the bridge is not stopped. *)
NoReconnect ==
  /\ ~MayStop
  /\ \A s, t \in Sessions : s # t => Reports[s] \cap Reports[t] \cap Accounts = {}

(* Then identities are what was reported, Stop does not run, and no        *)
(* identifySession finds an old session to close under the lock.           *)
NothingToClose ==
  /\ \A s \in Sessions : reply[s] # None => reply[s] \in Reports[s]
  /\ \A s \in Sessions : self[s] # NoId => self[s] \in Reports[s]
  /\ pc[Stopper] = "idle"
  /\ \A s \in Sessions : pc[Ident(s)] # "done" => at[Ident(s)] = "no"

(* Only the takers of the lock hold it. *)
LEMMA HolderKept == ASSUME IInv, HolderIsInside, [Next]_vars PROVE HolderIsInside'
<1> USE ConstantsAssumption, ProcFacts DEF TypeOK, HolderIsInside
<1>1. ASSUME NEW s \in Sessions, Connect(s) \/ ConnLost(s) \/ ReadReply(s) \/ ReadFail(s)
      PROVE  HolderIsInside'
  BY <1>1 DEF IInv, NewIsIdle, Connect, ConnLost, ReadReply, ReadFail, CallClose
<1>2. ASSUME NEW s \in Sessions, IdentFail(s) \/ IdentSetSelf(s) \/ IdentInstall(s)
      PROVE  HolderIsInside'
  BY <1>2 DEF IInv, HoldsLock, IdentFail, IdentSetSelf, IdentInstall, CallClose
<1>3. ASSUME NEW s \in Sessions, IdentLock(s) PROVE HolderIsInside'
  <2>1. mu' = Ident(s) /\ pc' = [pc EXCEPT ![Ident(s)] = "install"]
    BY <1>3 DEF IdentLock, CallClose
  <2> QED
    BY <2>1 DEF IInv
<1>4. ASSUME NEW p \in Procs, CloseStep(p) PROVE HolderIsInside'
  BY <1>4 DEF CloseStep, CloseSwap, CloseSelfID, CloseRemove
<1>5. CASE StopCall \/ StopStep
  BY <1>5 DEF IInv, HoldsLock, StopCall, StopStep, StopLock, StopSweep, StopClear, CallClose
<1>6. ASSUME NEW k \in Lookups, LookupStep(k) \/ \E a \in Accounts : LookupCall(k, a)
      PROVE  HolderIsInside'
  BY <1>6 DEF LookupStep, LookupCall, LookupGet, LookupFound, LookupNotConnected
<1>7. CASE UNCHANGED vars
  BY <1>7 DEF vars
<1> QED
  BY <1>1, <1>2, <1>3, <1>4, <1>5, <1>6, <1>7 DEF Next, IdentStep

(* The holder of sessionsMu never waits for anybody else, so a lock that   *)
(* is held is given back, unless its holder waits for itself: the safety   *)
(* part of LookupReturnsUnlessLockedOut and IdentifiedOrClosed.            *)
THEOREM HoldersGoOn == Spec => []HolderGoesOn
<1>1. Init => HolderIsInside
  BY NoneAssumption, ProcFacts DEF Init, HolderIsInside
<1>2. IInv /\ HolderIsInside => HolderGoesOn
  BY ProcFacts DEF IInv, TypeOK, HolderIsInside, HolderGoesOn, LockedOut
<1> QED
  BY <1>1, <1>2, HolderKept, Invariance, PTL DEF Spec

(* A goroutine that waits for the lock it holds waits on, and so does a    *)
(* lookup that waits for the lock.                                         *)
LEMMA LockedOutStays ==
  ASSUME IInv, HolderIsInside, LockedOut, [Next]_vars, NEW k \in Lookups, lookup[k].at = "get"
  PROVE  LockedOut' /\ lookup'[k].at = "get"
<1> USE ConstantsAssumption, ProcFacts DEF IInv, TypeOK, HolderIsInside
<1>1. PICK p \in Procs : mu = p /\ at[p] = "remove"
  BY DEF LockedOut
<1> SUFFICES mu' = mu /\ at'[p] = "remove" /\ lookup'[k].at = "get"
  BY <1>1 DEF LockedOut
<1>2. mu # None
  BY <1>1
<1>3. ASSUME NEW s \in Sessions, Connect(s) \/ ConnLost(s) \/ ReadReply(s) \/ ReadFail(s)
      PROVE  mu' = mu /\ at'[p] = "remove" /\ lookup'[k].at = "get"
  <2>1. p # Reader(s)
    BY <1>1
  <2> QED
    BY <1>1, <1>3, <2>1 DEF Connect, ConnLost, ReadReply, ReadFail, CallClose
<1>4. ASSUME NEW s \in Sessions, IdentStep(s)
      PROVE  mu' = mu /\ at'[p] = "remove" /\ lookup'[k].at = "get"
  BY <1>1, <1>2, <1>4
  DEF HoldsLock, IdentStep, IdentFail, IdentSetSelf, IdentLock, IdentInstall, CallClose
<1>5. ASSUME NEW q \in Procs, CloseStep(q)
      PROVE  mu' = mu /\ at'[p] = "remove" /\ lookup'[k].at = "get"
  BY <1>1, <1>2, <1>5 DEF CloseStep, CloseSwap, CloseSelfID, CloseRemove, ReturnFromClose
<1>6. CASE StopCall \/ StopStep
  BY <1>1, <1>2, <1>6
  DEF HoldsLock, StopCall, StopStep, StopLock, StopSweep, StopClear, CallClose
<1>7. ASSUME NEW l \in Lookups, LookupStep(l) \/ \E a \in Accounts : LookupCall(l, a)
      PROVE  mu' = mu /\ at'[p] = "remove" /\ lookup'[k].at = "get"
  BY <1>1, <1>2, <1>7
  DEF LookupStep, LookupCall, LookupGet, LookupFound, LookupNotConnected, NoLookup
<1>8. CASE UNCHANGED vars
  BY <1>1, <1>8 DEF vars
<1> QED
  BY <1>3, <1>4, <1>5, <1>6, <1>7, <1>8 DEF Next

(* Once a goroutine waits for the lock it holds, no lookup that waits for  *)
(* the map ever returns, whatever the scheduler does: what the run         *)
(* registry_reconnect shows of two connections holds of any number, and    *)
(* under any fairness.                                                     *)
THEOREM LockOutIsFinal ==
  ASSUME NEW k \in Lookups
  PROVE  Spec => [](LockedOut /\ lookup[k].at = "get" => [](LockedOut /\ lookup[k].at = "get"))
<1>1. Init => HolderIsInside
  BY NoneAssumption, ProcFacts DEF Init, HolderIsInside
<1>2. IInv /\ HolderIsInside /\ (LockedOut /\ lookup[k].at = "get") /\ [Next]_vars
        => (LockedOut /\ lookup[k].at = "get")'
  BY LockedOutStays
<1> QED
  BY <1>1, <1>2, HolderKept, Invariance, PTL DEF Spec

(* What is reported stays what was reported, and nothing is closed with    *)
(* the lock held.                                                          *)
LEMMA NothingToCloseKept ==
  ASSUME NoReconnect, IInv, HolderIsInside, NothingToClose, [Next]_vars
  PROVE  NothingToClose'
<1> USE ConstantsAssumption, ProcFacts DEF IInv, TypeOK, HolderIsInside, NothingToClose
<1>1. ASSUME NEW s \in Sessions, Connect(s) \/ ConnLost(s) \/ ReadReply(s) \/ ReadFail(s)
      PROVE  NothingToClose'
  BY <1>1 DEF NewIsIdle, Connect, ConnLost, ReadReply, ReadFail, CallClose
<1>2. ASSUME NEW s \in Sessions, IdentFail(s) \/ IdentSetSelf(s) \/ IdentInstall(s)
      PROVE  NothingToClose'
  BY <1>2 DEF HoldsLock, IdentFail, IdentSetSelf, IdentInstall, CallClose
<1>3. ASSUME NEW s \in Sessions, IdentLock(s) PROVE NothingToClose'
  <2>1. /\ reply[s] \in Accounts /\ reply[s] \in Reports[s]
        /\ pc[Ident(s)] = "lock" /\ mu' = Ident(s) /\ UNCHANGED <<self, reply>>
    BY <1>3 DEF IdentLock, SelfIsReply
  <2>2. ASSUME NEW t \in Sessions, sessions[reply[s]] = t PROVE t = s
    <3>1. self[t] = reply[s]
      BY <2>1, <2>2 DEF RegisteredIsDone
    <3>2. reply[s] \in Reports[t]
      BY <2>1, <3>1
    <3> QED
      BY <2>1, <3>2 DEF NoReconnect
  <2>3. pc' = [pc EXCEPT ![Ident(s)] = "install"] /\ UNCHANGED at
    BY <1>3, <2>1, <2>2 DEF IdentLock
  <2> QED
    BY <2>1, <2>3
<1>4. ASSUME NEW p \in Procs, CloseStep(p) PROVE NothingToClose'
  BY <1>4 DEF CloseStep, CloseSwap, CloseSelfID, CloseRemove, ReturnFromClose
<1>5. ~StopCall /\ ~StopStep
  BY DEF NoReconnect, HoldsLock, StopCall, StopStep, StopLock, StopSweep, StopClear
<1>6. ASSUME NEW k \in Lookups, LookupStep(k) \/ \E a \in Accounts : LookupCall(k, a)
      PROVE  NothingToClose'
  BY <1>6 DEF LookupStep, LookupCall, LookupGet, LookupFound, LookupNotConnected
<1>7. CASE UNCHANGED vars
  BY <1>7 DEF vars
<1> QED
  BY <1>1, <1>2, <1>3, <1>4, <1>5, <1>6, <1>7 DEF Next, IdentStep

(* The server does not lock itself out while no two connections report the *)
(* same account and Stop is not called, so reconnects and Stop are the     *)
(* only causes.                                                            *)
THEOREM OnlyReconnectsLockOut == NoReconnect => (Spec => []~LockedOut)
<1> SUFFICES ASSUME NoReconnect PROVE Spec => []~LockedOut
  OBVIOUS
<1>1. Init => HolderIsInside /\ NothingToClose
  BY NoneAssumption, ProcFacts DEF Init, HolderIsInside, NothingToClose
<1>2. HolderIsInside /\ NothingToClose => ~LockedOut
  BY ProcFacts DEF HolderIsInside, NothingToClose, LockedOut
<1>3. IInv /\ HolderIsInside /\ NothingToClose /\ [Next]_vars => NothingToClose'
  BY NothingToCloseKept
<1> QED
  BY <1>1, <1>2, <1>3, HolderKept, Invariance, PTL DEF Spec

-----------------------------------------------------------------------------
(* The account of a session. *)

(* Until identifySession has its answer the session has no account; the    *)
(* answer is what was reported on that connection.                         *)
NotYetIdentified ==
  /\ \A s \in Sessions : pc[Ident(s)] \in {"idle", "call"} => self[s] = NoId
  /\ \A s \in Sessions : reply[s] # None => reply[s] \in Reports[s]

(* SelfID is set once, to the account that was reported: what EventRouting *)
(* assumes between readLoop's check and the routing of an event.           *)
IdentityIsSetOnce ==
  [][\A s \in Sessions :
       self'[s] # self[s] => self[s] = NoId /\ self'[s] \in Reports[s] \cap Accounts]_vars

(* Only identifySession sets the account, at the end of its call. *)
LEMMA NotYetIdentifiedKept ==
  ASSUME IInv, NotYetIdentified, [Next]_vars
  PROVE  NotYetIdentified'
<1> USE ProcFacts DEF IInv, TypeOK, NotYetIdentified
<1>1. ASSUME NEW s \in Sessions, Connect(s) \/ ConnLost(s) \/ ReadReply(s) \/ ReadFail(s)
      PROVE  NotYetIdentified'
  BY <1>1 DEF NewIsIdle, Connect, ConnLost, ReadReply, ReadFail, CallClose
<1>2. ASSUME NEW s \in Sessions, IdentStep(s) PROVE NotYetIdentified'
  BY <1>2 DEF IdentStep, IdentFail, IdentSetSelf, IdentLock, IdentInstall, CallClose
<1>3. ASSUME NEW p \in Procs, CloseStep(p) PROVE NotYetIdentified'
  BY <1>3 DEF CloseStep, CloseSwap, CloseSelfID, CloseRemove
<1>4. CASE StopCall \/ StopStep
  BY <1>4 DEF StopCall, StopStep, StopLock, StopSweep, StopClear, CallClose
<1>5. ASSUME NEW k \in Lookups, LookupStep(k) \/ \E a \in Accounts : LookupCall(k, a)
      PROVE  NotYetIdentified'
  BY <1>5 DEF LookupStep, LookupCall, LookupGet, LookupFound, LookupNotConnected
<1>6. CASE UNCHANGED vars
  BY <1>6 DEF vars
<1> QED
  BY <1>1, <1>2, <1>3, <1>4, <1>5, <1>6 DEF Next

(* A session's account is set once and for all. *)
THEOREM IdentityIsFixed == Spec => IdentityIsSetOnce
<1>1. Init => NotYetIdentified
  BY DEF Init, NotYetIdentified
<1>2. IInv /\ NotYetIdentified /\ [Next]_vars =>
        [\A s \in Sessions :
           self'[s] # self[s] => self[s] = NoId /\ self'[s] \in Reports[s] \cap Accounts]_vars
  <2> SUFFICES ASSUME IInv, NotYetIdentified, [Next]_vars, NEW s \in Sessions, self'[s] # self[s]
               PROVE  self[s] = NoId /\ self'[s] \in Reports[s] \cap Accounts
    OBVIOUS
  <2>1. ASSUME ~IdentSetSelf(s) PROVE self'[s] = self[s]
    BY <2>1 DEF IInv, TypeOK, Next, IdentStep, CloseStep, StopStep, LookupStep, Connect,
       ConnLost, ReadReply, ReadFail, IdentFail, IdentSetSelf, IdentLock, IdentInstall,
       CloseSwap, CloseSelfID, CloseRemove, StopCall, StopLock, StopSweep, StopClear,
       LookupCall, LookupGet, LookupFound, LookupNotConnected, vars
  <2>2. IdentSetSelf(s)
    BY <2>1
  <2>3. reply[s] # None
    BY <2>2, ConstantsAssumption, NoneAssumption DEF IdentSetSelf
  <2> QED
    BY <2>2, <2>3 DEF IInv, TypeOK, IdentSetSelf, NotYetIdentified
<1> QED
  BY <1>1, <1>2, NotYetIdentifiedKept, Invariance, PTL DEF Spec, IdentityIsSetOnce
=============================================================================
