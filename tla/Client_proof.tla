----------------------------- MODULE Client_proof -----------------------------
(***************************************************************************)
(* Theorems about the two modules that model the client of an account.     *)
(*                                                                         *)
(* ClientLoops, for any number of callers, loops, ghosts and groups:       *)
(* types, that a live loop has exactly one owner, what becomes of          *)
(* cancelled loops, and of a login that finds no session.                  *)
(*                                                                         *)
(* ChatSync, for any chats, lists and number of events: types, that a room *)
(* knows what chat it is of, and that messages, and nothing else, get      *)
(* rooms.                                                                  *)
(***************************************************************************)
EXTENDS ClientLoops, ChatSync, TLAPS

-----------------------------------------------------------------------------
(* ClientLoops: the inductive invariant, in named parts. *)

(* A caller past its swap in startLoops has a loop of its own, made and    *)
(* not begun; a caller past its swap in Disconnect has one to cancel.      *)
CallersHaveLoops ==
  /\ \A t \in Callers : pc[t] = "go" => mine[t] \in Loops /\ loop[mine[t]] = "made"
  /\ \A t, u \in Callers : t # u /\ pc[t] = "go" /\ pc[u] = "go" => mine[t] # mine[u]
  /\ \A t \in Callers : pc[t] = "cancel" => old[t] \in Loops
  /\ \A t \in Callers : pc[t] \notin {"go", "cancel"} => old[t] = None

(* No loop, live or not, is owned twice; only made loops are owned. *)
OwnersDiffer ==
  /\ stop # None => loop[stop] # "unused"
  /\ \A t \in Callers : old[t] # None => loop[old[t]] # "unused" /\ old[t] # stop
  /\ \A t, u \in Callers : t # u /\ old[t] # None => old[t] # old[u]

LiveAreOwned ==
  \A l \in Loops : Live(l) => stop = l \/ \E t \in Callers : old[t] = l

IInv == TypeOK /\ CallersHaveLoops /\ OwnersDiffer /\ LiveAreOwned

-----------------------------------------------------------------------------
(* What a loop does itself leaves the callers alone, and makes no loop     *)
(* live, unused or merely made.                                            *)
LEMMA LoopStepKeepsOwners ==
  ASSUME IInv, NEW l \in Loops, LoopStep(l)
  PROVE  /\ UNCHANGED <<up, callers, cancelled>>
         /\ \A k \in Loops : Live(k)' => Live(k)
         /\ \A k \in Loops : loop[k] = "made" => loop'[k] = "made"
         /\ \A k \in Loops : loop'[k] = "unused" => loop[k] = "unused"
<1> USE DEF IInv, TypeOK, callers, items, calls, Live
<1>1. CASE LoopBegin(l)
  BY <1>1 DEF LoopBegin
<1>2. CASE LoopStop(l)
  BY <1>2 DEF LoopStop
<1>3. CASE LoopTick(l)
  BY <1>3 DEF LoopTick
<1>4. CASE ResyncOffline(l)
  BY <1>4 DEF ResyncOffline
<1>5. CASE ResyncStart(l)
  BY <1>5 DEF ResyncStart
<1>6. CASE \E g \in Ghosts : FetchCall(l, g) \/ FetchDone(l, g) \/ FetchFail(l, g)
  BY <1>6 DEF FetchCall, FetchDone, FetchFail
<1>7. CASE FetchOffline(l)
  BY <1>7 DEF FetchOffline
<1>8. CASE FetchEnd(l)
  BY <1>8 DEF FetchEnd
<1> QED
  BY <1>1, <1>2, <1>3, <1>4, <1>5, <1>6, <1>7, <1>8 DEF LoopStep

(* Types survive the steps of a loop. *)
LEMMA LoopStepKeepsTypes ==
  ASSUME IInv, NEW l \in Loops, LoopStep(l)
  PROVE  TypeOK'
<1> USE DEF IInv, TypeOK, callers, items, calls, Items
<1>1. CASE LoopBegin(l)
  BY <1>1 DEF LoopBegin
<1>2. CASE LoopStop(l)
  BY <1>2 DEF LoopStop
<1>3. CASE LoopTick(l)
  BY <1>3 DEF LoopTick
<1>4. CASE ResyncOffline(l)
  BY <1>4 DEF ResyncOffline
<1>5. CASE ResyncStart(l)
  BY <1>5 DEF ResyncStart
<1>6. ASSUME NEW g \in Ghosts, FetchCall(l, g) \/ FetchDone(l, g) \/ FetchFail(l, g)
      PROVE  TypeOK'
  BY <1>6 DEF FetchCall, FetchDone, FetchFail
<1>7. CASE FetchOffline(l)
  BY <1>7 DEF FetchOffline
<1>8. CASE FetchEnd(l)
  BY <1>8 DEF FetchEnd
<1> QED
  BY <1>1, <1>2, <1>3, <1>4, <1>5, <1>6, <1>7, <1>8 DEF LoopStep

(* What the callers do preserves the invariant. *)
LEMMA CallerStepKeepsInv ==
  ASSUME IInv, NEW t \in Callers, CallerStep(t)
  PROVE  IInv'
<1> USE LoopsAssumption DEF IInv, TypeOK, callers, items, calls, Items, Goto
<1> USE DEF CallersHaveLoops, OwnersDiffer, LiveAreOwned, Live
<1>1. CASE Boot(t)
  BY <1>1 DEF Boot
<1>2. CASE LoginAsk(t)
  BY <1>2 DEF LoginAsk
<1>3. CASE LoginFail(t)
  BY <1>3 DEF LoginFail
<1>4. CASE LoginDone(t)
  BY <1>4 DEF LoginDone
<1>5. CASE Connect(t)
  BY <1>5 DEF Connect
<1>6. ASSUME NEW l \in Loops, StartSwap(t, l)
      PROVE  IInv'
  <2>1. TypeOK'
    BY <1>6 DEF StartSwap
  <2>2. CallersHaveLoops'
    BY <1>6 DEF StartSwap
  <2>3. OwnersDiffer'
    BY <1>6 DEF StartSwap
  <2>4. LiveAreOwned'
    BY <1>6 DEF StartSwap
  <2> QED
    BY <2>1, <2>2, <2>3, <2>4
<1>7. CASE StartGo(t)
  <2>1. TypeOK'
    BY <1>7 DEF StartGo
  <2>2. CallersHaveLoops'
    BY <1>7 DEF StartGo
  <2>3. OwnersDiffer'
    BY <1>7 DEF StartGo
  <2>4. LiveAreOwned'
    BY <1>7 DEF StartGo
  <2> QED
    BY <2>1, <2>2, <2>3, <2>4
<1>8. CASE DisconnectSwap(t)
  BY <1>8 DEF DisconnectSwap
<1>9. CASE DisconnectCancel(t)
  BY <1>9 DEF DisconnectCancel
<1> QED
  BY <1>1, <1>2, <1>3, <1>4, <1>5, <1>6, <1>7, <1>8, <1>9 DEF CallerStep

-----------------------------------------------------------------------------
(* IInv is an invariant of ClientLoops. *)
THEOREM Invariance == Spec => []IInv
<1>1. Init => IInv
  <2> SUFFICES ASSUME Init PROVE IInv
    OBVIOUS
  <2>1. TypeOK
    BY DEF Init, TypeOK
  <2>2. CallersHaveLoops /\ OwnersDiffer
    BY DEF Init, CallersHaveLoops, OwnersDiffer
  <2>3. LiveAreOwned
    BY DEF Init, LiveAreOwned, Live
  <2> QED
    BY <2>1, <2>2, <2>3 DEF IInv
<1>2. IInv /\ [Next]_vars => IInv'
  <2> SUFFICES ASSUME IInv, [Next]_vars PROVE IInv'
    OBVIOUS
  <2>1. CASE SessionChange
    BY <2>1 DEF SessionChange, IInv, TypeOK, CallersHaveLoops, OwnersDiffer, LiveAreOwned,
                Live, callers, items, calls
  <2>2. ASSUME NEW i \in Items, Expire(i) \/ Enqueue(i)
        PROVE  IInv'
    BY <2>2 DEF Expire, Enqueue, IInv, TypeOK, CallersHaveLoops, OwnersDiffer, LiveAreOwned,
                Live, callers, calls
  <2>3. ASSUME NEW t \in Callers, CallerStep(t)
        PROVE  IInv'
    BY <2>3, CallerStepKeepsInv
  <2>4. ASSUME NEW l \in Loops, LoopStep(l)
        PROVE  IInv'
    <3>1. TypeOK'
      BY <2>4, LoopStepKeepsTypes
    <3>2. /\ UNCHANGED callers
          /\ \A k \in Loops : Live(k)' => Live(k)
          /\ \A k \in Loops : loop[k] = "made" => loop'[k] = "made"
          /\ \A k \in Loops : loop'[k] = "unused" => loop[k] = "unused"
      BY <2>4, LoopStepKeepsOwners
    <3>3. CallersHaveLoops'
      BY <3>2 DEF IInv, CallersHaveLoops, callers
    <3>4. OwnersDiffer'
      BY <3>2 DEF IInv, TypeOK, OwnersDiffer, callers
    <3>5. LiveAreOwned'
      BY <3>2 DEF IInv, LiveAreOwned, callers
    <3> QED
      BY <3>1, <3>3, <3>4, <3>5 DEF IInv
  <2>5. CASE UNCHANGED vars
    BY <2>5 DEF vars, IInv, TypeOK, CallersHaveLoops, OwnersDiffer, LiveAreOwned, Live
  <2> QED
    BY <2>1, <2>2, <2>3, <2>4, <2>5 DEF Next
<1> QED
  BY <1>1, <1>2, PTL DEF Spec

(* Every variable keeps its type; a loop holds items only while it deals   *)
(* with them.                                                              *)
THEOREM TypeCorrect == Spec => []TypeOK
<1>1. IInv => TypeOK
  BY DEF IInv
<1> QED
  BY <1>1, Invariance, PTL

(* A live loop can be cancelled by stopLoops or by one caller, and by no   *)
(* two of them, however Connect and Disconnect interleave.                 *)
THEOREM LiveLoopsAreOwned == Spec => []LiveLoopHasOneOwner
<1>1. IInv => LiveLoopHasOneOwner
  <2> SUFFICES ASSUME IInv, NEW l \in Loops, Live(l)
               PROVE  \E o \in Callers \cup {None} : Owners(l) = {o}
    BY DEF LiveLoopHasOneOwner
  <2>1. CASE stop = l
    <3>1. \A t \in Callers : old[t] # l
      BY <2>1, LoopsAssumption DEF IInv, OwnersDiffer
    <3>2. Owners(l) = {None}
      BY <2>1, <3>1 DEF Owners
    <3> QED
      BY <3>2
  <2>2. CASE stop # l
    <3>1. PICK t \in Callers : old[t] = l
      BY <2>2 DEF IInv, LiveAreOwned
    <3>2. \A u \in Callers : old[u] = l => u = t
      BY <3>1, LoopsAssumption DEF IInv, OwnersDiffer
    <3>3. Owners(l) = {t}
      BY <2>2, <3>1, <3>2 DEF Owners
    <3> QED
      BY <3>3
  <2> QED
    BY <2>1, <2>2
<1> QED
  BY <1>1, Invariance, PTL

-----------------------------------------------------------------------------
(* A ghost that was refreshed recently is known to be (LastSync is set     *)
(* with the answer), and a loop that nobody else has stamped ghosts beside *)
(* fetches none of those.                                                  *)
RefreshedAreStamped == recent \cap Ghosts \subseteq stamped

LoneLoopsFetchStale ==
  \A l \in Loops : Alone(l) /\ loop[l] = "fetch" => held[l] \cap recent = {}

Spaced == RefreshedAreStamped /\ LoneLoopsFetchStale

(* No loop becomes unused again, and callers do not touch the items.       *)
LEMMA CallerStepKeepsItems ==
  ASSUME TypeOK, NEW t \in Callers, CallerStep(t)
  PROVE  /\ UNCHANGED items
         /\ \A l \in Loops : loop'[l] = "unused" => loop[l] = "unused"
         /\ \A l \in Loops : loop'[l] = "fetch" => loop[l] = "fetch"
<1> USE DEF TypeOK, callers, items, calls
<1>1. ASSUME NEW l \in Loops, StartSwap(t, l)
      PROVE  /\ UNCHANGED items
             /\ \A k \in Loops : loop'[k] = "unused" => loop[k] = "unused"
             /\ \A k \in Loops : loop'[k] = "fetch" => loop[k] = "fetch"
  BY <1>1 DEF StartSwap
<1>2. CASE StartGo(t)
  BY <1>2 DEF StartGo
<1>3. CASE ~StartGo(t) /\ ~(\E l \in Loops : StartSwap(t, l))
  BY <1>3 DEF CallerStep, Boot, LoginAsk, LoginFail, LoginDone, Connect, DisconnectSwap,
              DisconnectCancel
<1> QED
  BY <1>1, <1>2, <1>3

(* Every step keeps ghosts apart from their last refresh. *)
LEMMA SpacedKept == TypeOK /\ Spaced /\ [Next]_vars => Spaced'
<1> SUFFICES ASSUME TypeOK, Spaced, [Next]_vars PROVE Spaced'
  OBVIOUS
<1> USE LoopsAssumption DEF TypeOK, Spaced, RefreshedAreStamped, LoneLoopsFetchStale, Alone
<1>1. CASE SessionChange
  BY <1>1 DEF SessionChange, items
<1>2. ASSUME NEW i \in Items, Expire(i) \/ Enqueue(i) PROVE Spaced'
  BY <1>2 DEF Expire, Enqueue
<1>3. ASSUME NEW t \in Callers, CallerStep(t) PROVE Spaced'
  <2>1. /\ UNCHANGED items
        /\ \A l \in Loops : loop'[l] = "unused" => loop[l] = "unused"
        /\ \A l \in Loops : loop'[l] = "fetch" => loop[l] = "fetch"
    BY <1>3, CallerStepKeepsItems
  <2> QED
    BY <2>1 DEF items
<1>4. ASSUME NEW l \in Loops, LoopStep(l) PROVE Spaced'
  <2>1. CASE LoopBegin(l) \/ LoopStop(l)
    BY <2>1 DEF LoopBegin, LoopStop, items
  <2>2. CASE LoopTick(l)
    BY <2>2 DEF LoopTick
  <2>3. CASE ResyncOffline(l) \/ FetchOffline(l) \/ FetchEnd(l)
    BY <2>3 DEF ResyncOffline, FetchOffline, FetchEnd, items
  <2>4. CASE ResyncStart(l)
    <3>1. RefreshedAreStamped'
      BY <2>4 DEF ResyncStart
    <3>2. LoneLoopsFetchStale'
      BY <2>4 DEF ResyncStart
    <3> QED
      BY <3>1, <3>2
  <2>5. ASSUME NEW g \in Ghosts, FetchDone(l, g) PROVE Spaced'
    <3>1. RefreshedAreStamped'
      BY <2>5 DEF FetchDone
    <3>2. LoneLoopsFetchStale'
      \* Another loop that fetches is not alone.
      BY <2>5 DEF FetchDone
    <3> QED
      BY <3>1, <3>2
  <2>6. ASSUME NEW g \in Ghosts, FetchCall(l, g) \/ FetchFail(l, g) PROVE Spaced'
    BY <2>6 DEF FetchCall, FetchFail, items
  <2> QED
    BY <1>4, <2>1, <2>2, <2>3, <2>4, <2>5, <2>6 DEF LoopStep
<1>5. CASE UNCHANGED vars
  BY <1>5 DEF vars
<1> QED
  BY <1>1, <1>2, <1>3, <1>4, <1>5 DEF Next

(* doGhostResync leaves out what is not stale any more: a loop without     *)
(* another before it never asks for a ghost that was refreshed within      *)
(* resyncMinInterval.                                                      *)
THEOREM RefreshesAreSpaced == Spec => GhostsSpaced
<1>1. Init => Spaced
  BY DEF Init, Spaced, RefreshedAreStamped, LoneLoopsFetchStale
<1>2. ASSUME TypeOK, Spaced, NEW l \in Loops, NEW g \in Ghosts, Alone(l), FetchDone(l, g)
      PROVE  g \notin recent
  BY <1>2 DEF TypeOK, Spaced, LoneLoopsFetchStale, FetchDone
<1>3. TypeOK /\ Spaced /\ [Next]_vars =>
        [\A l \in Loops, g \in Ghosts : Alone(l) /\ FetchDone(l, g) => g \notin recent]_vars
  BY <1>2
<1> QED
  BY <1>1, <1>3, SpacedKept, TypeCorrect, PTL DEF Spec, GhostsSpaced

-----------------------------------------------------------------------------
(* When no Connect or Disconnect is between its swap and its cancel, the   *)
(* loop in stopLoops is the only live one; after a Disconnect none is.     *)
OneLoopAtRest ==
  (\A t \in Callers : pc[t] \notin {"go", "cancel"}) =>
    \A l \in Loops : Live(l) => stop = l

(* Two loops that both go on cannot be left behind: the last swap of       *)
(* Connect or Disconnect decides, in any order of their steps.             *)
THEOREM OneLoopRemains == Spec => []OneLoopAtRest
<1>1. IInv => OneLoopAtRest
  BY LoopsAssumption DEF IInv, CallersHaveLoops, LiveAreOwned, OneLoopAtRest
<1> QED
  BY <1>1, Invariance, PTL

-----------------------------------------------------------------------------
(* What a loop does after it was cancelled. *)

(* A loop that is made is about to be started by a caller, only ghosts are *)
(* left when it fetches, and an unused loop is not cancelled.              *)
LoopsGoOn ==
  \A l \in Loops :
    /\ loop[l] = "made" => \E t \in Callers : pc[t] = "go" /\ mine[t] = l
    /\ loop[l] = "fetch" => held[l] \subseteq Ghosts
    /\ l \in cancelled => loop[l] # "unused"

(* A loop that was cancelled and has not ended can take a step that waits  *)
(* for no answer and for no session: its caller starts it, it looks at its *)
(* context, asks for the next ghost or drops it, or its call fails.        *)
CancelledGoesOn ==
  \A l \in cancelled :
    \/ loop[l] = "done"
    \/ loop[l] = "made" /\ \E t \in Callers : pc[t] = "go" /\ mine[t] = l
    \/ loop[l] \in {"begin", "wait", "resync"}
    \/ loop[l] = "fetch" /\ asking[l] = None /\ (held[l] = {} \/ \E g \in Ghosts : g \in held[l])
    \/ loop[l] = "fetch" /\ \E g \in Ghosts : g = asking[l]

(* A loop that has ended stays so, a cancelled one stays cancelled, and    *)
(* the ghosts of a round only become fewer.                                *)
RoundsShrink ==
  [][\A l \in Loops :
       /\ loop[l] = "done" => loop'[l] = "done"
       /\ l \in cancelled => l \in cancelled'
       /\ loop[l] = "fetch" => loop'[l] \in {"fetch", "wait"} /\ held'[l] \subseteq held[l]]_vars

(* Every step keeps loops going. *)
LEMMA LoopsGoOnKept == IInv /\ LoopsGoOn /\ [Next]_vars => LoopsGoOn'
<1> SUFFICES ASSUME IInv, LoopsGoOn, [Next]_vars PROVE LoopsGoOn'
  OBVIOUS
<1> USE LoopsAssumption DEF IInv, TypeOK, LoopsGoOn, callers, items, calls, Items, Goto
<1>1. CASE SessionChange \/ \E i \in Items : Expire(i) \/ Enqueue(i)
  BY <1>1 DEF SessionChange, Expire, Enqueue
<1>2. ASSUME NEW t \in Callers, NEW l \in Loops, StartSwap(t, l) PROVE LoopsGoOn'
  BY <1>2 DEF StartSwap, CallersHaveLoops
<1>3. ASSUME NEW t \in Callers, StartGo(t) PROVE LoopsGoOn'
  BY <1>3 DEF StartGo, CallersHaveLoops, OwnersDiffer
<1>4. ASSUME NEW t \in Callers, DisconnectSwap(t) \/ DisconnectCancel(t) PROVE LoopsGoOn'
  BY <1>4 DEF DisconnectSwap, DisconnectCancel, CallersHaveLoops, OwnersDiffer
<1>5. ASSUME NEW t \in Callers,
             Boot(t) \/ LoginAsk(t) \/ LoginFail(t) \/ LoginDone(t) \/ Connect(t)
      PROVE  LoopsGoOn'
  BY <1>5 DEF Boot, LoginAsk, LoginFail, LoginDone, Connect
<1>6. ASSUME NEW l \in Loops, LoopBegin(l) \/ LoopStop(l) \/ LoopTick(l) PROVE LoopsGoOn'
  BY <1>6 DEF LoopBegin, LoopStop, LoopTick
<1>7. ASSUME NEW l \in Loops, ResyncOffline(l) \/ ResyncStart(l) \/ FetchOffline(l) \/ FetchEnd(l)
      PROVE  LoopsGoOn'
  BY <1>7 DEF ResyncOffline, ResyncStart, FetchOffline, FetchEnd
<1>8. ASSUME NEW l \in Loops, NEW g \in Ghosts, FetchCall(l, g) \/ FetchDone(l, g) \/ FetchFail(l, g)
      PROVE  LoopsGoOn'
  BY <1>8 DEF FetchCall, FetchDone, FetchFail
<1>9. CASE UNCHANGED vars
  BY <1>9 DEF vars
<1> QED
  BY <1>1, <1>2, <1>3, <1>4, <1>5, <1>6, <1>7, <1>8, <1>9 DEF Next, CallerStep, LoopStep

(* A cancelled loop is never stuck: the part of CancelledLoopStops that    *)
(* needs no fairness.                                                      *)
THEOREM CancelledLoopsGoOn == Spec => []CancelledGoesOn
<1>1. Init => LoopsGoOn
  BY DEF Init, LoopsGoOn
<1>2. IInv /\ LoopsGoOn => CancelledGoesOn
  BY DEF IInv, TypeOK, LoopsGoOn, CancelledGoesOn
<1> QED
  BY <1>1, <1>2, LoopsGoOnKept, Invariance, PTL DEF Spec

(* A cancelled loop stays cancelled. *)
LEMMA CancelledStays ==
  ASSUME [Next]_vars
  PROVE  cancelled \subseteq cancelled'
BY DEF Next, SessionChange, Expire, Enqueue, CallerStep, Boot, LoginAsk, LoginFail, LoginDone,
   Connect, StartSwap, StartGo, DisconnectSwap, DisconnectCancel, LoopStep, LoopBegin, LoopStop,
   LoopTick, ResyncOffline, ResyncStart, FetchCall, FetchDone, FetchFail, FetchOffline, FetchEnd, vars

(* No loop comes back, and a round of fetches ends after as many answers   *)
(* or failures as it has ghosts.                                           *)
THEOREM RoundsEnd == Spec => RoundsShrink
<1> DEFINE Shrinks ==
      \A l \in Loops :
        /\ loop[l] = "done" => loop'[l] = "done"
        /\ l \in cancelled => l \in cancelled'
        /\ loop[l] = "fetch" => loop'[l] \in {"fetch", "wait"} /\ held'[l] \subseteq held[l]
<1>1. ASSUME IInv, [Next]_vars PROVE [Shrinks]_vars
  <2> USE DEF IInv, TypeOK, callers, items, calls, Goto
  <2>1. CASE SessionChange \/ \E i \in Items : Expire(i) \/ Enqueue(i)
    BY <1>1, <2>1 DEF SessionChange, Expire, Enqueue
  <2>2. ASSUME NEW t \in Callers, CallerStep(t) PROVE Shrinks
    <3>1. UNCHANGED held
      BY <1>1, <2>2, CallerStepKeepsItems
    <3>2. CASE StartGo(t)
      BY <1>1, <2>2, <3>1, <3>2 DEF StartGo, CallersHaveLoops
    <3>3. CASE ~StartGo(t)
      BY <1>1, <2>2, <3>1, <3>3 DEF CallerStep, Boot, LoginAsk, LoginFail, LoginDone, Connect,
         StartSwap, DisconnectSwap, DisconnectCancel
    <3> QED
      BY <3>2, <3>3
  <2>3. ASSUME NEW l \in Loops, LoopStep(l) PROVE Shrinks
    BY <1>1, <2>3 DEF LoopStep, LoopBegin, LoopStop, LoopTick, ResyncOffline, ResyncStart,
       FetchCall, FetchDone, FetchFail, FetchOffline, FetchEnd
  <2> QED
    BY <1>1, <2>1, <2>2, <2>3 DEF Next
<1> QED
  BY <1>1, Invariance, PTL DEF Spec, RoundsShrink

-----------------------------------------------------------------------------
(* The queue and the timer. *)

(* The timer of a loop that has begun and not ended is set: LoopTick, which *)
(* takes the queue, is the next step a waiting loop can always take.       *)
TimerIsSet == \A l \in Loops : l \in timer <=> loop[l] \in {"wait", "resync", "fetch"}

(* Enqueued items are not lost or overwritten: what leaves the queue is in *)
(* the hands of a live or cancelled loop, to which the whole queue went.   *)
QueueIsHandedOver ==
  [][queue \subseteq queue' \/ \E l \in Loops : LoopTick(l) /\ held'[l] = queue]_vars

(* A loop always has a tick to come, so the queue will be served as long   *)
(* as it is not cancelled and its calls return: the part of QueuedIsTaken  *)
(* that needs no fairness.                                                 *)
THEOREM TicksGoOn == Spec => []TimerIsSet
<1>1. Init => TimerIsSet
  BY DEF Init, TimerIsSet
<1>2. IInv /\ TimerIsSet /\ [Next]_vars => TimerIsSet'
  <2> SUFFICES ASSUME IInv, TimerIsSet, [Next]_vars PROVE TimerIsSet'
    OBVIOUS
  <2> USE DEF TimerIsSet, callers, items, calls
  <2>0. TypeOK /\ CallersHaveLoops
    BY DEF IInv
  <2>1. ASSUME NEW t \in Callers, CallerStep(t) PROVE TimerIsSet'
    <3>1. CASE \E l \in Loops : StartSwap(t, l)
      BY <2>0, <3>1 DEF StartSwap, TypeOK
    <3>2. CASE StartGo(t)
      BY <2>0, <3>2 DEF StartGo, TypeOK, CallersHaveLoops
    <3>3. CASE UNCHANGED <<loop, timer>>
      BY <3>3
    <3> QED
      BY <2>1, <3>1, <3>2, <3>3 DEF CallerStep, Boot, LoginAsk, LoginFail, LoginDone, Connect,
         DisconnectSwap, DisconnectCancel
  <2>2. ASSUME NEW l \in Loops, LoopStep(l) PROVE TimerIsSet'
    BY <2>0, <2>2 DEF TypeOK, LoopStep, LoopBegin, LoopStop, LoopTick, ResyncOffline, ResyncStart,
       FetchCall, FetchDone, FetchFail, FetchOffline, FetchEnd
  <2>3. CASE UNCHANGED <<loop, timer>>
    BY <2>3
  <2> QED
    BY <2>1, <2>2, <2>3 DEF Next, SessionChange, Expire, Enqueue, vars
<1> QED
  BY <1>1, <1>2, Invariance, PTL DEF Spec

(* Nothing that EnqueueGhostResync and EnqueuePortalResync put into the    *)
(* queue leaves it but to a loop, which gets all of it.                    *)
THEOREM NothingQueuedIsLost == Spec => QueueIsHandedOver
<1>1. ASSUME IInv, [Next]_vars
      PROVE  [queue \subseteq queue' \/ \E l \in Loops : LoopTick(l) /\ held'[l] = queue]_vars
  <2> USE DEF callers, items, calls
  <2>1. ASSUME NEW l \in Loops, LoopTick(l) PROVE held'[l] = queue
    BY <1>1, <2>1 DEF IInv, TypeOK, LoopTick
  <2>2. ASSUME NEW t \in Callers, CallerStep(t) PROVE queue' = queue
    BY <2>2 DEF CallerStep, Boot, LoginAsk, LoginFail, LoginDone, Connect, StartSwap, StartGo,
       DisconnectSwap, DisconnectCancel
  <2>3. ASSUME NEW l \in Loops, LoopStep(l), ~LoopTick(l) PROVE queue' = queue
    BY <2>3 DEF LoopStep, LoopBegin, LoopStop, ResyncOffline, ResyncStart, FetchCall, FetchDone, FetchFail,
       FetchOffline, FetchEnd
  <2> QED
    BY <1>1, <2>1, <2>2, <2>3 DEF Next, SessionChange, Expire, Enqueue, vars
<1> QED
  BY <1>1, Invariance, PTL DEF Spec, QueueIsHandedOver

-----------------------------------------------------------------------------
(* A loop that is not cancelled has lost its session in the middle of a    *)
(* call.                                                                   *)
HangsIn(l, g) == loop[l] = "fetch" /\ asking[l] = g /\ l \in cutoff

(* Such a loop waits until it is cancelled, whatever session comes and     *)
(* whatever is queued: Close wakes no call (CutOffCallsWait in             *)
(* SessionCalls_proof), and the context of the loop has no deadline.       *)
THEOREM CutOffLoopsWait ==
  ASSUME NEW l \in Loops, NEW g \in Ghosts
  PROVE  Spec => [](HangsIn(l, g) => [](HangsIn(l, g) \/ l \in cancelled))
<1> DEFINE Hung == HangsIn(l, g) \/ l \in cancelled
<1>1. IInv /\ Hung /\ [Next]_vars => Hung'
  <2> SUFFICES ASSUME IInv, HangsIn(l, g), l \notin cancelled, [Next]_vars
               PROVE  HangsIn(l, g)' \/ l \in cancelled'
    <3>1. ASSUME IInv, l \in cancelled, [Next]_vars PROVE l \in cancelled'
      BY <3>1, CancelledStays
    <3> QED
      BY <3>1
  <2> USE DEF HangsIn, callers, items, calls, Goto
  <2>0. TypeOK /\ CallersHaveLoops
    BY DEF IInv
  <2>1. ASSUME NEW t \in Callers, CallerStep(t) PROVE HangsIn(l, g)'
    <3>1. CASE \E k \in Loops : StartSwap(t, k)
      BY <2>0, <3>1 DEF StartSwap, TypeOK
    <3>2. CASE StartGo(t)
      BY <2>0, <3>2 DEF StartGo, TypeOK, CallersHaveLoops
    <3>3. CASE UNCHANGED <<loop, calls>>
      BY <3>3
    <3> QED
      BY <2>1, <3>1, <3>2, <3>3 DEF CallerStep, Boot, LoginAsk, LoginFail, LoginDone, Connect,
         DisconnectSwap, DisconnectCancel
  <2>2. ASSUME NEW k \in Loops, LoopStep(k) PROVE HangsIn(l, g)'
    <3>1. k # l
      BY <2>0, <2>2, LoopsAssumption DEF LoopStep, LoopBegin, LoopStop, LoopTick, ResyncOffline,
         ResyncStart, FetchCall, FetchDone, FetchFail, FetchOffline, FetchEnd, TypeOK
    <3> QED
      BY <2>0, <2>2, <3>1 DEF LoopStep, LoopBegin, LoopStop, LoopTick, ResyncOffline, ResyncStart,
         FetchCall, FetchDone, FetchFail, FetchOffline, FetchEnd, TypeOK
  <2>3. CASE SessionChange
    BY <2>3 DEF SessionChange
  <2>4. CASE UNCHANGED <<loop, calls>>
    BY <2>4
  <2> QED
    BY <2>1, <2>2, <2>3, <2>4 DEF Next, Expire, Enqueue, vars
<1>2. HangsIn(l, g) => Hung
  OBVIOUS
<1> QED
  BY <1>1, <1>2, Invariance, PTL DEF Spec

-----------------------------------------------------------------------------
(* The bridge has called Connect for the stored login, without a session,  *)
(* and nobody has logged in anew.                                          *)
LeftIdle ==
  /\ booted /\ stop = None
  /\ \A t \in Callers : pc[t] = "idle"
  /\ \A l \in Loops : loop[l] = "unused"

(* Unless somebody logs in again, a login that Connect gave up on stays    *)
(* without loops, however long its session is there: what the run          *)
(* loops_startup shows of one loop.                                        *)
THEOREM LeftIdleForGood ==
  Spec /\ [][\A t \in Callers : ~LoginAsk(t)]_vars =>
    [](LeftIdle => [](LeftIdle /\ ~\E l \in Loops : Live(l)))
<1>1. LeftIdle => ~\E l \in Loops : Live(l)
  BY DEF LeftIdle, Live
<1>2. TypeOK /\ LeftIdle /\ [Next]_vars /\ [\A t \in Callers : ~LoginAsk(t)]_vars => LeftIdle'
  <2> SUFFICES ASSUME TypeOK, LeftIdle, [Next]_vars, [\A t \in Callers : ~LoginAsk(t)]_vars
               PROVE  LeftIdle'
    OBVIOUS
  <2>1. CASE SessionChange \/ \E i \in Items : Expire(i) \/ Enqueue(i)
    BY <2>1 DEF LeftIdle, SessionChange, Expire, Enqueue, callers, items, calls
  <2>2. CASE UNCHANGED vars
    BY <2>2 DEF LeftIdle, vars
  <2>3. ASSUME NEW t \in Callers, CallerStep(t), ~LoginAsk(t) PROVE FALSE
    BY <2>3 DEF LeftIdle, CallerStep, Boot, LoginFail, LoginDone, Connect, StartSwap, StartGo,
       DisconnectSwap, DisconnectCancel
  <2>4. ASSUME NEW l \in Loops, LoopStep(l) PROVE FALSE
    BY <2>4 DEF TypeOK, LeftIdle, LoopStep, LoopBegin, LoopStop, LoopTick, ResyncOffline, ResyncStart,
       FetchCall, FetchDone, FetchFail, FetchOffline, FetchEnd
  <2> QED
    BY <2>1, <2>2, <2>3, <2>4 DEF Next
<1> QED
  BY <1>1, <1>2, TypeCorrect, PTL DEF Spec

-----------------------------------------------------------------------------
(* ChatSync: the inductive invariant, in named parts. *)

(* Metadata come with the room, in one step, and do not change any more.   *)
MetaComesWithRoom ==
  \A k \in Portals : meta[k] = IF k \in room THEN k[2] ELSE "unknown"

(* The latest message of a chat without a room is still queued, unless it  *)
(* was lost.                                                               *)
MessageWaits ==
  \A k \in sent \ room : k \in lost \/ \E i \in 1..Len(pending[k]) : pending[k][i] = "message"

(* A private chat loses no message: its info needs no call.                *)
OnlyGroupsLose == \A k \in lost : k[2] = "group"

(* What is queued as a message was for its portal, and nothing else has    *)
(* made a room.                                                            *)
NoOthersMakeRooms ==
  /\ \A k \in Portals : \A i \in 1..Len(pending[k]) : pending[k][i] = "message" => k \in sent
  /\ room \subseteq sent

SyncIInv ==
  /\ SyncTypeOK
  /\ MetaComesWithRoom
  /\ MessageWaits
  /\ OnlyGroupsLose
  /\ NoOthersMakeRooms

-----------------------------------------------------------------------------
(* Portals' types, and what an info of each may record. *)
LEMMA PortalFacts ==
  ASSUME NEW k \in Portals
  PROVE  k[2] \in {"private", "group"}
BY DEF Portals, ChatTypes

(* What kinds of chat an info may tell, or an error. *)
LEMMA InfoFacts ==
  /\ Info("private") = {"private"}
  /\ Info("group") \subseteq {"group", "error"}
  /\ Info("unknown") = {"error"}
BY DEF Info

(* What taking the first event leaves in a portal's queue. *)
LEMMA TakenFacts ==
  ASSUME pending \in [Portals -> Seq(Kinds)], NEW k \in Portals, pending[k] # <<>>, Taken(k)
  PROVE  /\ pending' \in [Portals -> Seq(Kinds)]
         /\ Head(pending[k]) \in Kinds
         /\ \A j \in Portals \ {k} : pending'[j] = pending[j]
         /\ \A i \in 1..Len(pending[k]) :
              \/ pending[k][i] = Head(pending[k])
              \/ \E h \in 1..Len(pending'[k]) : pending'[k][h] = pending[k][i]
<1>1. /\ Tail(pending[k]) \in Seq(Kinds) /\ Head(pending[k]) \in Kinds
      /\ Head(pending[k]) = pending[k][1]
      /\ \A i \in 1..Len(pending[k]) :
           i = 1 \/ (i - 1 \in 1..Len(Tail(pending[k])) /\ Tail(pending[k])[i - 1] = pending[k][i])
  <2>1. pending[k] \in Seq(Kinds)
    OBVIOUS
  <2> QED
    BY <2>1
<1>2. pending' = [pending EXCEPT ![k] = Tail(pending[k])]
  BY DEF Taken
<1> QED
  BY <1>1, <1>2

(* What is taken was the first, and the others move up.                    *)
LEMMA TakenMovesUp ==
  ASSUME pending \in [Portals -> Seq(Kinds)], NEW k \in Portals, pending[k] # <<>>, Taken(k)
  PROVE  /\ Head(pending[k]) = pending[k][1] /\ 1 \in 1..Len(pending[k])
         /\ \A h \in 1..Len(pending'[k]) :
              h + 1 \in 1..Len(pending[k]) /\ pending'[k][h] = pending[k][h + 1]
<1>1. pending'[k] = Tail(pending[k]) /\ pending[k] \in Seq(Kinds)
  BY DEF Taken
<1> QED
  BY <1>1

(* What queueing an event for some portals does. *)
LEMMA QueueFacts ==
  ASSUME pending \in [Portals -> Seq(Kinds)], NEW ks, NEW kind \in Kinds, Queue(ks, kind)
  PROVE  /\ pending' \in [Portals -> Seq(Kinds)]
         /\ \A k \in Portals : \A i \in 1..Len(pending[k]) :
              i \in 1..Len(pending'[k]) /\ pending'[k][i] = pending[k][i]
         /\ \A k \in Portals \cap ks :
              \E i \in 1..Len(pending'[k]) : pending'[k][i] = kind
         /\ \A k \in Portals : \A i \in 1..Len(pending'[k]) :
              \/ i \in 1..Len(pending[k]) /\ pending'[k][i] = pending[k][i]
              \/ k \in ks /\ pending'[k][i] = kind
<1>1. ASSUME NEW k \in Portals
      PROVE  /\ pending'[k] = IF k \in ks THEN Append(pending[k], kind) ELSE pending[k]
             /\ pending[k] \in Seq(Kinds)
  BY DEF Queue
<1>2. ASSUME NEW q \in Seq(Kinds)
      PROVE  /\ Append(q, kind) \in Seq(Kinds)
             /\ \A i \in 1..Len(q) : i \in 1..Len(Append(q, kind)) /\ Append(q, kind)[i] = q[i]
             /\ \E i \in 1..Len(Append(q, kind)) : Append(q, kind)[i] = kind
  <2>1. /\ Len(q) + 1 \in 1..Len(Append(q, kind))
        /\ Append(q, kind)[Len(q) + 1] = kind
    OBVIOUS
  <2> QED
    BY <2>1
<1>3. pending' \in [Portals -> Seq(Kinds)]
  BY <1>1, <1>2 DEF Queue
<1>4. ASSUME NEW k \in Portals, NEW i \in 1..Len(pending'[k])
      PROVE  \/ i \in 1..Len(pending[k]) /\ pending'[k][i] = pending[k][i]
             \/ k \in ks /\ pending'[k][i] = kind
  <2> DEFINE q == pending[k]
  <2>1. q \in Seq(Kinds) /\ pending'[k] = IF k \in ks THEN Append(q, kind) ELSE q
    BY <1>1
  <2> HIDE DEF q
  <2>2. ASSUME NEW h \in 1..Len(Append(q, kind)), h \notin 1..Len(q)
        PROVE  Append(q, kind)[h] = kind
    BY <2>1, <2>2
  <2>3. ASSUME NEW h \in 1..Len(q) PROVE Append(q, kind)[h] = q[h]
    BY <2>1, <2>3
  <2> QED
    BY <2>1, <2>2, <2>3 DEF q
<1>5. ASSUME NEW k \in Portals
      PROVE  /\ \A i \in 1..Len(pending[k]) :
                  i \in 1..Len(pending'[k]) /\ pending'[k][i] = pending[k][i]
             /\ k \in ks => \E i \in 1..Len(pending'[k]) : pending'[k][i] = kind
  <2> DEFINE q == pending[k]
  <2>1. q \in Seq(Kinds) /\ pending'[k] = IF k \in ks THEN Append(q, kind) ELSE q
    BY <1>1
  <2> HIDE DEF q
  <2> QED
    BY <1>2, <2>1 DEF q
<1> QED
  BY <1>3, <1>4, <1>5

(* So a portal is taken from, and no message comes to be queued.           *)
LEMMA TakenKeeps ==
  ASSUME pending \in [Portals -> Seq(Kinds)], NEW k \in Portals, pending[k] # <<>>, Taken(k),
         NoOthersMakeRooms
  PROVE  \A j \in Portals : \A i \in 1..Len(pending'[j]) : pending'[j][i] = "message" => j \in sent
<1> SUFFICES ASSUME NEW j \in Portals, NEW i \in 1..Len(pending'[j]), pending'[j][i] = "message"
             PROVE  j \in sent
  OBVIOUS
<1>1. CASE j = k
  <2>1. i + 1 \in 1..Len(pending[k]) /\ pending[k][i + 1] = "message"
    BY <1>1, TakenMovesUp
  <2> QED
    BY <1>1, <2>1 DEF NoOthersMakeRooms
<1>2. CASE j # k
  <2>1. pending'[j] = pending[j]
    BY <1>2, TakenFacts
  <2> QED
    BY <2>1 DEF NoOthersMakeRooms
<1> QED
  BY <1>1, <1>2

-----------------------------------------------------------------------------
(* Before the first sync and the first event. *)
LEMMA SyncInitIInv == SyncInit => SyncIInv
<1> SUFFICES ASSUME SyncInit PROVE SyncIInv
  OBVIOUS
<1>1. pending \in [Portals -> Seq(Kinds)]
  BY DEF SyncInit
<1>2. meta \in [Portals -> ChatTypes \cup {"unknown"}] /\ events \in 0..MaxEvents
  BY ChatSyncAssumption DEF SyncInit
<1>3. NoOthersMakeRooms
  <2>1. \A k \in Portals : Len(pending[k]) = 0
    BY DEF SyncInit
  <2> QED
    BY <2>1 DEF SyncInit, NoOthersMakeRooms
<1> QED
  BY <1>1, <1>2, <1>3 DEF SyncInit, SyncIInv, SyncTypeOK, MetaComesWithRoom, MessageWaits,
     OnlyGroupsLose

(* A queued event waits, and takes nothing away. *)
LEMMA SyncQueueing ==
  ASSUME SyncIInv, NEW ks, NEW kind \in Kinds, Queue(ks, kind),
         UNCHANGED <<room, meta>>, failed' \in BOOLEAN, failed => failed',
         online' \in BOOLEAN, sync' \in {"idle", "recent", "friends", "groups", "done"},
         events' \in 0..MaxEvents,
         \/ sent' = sent /\ lost' = lost /\ kind # "message"
         \/ /\ kind = "message" /\ ks \subseteq Portals
            /\ sent' = sent \cup ks /\ lost' = lost \ ks
  PROVE  SyncIInv'
<1>1. pending \in [Portals -> Seq(Kinds)] /\ sent \subseteq Portals
  BY DEF SyncIInv, SyncTypeOK
<1>2. SyncTypeOK'
  BY <1>1, QueueFacts DEF SyncIInv, SyncTypeOK
<1>3. MetaComesWithRoom'
  BY DEF SyncIInv, MetaComesWithRoom
<1>4. ASSUME NEW k \in sent' \ room', k \notin lost'
      PROVE  \E i \in 1..Len(pending'[k]) : pending'[k][i] = "message"
  <2>1. CASE k \in sent /\ k \notin lost
    <3>1. PICK i \in 1..Len(pending[k]) : pending[k][i] = "message"
      BY <1>4, <2>1 DEF SyncIInv, MessageWaits
    <3> QED
      BY <1>1, <2>1, <3>1, QueueFacts
  <2>2. CASE k \notin sent \/ k \in lost
    BY <1>1, <1>4, <2>2, QueueFacts DEF SyncIInv, SyncTypeOK
  <2> QED
    BY <2>1, <2>2
<1>5. NoOthersMakeRooms'
  <2>1. ASSUME NEW k \in Portals, NEW i \in 1..Len(pending'[k]), pending'[k][i] = "message"
        PROVE  k \in sent'
    <3>1. CASE i \in 1..Len(pending[k]) /\ pending'[k][i] = pending[k][i]
      BY <2>1, <3>1 DEF SyncIInv, NoOthersMakeRooms
    <3>2. CASE k \in ks /\ pending'[k][i] = kind
      BY <2>1, <3>2
    <3> QED
      BY <1>1, <2>1, <3>1, <3>2, QueueFacts
  <2> QED
    BY <2>1 DEF SyncIInv, NoOthersMakeRooms
<1> QED
  BY <1>2, <1>3, <1>4, <1>5 DEF SyncIInv, MessageWaits, OnlyGroupsLose

(* Every step keeps the inductive invariant. *)
LEMMA SyncNextIInv == SyncIInv /\ [SyncNext]_syncVars => SyncIInv'
<1> SUFFICES ASSUME SyncIInv, [SyncNext]_syncVars PROVE SyncIInv'
  OBVIOUS
<1> USE ChatSyncAssumption
<1>0. /\ SyncTypeOK /\ MetaComesWithRoom /\ MessageWaits /\ OnlyGroupsLose /\ NoOthersMakeRooms
      /\ pending \in [Portals -> Seq(Kinds)]
      /\ Kinds = {"message", "sync", "resync", "typing"}
  BY DEF SyncIInv, SyncTypeOK, Kinds
<1>1. CASE SyncSessionChange \/ SyncStart \/ SyncFail \/ UNCHANGED syncVars
  <2>1. SyncTypeOK'
    BY <1>0, <1>1 DEF SyncTypeOK, SyncSessionChange, SyncStart, SyncFail, After, syncVars
  <2>2. MetaComesWithRoom' /\ MessageWaits' /\ OnlyGroupsLose' /\ NoOthersMakeRooms'
    BY <1>0, <1>1 DEF SyncTypeOK, MetaComesWithRoom, MessageWaits, OnlyGroupsLose, NoOthersMakeRooms,
       SyncSessionChange, SyncStart,
       SyncFail, syncVars
  <2> QED
    BY <2>1, <2>2 DEF SyncIInv
<1>2. CASE SyncList
  <2>1. sync' \in {"idle", "recent", "friends", "groups", "done"}
    BY <1>2 DEF SyncList, After
  <2> QED
    BY <1>0, <1>2, <2>1, SyncQueueing DEF SyncList, SyncTypeOK
<1>3. ASSUME NEW k \in Portals, Message(k) \/ Typing(k) \/ Resync(k) PROVE SyncIInv'
  <2>1. events' \in 0..MaxEvents
    BY <1>0, <1>3 DEF Message, Typing, Resync, SyncTypeOK
  <2> QED
    BY <1>0, <1>3, <2>1, SyncQueueing DEF Message, Typing, Resync, SyncTypeOK
<1>4. ASSUME NEW k \in Portals, PortalIgnore(k) \/ PortalShow(k) \/ PortalResync(k) PROVE SyncIInv'
  <2>1. pending[k] # <<>> /\ Taken(k) /\ UNCHANGED <<online, sync, room, sent, lost, events>>
    BY <1>4 DEF PortalIgnore, PortalShow, PortalResync
  <2>2. k \notin room => Head(pending[k]) # "message"
    BY <1>4 DEF PortalIgnore, PortalShow, PortalResync
  <2>3. /\ UNCHANGED meta
        /\ failed' \in BOOLEAN /\ (failed => failed')
    <3>1. CASE PortalIgnore(k) \/ PortalShow(k)
      BY <1>0, <3>1 DEF PortalIgnore, PortalShow, SyncTypeOK
    <3>2. CASE PortalResync(k)
      <4>1. meta[k] = k[2] /\ meta[k] \in {"private", "group"}
        BY <1>0, <3>2, PortalFacts DEF PortalResync, MetaComesWithRoom
      <4>2. meta' = meta \/ meta' = [meta EXCEPT ![k] = meta[k]]
        BY <3>2, <4>1, InfoFacts DEF PortalResync, UpdateChatType
      <4>3. meta' = meta
        BY <1>0, <4>2 DEF SyncTypeOK
      <4>4. failed' = TRUE \/ failed' = failed
        BY <3>2 DEF PortalResync
      <4> QED
        BY <1>0, <4>3, <4>4 DEF SyncTypeOK
    <3> QED
      BY <1>4, <3>1, <3>2
  <2>4. SyncTypeOK' /\ MetaComesWithRoom'
    BY <1>0, <2>1, <2>3, TakenFacts DEF SyncTypeOK, MetaComesWithRoom
  <2>5. ASSUME NEW j \in sent' \ room', j \notin lost'
        PROVE  \E i \in 1..Len(pending'[j]) : pending'[j][i] = "message"
    <3>1. PICK i \in 1..Len(pending[j]) : pending[j][i] = "message"
      BY <1>0, <2>1, <2>3, <2>5 DEF MessageWaits
    <3>2. j \in Portals
      BY <1>0, <2>1 DEF SyncTypeOK
    <3>3. CASE j = k
      <4>1. pending[k][i] # Head(pending[k])
        BY <2>1, <2>2, <2>5, <3>1, <3>3
      <4> QED
        BY <1>0, <2>1, <3>1, <3>3, <4>1, TakenFacts
    <3>4. CASE j # k
      BY <1>0, <2>1, <3>1, <3>2, <3>4, TakenFacts
    <3> QED
      BY <3>3, <3>4
  <2>6. NoOthersMakeRooms'
    BY <1>0, <2>1, TakenKeeps DEF NoOthersMakeRooms
  <2> QED
    BY <1>0, <2>1, <2>4, <2>5, <2>6 DEF SyncIInv, MessageWaits, OnlyGroupsLose
<1>5. ASSUME NEW k \in Portals, PortalCreate(k) PROVE SyncIInv'
  <2> DEFINE type == Asked(k, Head(pending[k]))
  <2>1. pending[k] # <<>> /\ Taken(k) /\ UNCHANGED <<online, sync, sent, events>> /\ k \notin room
    BY <1>5 DEF PortalCreate
  <2>2. /\ type \in {k[2], "unknown"}
        /\ Head(pending[k]) = "message" => type = k[2]
    BY <1>0, <2>1 DEF Asked, MetaComesWithRoom
  <2>3. PICK info \in Info(type) :
          \/ /\ info # "error"
             /\ room' = room \cup {k}
             /\ UpdateChatType(k, info)
             /\ UNCHANGED <<lost, failed>>
          \/ /\ info = "error"
             /\ failed' = (failed \/ type = "group")
             /\ lost' = IF type = "group" /\ Head(pending[k]) = "message" THEN lost \cup {k} ELSE lost
             /\ UNCHANGED <<room, meta>>
    BY <1>5 DEF PortalCreate
  <2>4. /\ info # "error" => type = k[2] /\ info = k[2]
        /\ info = "error" => type # "private"
    BY <2>2, InfoFacts, PortalFacts
  <2>5. \/ /\ room' = room \cup {k} /\ meta' = [meta EXCEPT ![k] = k[2]]
           /\ UNCHANGED <<lost, failed>>
        \/ /\ UNCHANGED <<room, meta>> /\ failed' = (failed \/ type = "group")
           /\ \/ lost' = lost /\ Head(pending[k]) # "message"
              \/ lost' = lost \cup {k} /\ k[2] = "group"
    BY <2>2, <2>3, <2>4, PortalFacts DEF UpdateChatType
  <2>6. SyncTypeOK'
    BY <1>0, <2>1, <2>5, TakenFacts, PortalFacts DEF SyncTypeOK, ChatTypes
  <2>7. MetaComesWithRoom'
    BY <1>0, <2>1, <2>5 DEF SyncTypeOK, MetaComesWithRoom
  <2>8. ASSUME NEW j \in sent' \ room', j \notin lost'
        PROVE  \E i \in 1..Len(pending'[j]) : pending'[j][i] = "message"
    <3>1. j \notin lost /\ j \in sent \ room /\ j \in Portals
      BY <1>0, <2>1, <2>5, <2>8 DEF SyncTypeOK
    <3>2. PICK i \in 1..Len(pending[j]) : pending[j][i] = "message"
      BY <1>0, <3>1 DEF MessageWaits
    <3>3. j = k => Head(pending[k]) # "message"
      BY <2>5, <2>8
    <3> QED
      BY <1>0, <2>1, <3>1, <3>2, <3>3, TakenFacts
  <2>9. k \in room' => k \in sent
    <3>1. k \in room' => Head(pending[k]) = "message"
      <4>1. type # "unknown" => Head(pending[k]) = "message"
        BY <2>1, <1>0, PortalFacts DEF Asked, MetaComesWithRoom
      <4>2. info = "error" => k \notin room'
        BY <2>1, <2>3
      <4> QED
        BY <2>4, <4>1, <4>2, PortalFacts
    <3> QED
      BY <1>0, <2>1, <3>1, TakenMovesUp DEF NoOthersMakeRooms
  <2>10. NoOthersMakeRooms'
    <3>1. room' \subseteq room \cup {k}
      BY <2>5
    <3> QED
      BY <1>0, <2>1, <2>9, <3>1, TakenKeeps DEF NoOthersMakeRooms
  <2>11. OnlyGroupsLose'
    BY <1>0, <2>5 DEF OnlyGroupsLose
  <2> QED
    BY <2>6, <2>7, <2>8, <2>10, <2>11 DEF SyncIInv, MessageWaits
<1> QED
  BY <1>1, <1>2, <1>3, <1>4, <1>5 DEF SyncNext

(* The inductive invariant holds. *)
THEOREM SyncInvariance == SyncSpec => []SyncIInv
BY SyncInitIInv, SyncNextIInv, PTL DEF SyncSpec

(* Every state is of the declared types. *)
THEOREM SyncTypeCorrect == SyncSpec => []SyncTypeOK
<1>1. SyncIInv => SyncTypeOK
  BY DEF SyncIInv
<1> QED
  BY <1>1, SyncInvariance, PTL

(* The metadata of a portal with a room tells what chat it is. *)
THEOREM RoomsKnow == SyncSpec => []RoomKnowsItsType
<1>1. SyncIInv => RoomKnowsItsType
  BY DEF SyncIInv, SyncTypeOK, MetaComesWithRoom, RoomKnowsItsType
<1> QED
  BY <1>1, SyncInvariance, PTL

(* When all events are handled, every chat with a message has its room,    *)
(* unless it is a group and the info for its latest message failed.        *)
THEOREM MessagesMakeRooms == SyncSpec => []MessagesGetRooms
<1>1. SyncIInv => MessagesGetRooms
  <2> SUFFICES ASSUME SyncIInv, Idle, NEW k \in sent PROVE k \in room \/ (k[2] = "group" /\ k \in lost)
    BY DEF MessagesGetRooms
  <2>1. k \in Portals /\ Len(pending[k]) = 0
    BY DEF Idle, SyncIInv, SyncTypeOK
  <2> QED
    BY <2>1 DEF SyncIInv, MessageWaits, OnlyGroupsLose
<1> QED
  BY <1>1, SyncInvariance, PTL

(* Only messages have made rooms: no chat gets its room from               *)
(* syncAllContacts, whichever list has it, as contacts_get_rooms shows.    *)
THEOREM OnlyMessagesMakeRooms == SyncSpec => [](room \subseteq sent)
<1>1. SyncIInv => room \subseteq sent
  BY DEF SyncIInv, NoOthersMakeRooms
<1> QED
  BY <1>1, SyncInvariance, PTL
=============================================================================
