----------------------------- MODULE ClientLoops -----------------------------
(***************************************************************************)
(* The background work of one QQClient: Connect, Disconnect and the login  *)
(* that ends in Connect (pkg/connector/client.go, login.go), and the       *)
(* resync loop with its queue (pkg/connector/chatinfo.go).                 *)
(*                                                                         *)
(* Connect and Disconnect may run in several goroutines of the bridge      *)
(* framework at once; stopLoops, an atomic pointer to the cancel function  *)
(* of the running loop, is all that orders them.  A loop takes the whole   *)
(* queue when its timer fires and asks NapCatQQ for what is stale.         *)
(*                                                                         *)
(* `up' stands for session() # nil, whose lookup SessionRegistry models.   *)
(* Times are left out: a timer fires at any time, and the seven days of    *)
(* resyncMinInterval pass at any time (Expire).  syncAllContacts, which    *)
(* starts and is cancelled with the loop, is in ChatSync.                  *)
(***************************************************************************)
CONSTANTS
  Callers,   \* goroutines that call Connect, Disconnect and the login
  Starter,   \* the one of them in which the bridge starts
  Loops,     \* the contexts startLoops may create (bounds the Connects)
  Ghosts,    \* QQ users known to the bridge
  Groups,    \* group portals
  None

(* What the resync queue holds. *)
Items == Ghosts \cup Groups

ASSUME LoopsAssumption ==
  /\ None \notin Loops \cup Callers \cup Ghosts
  /\ Starter \in Callers
  /\ Ghosts \cap Groups = {}

VARIABLES
  up,         \* session() # nil
  booted,     \* the framework has called Connect for the stored login
  stop,       \* stopLoops: the loop it would cancel
  pc,         \* per caller
  old, mine,  \* per caller: the loop it swapped out, the one it swapped in
  loop,       \* per loop: where ghostResyncLoop is
  timer,      \* the loops whose timer is set
  cancelled,  \* the loops whose context is cancelled
  queue,      \* resyncQueue
  held,       \* per loop: what it took from the queue and has not dealt with
  asking,     \* per loop: the ghost that its call to NapCatQQ is about
  cutoff,     \* loops whose call has lost its session before the answer
  stamped,    \* items whose Metadata.LastSync is recent
  recent      \* items that were refreshed recently (history)

vars == <<up, booted, stop, pc, old, mine, loop, timer, cancelled, queue, held, asking,
          cutoff, stamped, recent>>
callers == <<booted, stop, pc, old, mine>>
items   == <<queue, held, stamped, recent>>
calls   == <<asking, cutoff>>

TypeOK ==
  /\ up \in BOOLEAN /\ booted \in BOOLEAN
  /\ stop \in Loops \cup {None}
  /\ pc \in [Callers -> {"idle", "info", "connect", "start", "go", "cancel"}]
  /\ old \in [Callers -> Loops \cup {None}]
  /\ mine \in [Callers -> Loops \cup {None}]
  /\ loop \in [Loops -> {"unused", "made", "begin", "wait", "resync", "fetch", "done"}]
  /\ timer \subseteq Loops /\ cancelled \subseteq Loops
  /\ queue \subseteq Items /\ stamped \subseteq Items /\ recent \subseteq Items
  /\ held \in [Loops -> SUBSET Items]
  /\ \A l \in Loops : held[l] # {} => loop[l] \in {"resync", "fetch"}
  /\ asking \in [Loops -> Ghosts \cup {None}]
  /\ \A l \in Loops : asking[l] # None => loop[l] = "fetch" /\ asking[l] \in held[l]
  /\ cutoff \subseteq {l \in Loops : asking[l] # None}

Init ==
  /\ up \in BOOLEAN /\ booted = FALSE
  /\ stop = None
  /\ pc = [t \in Callers |-> "idle"]
  /\ old = [t \in Callers |-> None]
  /\ mine = [t \in Callers |-> None]
  /\ loop = [l \in Loops |-> "unused"]
  /\ timer = {} /\ cancelled = {}
  /\ queue = {} /\ stamped = {} /\ recent = {}
  /\ held = [l \in Loops |-> {}]
  /\ asking = [l \in Loops |-> None] /\ cutoff = {}

-----------------------------------------------------------------------------
(* Around the client: the session comes and goes, LastSync grows old, and  *)
(* the framework meets ghosts and groups.                                  *)

(* A lost session cuts off the calls made on it that have no answer yet:   *)
(* Close wakes none of them, and they do not know the next session.        *)
SessionChange ==
  /\ up' = ~up
  /\ \/ UNCHANGED cutoff
     \/ up /\ \E C \in SUBSET {l \in Loops : asking[l] # None} : cutoff' = cutoff \cup C
  /\ UNCHANGED <<callers, loop, timer, cancelled, items, asking>>

Expire(i) ==
  /\ i \in recent \cup stamped
  /\ stamped' = stamped \ {i}
  /\ recent' = recent \ {i}
  /\ UNCHANGED <<up, callers, loop, timer, cancelled, queue, held, calls>>

(* EnqueueGhostResync and EnqueuePortalResync. *)
Enqueue(i) ==
  /\ i \notin stamped
  /\ i \notin queue
  /\ queue' = queue \cup {i}
  /\ UNCHANGED <<up, callers, loop, timer, cancelled, held, stamped, recent, calls>>

-----------------------------------------------------------------------------
(* Connect, Disconnect and the login. *)

Goto(t, place) == pc' = [pc EXCEPT ![t] = place]

(* The framework connects a stored login once, when the bridge starts, in  *)
(* a goroutine that does nothing else.                                     *)
Boot(t) ==
  /\ t = Starter /\ pc[t] = "idle" /\ ~booted
  /\ booted' = TRUE
  /\ Goto(t, "connect")
  /\ UNCHANGED <<up, stop, old, mine, loop, timer, cancelled, items, calls>>

(* SubmitUserInput: the account has a session; ask it who it is. *)
LoginAsk(t) ==
  /\ t # Starter /\ pc[t] = "idle" /\ up
  /\ Goto(t, "info")
  /\ UNCHANGED <<up, booted, stop, old, mine, loop, timer, cancelled, items, calls>>

(* GetLoginInfo fails or names another account: no login. *)
LoginFail(t) ==
  /\ pc[t] = "info"
  /\ Goto(t, "idle")
  /\ UNCHANGED <<up, booted, stop, old, mine, loop, timer, cancelled, items, calls>>

(* The login is stored, and its client connected. *)
LoginDone(t) ==
  /\ pc[t] = "info"
  /\ Goto(t, "connect")
  /\ UNCHANGED <<up, booted, stop, old, mine, loop, timer, cancelled, items, calls>>

(* Connect: report bad credentials and give up, or startLoops. *)
Connect(t) ==
  /\ pc[t] = "connect"
  /\ Goto(t, IF up THEN "start" ELSE "idle")
  /\ UNCHANGED <<up, booted, stop, old, mine, loop, timer, cancelled, items, calls>>

(* startLoops: a new context, swapped in. *)
StartSwap(t, l) ==
  /\ pc[t] = "start"
  /\ loop[l] = "unused"
  /\ loop' = [loop EXCEPT ![l] = "made"]
  /\ stop' = l
  /\ old' = [old EXCEPT ![t] = stop]
  /\ mine' = [mine EXCEPT ![t] = l]
  /\ Goto(t, "go")
  /\ UNCHANGED <<up, booted, timer, cancelled, items, calls>>

(* Fault: the loop that was running goes on. *)
StartGoAlongside(t) ==
  /\ pc[t] = "go"
  /\ loop' = [loop EXCEPT ![mine[t]] = "begin"]
  /\ old' = [old EXCEPT ![t] = None]
  /\ mine' = [mine EXCEPT ![t] = None]
  /\ Goto(t, "idle")
  /\ UNCHANGED <<up, booted, stop, timer, cancelled, items, calls>>

(* startLoops: cancel the old loop, start the new one. *)
StartGo(t) ==
  /\ pc[t] = "go"
  /\ cancelled' = cancelled \cup ({old[t]} \ {None})
  /\ loop' = [loop EXCEPT ![mine[t]] = "begin"]
  /\ old' = [old EXCEPT ![t] = None]
  /\ mine' = [mine EXCEPT ![t] = None]
  /\ Goto(t, "idle")
  /\ UNCHANGED <<up, booted, stop, timer, items, calls>>

(* Disconnect, also by LogoutRemote: swap the loop out... *)
DisconnectSwap(t) ==
  /\ t # Starter /\ pc[t] = "idle"
  /\ stop # None
  /\ old' = [old EXCEPT ![t] = stop]
  /\ stop' = None
  /\ Goto(t, "cancel")
  /\ UNCHANGED <<up, booted, mine, loop, timer, cancelled, items, calls>>

(* ...and cancel it. *)
DisconnectCancel(t) ==
  /\ pc[t] = "cancel"
  /\ cancelled' = cancelled \cup {old[t]}
  /\ old' = [old EXCEPT ![t] = None]
  /\ Goto(t, "idle")
  /\ UNCHANGED <<up, booted, stop, mine, loop, timer, items, calls>>

-----------------------------------------------------------------------------
(* ghostResyncLoop. *)

LoopBegin(l) ==
  /\ loop[l] = "begin"
  /\ loop' = [loop EXCEPT ![l] = "wait"]
  /\ timer' = timer \cup {l}
  /\ UNCHANGED <<up, callers, cancelled, items, calls>>

LoopStop(l) ==
  /\ loop[l] = "wait" /\ l \in cancelled
  /\ loop' = [loop EXCEPT ![l] = "done"]
  /\ timer' = timer \ {l}
  /\ UNCHANGED <<up, callers, cancelled, items, calls>>

(* Fault: the timer is not set again. *)
LoopTickOnce(l) ==
  /\ loop[l] = "wait" /\ l \in timer
  /\ queue' = {}
  /\ held' = [held EXCEPT ![l] = queue]
  /\ loop' = [loop EXCEPT ![l] = IF queue = {} THEN "wait" ELSE "resync"]
  /\ timer' = timer \ {l}
  /\ UNCHANGED <<up, callers, cancelled, stamped, recent, calls>>

(* The timer fires: rotateResyncQueue, and the timer is set again.         *)
LoopTick(l) ==
  /\ loop[l] = "wait" /\ l \in timer
  /\ queue' = {}
  /\ held' = [held EXCEPT ![l] = queue]
  /\ loop' = [loop EXCEPT ![l] = IF queue = {} THEN "wait" ELSE "resync"]
  /\ UNCHANGED <<up, callers, timer, cancelled, stamped, recent, calls>>

(* doGhostResync without a session: the items are dropped. *)
ResyncOffline(l) ==
  /\ loop[l] = "resync" /\ ~up
  /\ held' = [held EXCEPT ![l] = {}]
  /\ loop' = [loop EXCEPT ![l] = "wait"]
  /\ UNCHANGED <<up, callers, timer, cancelled, queue, stamped, recent, calls>>

(* Fault: what was in the queue is taken to be stale still. *)
ResyncAll(l) ==
  /\ loop[l] = "resync" /\ up
  /\ held' = [held EXCEPT ![l] = held[l] \cap Ghosts]
  /\ recent' = recent \cup (held[l] \cap Groups)
  /\ loop' = [loop EXCEPT ![l] = "fetch"]
  /\ UNCHANGED <<up, callers, timer, cancelled, queue, stamped, calls>>

(* doGhostResync: leave out what is not stale any more, and queue a        *)
(* ChatResync for each group.  Nothing in it sets the group's LastSync.    *)
ResyncStart(l) ==
  /\ loop[l] = "resync" /\ up
  /\ held' = [held EXCEPT ![l] = (held[l] \cap Ghosts) \ stamped]
  /\ recent' = recent \cup ((held[l] \cap Groups) \ stamped)
  /\ loop' = [loop EXCEPT ![l] = "fetch"]
  /\ UNCHANGED <<up, callers, timer, cancelled, queue, stamped, calls>>

(* GetStrangerInfo, on the session that there is now. *)
FetchCall(l, g) ==
  /\ loop[l] = "fetch" /\ asking[l] = None /\ g \in held[l] /\ up
  /\ asking' = [asking EXCEPT ![l] = g]
  /\ UNCHANGED <<up, callers, loop, timer, cancelled, items, cutoff>>

(* It answers: update the ghost, updateGhostLastSyncAt. *)
FetchDone(l, g) ==
  /\ asking[l] = g /\ g # None /\ l \notin cutoff
  /\ asking' = [asking EXCEPT ![l] = None]
  /\ held' = [held EXCEPT ![l] = @ \ {g}]
  /\ stamped' = stamped \cup {g}
  /\ recent' = recent \cup {g}
  /\ UNCHANGED <<up, callers, loop, timer, cancelled, queue, cutoff>>

(* Fault: the call knows nothing of the loop's context. *)
FetchFailUncancelled(l, g) ==
  /\ asking[l] = g /\ g # None /\ l \notin cutoff
  /\ asking' = [asking EXCEPT ![l] = None]
  /\ held' = [held EXCEPT ![l] = @ \ {g}]
  /\ UNCHANGED <<up, callers, loop, timer, cancelled, queue, cutoff, stamped, recent>>

(* It is refused, or is not written: next ghost.  The loop's context has   *)
(* no deadline, so only its cancellation ends a call that was cut off.     *)
FetchFail(l, g) ==
  /\ asking[l] = g /\ g # None
  /\ l \notin cutoff \/ l \in cancelled
  /\ asking' = [asking EXCEPT ![l] = None]
  /\ cutoff' = cutoff \ {l}
  /\ held' = [held EXCEPT ![l] = @ \ {g}]
  /\ UNCHANGED <<up, callers, loop, timer, cancelled, queue, stamped, recent>>

(* Fault: the ghosts that are left wait for the next round. *)
FetchOfflineKeeps(l) ==
  /\ loop[l] = "fetch" /\ asking[l] = None /\ held[l] # {} /\ ~up
  /\ loop' = [loop EXCEPT ![l] = "wait"]
  /\ UNCHANGED <<up, callers, timer, cancelled, items, calls>>

(* The session is gone: the ghosts that are left are dropped. *)
FetchOffline(l) ==
  /\ loop[l] = "fetch" /\ asking[l] = None /\ held[l] # {} /\ ~up
  /\ held' = [held EXCEPT ![l] = {}]
  /\ loop' = [loop EXCEPT ![l] = "wait"]
  /\ UNCHANGED <<up, callers, timer, cancelled, queue, stamped, recent, calls>>

FetchEnd(l) ==
  /\ loop[l] = "fetch" /\ held[l] = {}
  /\ loop' = [loop EXCEPT ![l] = "wait"]
  /\ UNCHANGED <<up, callers, timer, cancelled, items, calls>>

-----------------------------------------------------------------------------
CallerStep(t) ==
  \/ Boot(t) \/ LoginAsk(t) \/ LoginFail(t) \/ LoginDone(t) \/ Connect(t)
  \/ \E l \in Loops : StartSwap(t, l)
  \/ StartGo(t) \/ DisconnectSwap(t) \/ DisconnectCancel(t)

LoopStep(l) ==
  \/ LoopBegin(l) \/ LoopStop(l) \/ LoopTick(l)
  \/ ResyncOffline(l) \/ ResyncStart(l)
  \/ \E g \in Ghosts : FetchCall(l, g) \/ FetchDone(l, g) \/ FetchFail(l, g)
  \/ FetchOffline(l) \/ FetchEnd(l)

Next ==
  \/ SessionChange
  \/ \E i \in Items : Expire(i) \/ Enqueue(i)
  \/ \E t \in Callers : CallerStep(t)
  \/ \E l \in Loops : LoopStep(l)

Spec == Init /\ [][Next]_vars

(* The goroutines run on, the framework connects the stored login, and a   *)
(* call whose context is cancelled fails (once its request is written: see *)
(* SessionCalls).                                                          *)
Fairness ==
  /\ WF_vars(\E t \in Callers : Boot(t))
  /\ \A t \in Callers :
       /\ WF_vars(Connect(t) \/ StartGo(t) \/ DisconnectCancel(t))
       /\ WF_vars(\E l \in Loops : StartSwap(t, l))
  /\ \A l \in Loops :
       /\ WF_vars(LoopBegin(l) \/ ResyncOffline(l) \/ ResyncStart(l) \/ FetchEnd(l)
                    \/ FetchOffline(l) \/ \E g \in Ghosts : FetchCall(l, g))
       /\ WF_vars(\E g \in Ghosts : l \in cancelled /\ FetchFail(l, g))
       \* select chooses at random: Done is not passed over for ever.
       /\ SF_vars(LoopStop(l))
       /\ WF_vars(LoopTick(l))

(* NapCatQQ answers a request in time, while the connection is there: a    *)
(* call that was cut off gets no answer, and does not fail.                *)
PeerAnswers ==
  \A l \in Loops :
    WF_vars(l \notin cutoff /\ \E g \in Ghosts : FetchDone(l, g) \/ FetchFail(l, g))

FairSpec == Spec /\ Fairness
AnsweringSpec == FairSpec /\ PeerAnswers

-----------------------------------------------------------------------------
(* Properties. *)

Live(l) == loop[l] \notin {"unused", "done"} /\ l \notin cancelled

(* Who can cancel a loop: stopLoops (None), or the callers that have it.   *)
Owners(l) == {t \in Callers : old[t] = l} \cup {o \in {None} : stop = l}

(* A loop that nothing has cancelled can still be cancelled: stopLoops or  *)
(* one caller about to cancel it has it, and no two of them.  So when no   *)
(* Connect or Disconnect is under way there is one such loop at most, and  *)
(* none after a last Disconnect.                                           *)
LiveLoopHasOneOwner ==
  \A l \in Loops : Live(l) => \E o \in Callers \cup {None} : Owners(l) = {o}

(* A cancelled loop ends, even in the middle of its calls. *)
CancelledLoopStops ==
  \A l \in Loops : l \in cancelled ~> loop[l] = "done"

(* A queued item does not stay in the queue for good while a loop lives,   *)
(* unless the loop has lost its session in the middle of a call: then it   *)
(* waits for ever (CutOffLoopsWait in Client_proof).                       *)
QueuedIsTaken ==
  \A i \in Items, l \in Loops :
    (i \in queue /\ Live(l)) ~> (i \notin queue \/ ~Live(l) \/ l \in cutoff)

Alone(l) == \A k \in Loops \ {l} : loop[k] = "unused"

(* A loop that had none before it does not ask for a ghost again within    *)
(* resyncMinInterval, even if the ghost was queued a second time before    *)
(* its first answer.  (A loop that was cancelled in the middle of a call   *)
(* and its successor may both ask for the same ghost.)                     *)
GhostsSpaced ==
  [][\A l \in Loops, g \in Ghosts :
       Alone(l) /\ FetchDone(l, g) => g \notin recent]_vars

(* A stored login whose NapCatQQ connects to the bridge and stays          *)
(* connected gets its loops.                                               *)
LoginGetsLoops == (<>[]up) => <>(\E l \in Loops : Live(l))
=============================================================================
