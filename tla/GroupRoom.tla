------------------------------ MODULE GroupRoom ------------------------------
(***************************************************************************)
(* The state of a room: its members with their power levels, its name,     *)
(* topic, avatar, mute and read marker, and what becomes of a change made  *)
(* in Matrix (the handlers of pkg/connector/handle_matrix.go after those   *)
(* of messages) while QQ changes too and getGroupChatInfo                  *)
(* (pkg/connector/chatinfo.go) brings QQ's members back.                   *)
(*                                                                         *)
(* Matrix has made the change when the portal gets to know of it.  The     *)
(* portal, which belongs to the bridge framework and is external, takes    *)
(* one event at a time, a resync of the resync loop among them, and its    *)
(* handler asks QQ for the same by one call or several.  Each call may be  *)
(* carried out or refused, and its answer may be lost or late, so that a   *)
(* call that has failed may still have its effect, then or afterwards.     *)
(* The session may be there or not whenever a handler looks for it.        *)
(***************************************************************************)
EXTENDS Naturals, Sequences, FiniteSets

CONSTANTS
  Members,    \* QQ numbers, which Matrix has as ghosts or logins
  Guests,     \* Matrix users that are neither
  Self,       \* the account of the client
  Levels,     \* power levels that are set in Matrix
  Values,     \* values of the settings
  Empty,      \* the empty one
  MaxEvents,  \* bound: changes made in Matrix
  MaxUsers,   \* bound: users in one power level event
  MaxQQ       \* bound: changes made in QQ

(* What a room can be told to be; the values stand for names, pictures,    *)
(* messages and switches alike.                                            *)
Settings == {"name", "topic", "avatar", "mute", "read", "typing", "nickname", "portrait"}

ASSUME GroupRoomAssumption ==
  /\ Self \in Members
  /\ Members \cap (Guests \cup Settings) = {} /\ Guests \cap Settings = {}
  /\ IsFiniteSet(Members)
  /\ Levels \subseteq Nat
  /\ Empty \in Values
  /\ MaxEvents \in Nat /\ MaxUsers \in Nat /\ MaxQQ \in Nat

powerDefault    == 0
powerAdmin      == 50
powerSuperAdmin == 75

VARIABLES
  group,    \* PortalMetadata.ChatType is ChatGroup, not ChatPrivate
  role,     \* in QQ: the role of each member, or "out"
  setting,  \* in QQ: the settings
  level,    \* in Matrix: power levels
  joined,   \* in Matrix: who is in the room
  wanted,   \* in Matrix: the settings
  queue,    \* what the portal has to handle
  handler,  \* the handler at work: the calls it has left, the first one made
  snap,     \* the roles a resync has fetched
  late,     \* calls given up that QQ has not carried out yet
  touched,  \* members that changed in QQ since then (history)
  dirty,    \* what may be out of step (history)
  events, changes

vars == <<group, role, setting, level, joined, wanted, queue, handler, snap, late,
          touched, dirty, events, changes>>
qq     == <<role, setting>>
matrix == <<level, joined, wanted, events>>

Everybody == Members \cup Guests
Items     == Members \cup Settings
Roles     == {"owner", "admin", "member", "out"}

(* A call, by what it changes and to what. *)
CallRecords == [item: Members, value: {"admin", "member", "out"}]
                 \cup [item: Settings, value: Values]

Idle == [kind |-> "none", todo |-> <<>>, stage |-> "none"]

TypeOK ==
  /\ group \in BOOLEAN
  /\ role \in [Members -> Roles] /\ snap \in [Members -> Roles]
  /\ setting \in [Settings -> Values] /\ wanted \in [Settings -> Values]
  /\ level \in [Everybody -> Nat] /\ joined \subseteq Everybody
  /\ handler.todo \in Seq(CallRecords)
  /\ handler.stage \in {"asked", "done"} <=> handler.todo # <<>>
  /\ late \subseteq CallRecords
  /\ touched \subseteq Members /\ dirty \subseteq Items
  /\ events \in 0..MaxEvents /\ changes \in 0..MaxQQ

-----------------------------------------------------------------------------
(* Roles and levels: getGroupChatInfo. *)

LevelOf(r) == CASE r = "owner" -> powerSuperAdmin
                [] r = "admin" -> powerAdmin
                [] OTHER       -> powerDefault

Nothing    == [m \in Members |-> "out"]
Present(r) == {m \in Members : r[m] # "out"}

Init ==
  /\ group \in BOOLEAN
  /\ IF group THEN /\ role \in [Members -> Roles] /\ role[Self] # "out"
                   /\ \A m, n \in Members : role[m] = "owner" /\ role[n] = "owner" => m = n
     ELSE role = Nothing
  /\ snap = Nothing
  /\ level = [p \in Everybody |-> IF p \in Members THEN LevelOf(role[p]) ELSE powerDefault]
  /\ joined = Present(role) \cup Guests
  /\ setting = [k \in Settings |-> Empty] /\ wanted = setting
  /\ queue = <<>> /\ handler = Idle
  /\ late = {} /\ touched = {} /\ dirty = {}
  /\ events = 0 /\ changes = 0

-----------------------------------------------------------------------------
(* The room in Matrix.  An event has its kind and what it changes. *)

Post(e) ==
  /\ events < MaxEvents
  /\ events' = events + 1
  /\ queue' = Append(queue, e)
  /\ UNCHANGED <<group, qq, handler, snap, late, touched, dirty, changes>>

(* One power level event may change several users. *)
PostLevels(new) ==
  /\ \A p \in DOMAIN new : new[p] # level[p]
  /\ Post([kind |-> "levels",
           users |-> [p \in DOMAIN new |-> [orig |-> level[p], new |-> new[p]]]])
  /\ level' = [p \in Everybody |-> IF p \in DOMAIN new THEN new[p] ELSE level[p]]
  /\ UNCHANGED <<joined, wanted>>

(* A kick or a ban, a leave when it is one's own; of somebody who is not   *)
(* there, the end of a ban.                                                *)
PostLeave(p) ==
  /\ Post([kind |-> "leave", who |-> p])
  /\ joined' = joined \ {p}
  /\ UNCHANGED <<level, wanted>>

(* A join, or an invitation, which counts as being in the room.            *)
PostJoin(p) ==
  /\ p \notin joined
  /\ Post([kind |-> "join", who |-> p])
  /\ joined' = joined \cup {p}
  /\ UNCHANGED <<level, wanted>>

PostSetting(kind, v) ==
  LET changed == IF kind = "profile" THEN {"nickname", "portrait"} ELSE {kind}
  IN  /\ \E k \in changed : wanted[k] # v
      /\ Post([kind |-> kind, value |-> v])
      /\ wanted' = [k \in Settings |-> IF k \in changed THEN v ELSE wanted[k]]
      /\ UNCHANGED <<level, joined>>

(* The ChatResync of the resync loop: see ClientLoops. *)
QueueResync ==
  /\ group /\ \A i \in DOMAIN queue : queue[i].kind # "resync"
  /\ queue' = Append(queue, [kind |-> "resync"])
  /\ UNCHANGED <<group, qq, matrix, handler, snap, late, touched, dirty, changes>>

-----------------------------------------------------------------------------
(* The handlers: the calls that each one makes of event e. *)

Set(k, v) == [item |-> k, value |-> v]

(* What event e is about, as QQ has it: ghostOrLoginID. *)
ItemsOf(e) ==
  CASE e.kind = "levels"  -> DOMAIN e.users \cap Members
    [] e.kind \in {"leave", "join"} -> {e.who} \cap Members
    [] e.kind = "profile" -> {"nickname", "portrait"}
    [] e.kind = "resync"  -> {}
    [] OTHER              -> {e.kind}

(* Fault: a user whose level stays on one side of powerAdmin is set too. *)
AdminCallsAll(e) ==
  {Set(p, IF e.users[p].new >= powerAdmin THEN "admin" ELSE "member") :
     p \in {q \in ItemsOf(e) : e.users[q].orig # e.users[q].new}}

(* Fault: an admin is one above powerAdmin. *)
AdminCallsAbove(e) ==
  {Set(p, IF e.users[p].new > powerAdmin THEN "admin" ELSE "member") :
     p \in {q \in ItemsOf(e) :
              (e.users[q].orig > powerAdmin) # (e.users[q].new > powerAdmin)}}

(* Fault: the users are not looked up. *)
AdminCallsAnybody(e) ==
  {Set(p, IF e.users[p].new >= powerAdmin THEN "admin" ELSE "member") :
     p \in {q \in DOMAIN e.users :
              (e.users[q].orig >= powerAdmin) # (e.users[q].new >= powerAdmin)}}

(* HandleMatrixPowerLevels: SetGroupAdmin of the users that become or      *)
(* cease to be admins.                                                     *)
AdminCalls(e) ==
  {Set(p, IF e.users[p].new >= powerAdmin THEN "admin" ELSE "member") :
     p \in {q \in ItemsOf(e) :
              (e.users[q].orig >= powerAdmin) # (e.users[q].new >= powerAdmin)}}

Orders(S) == {s \in [1..Cardinality(S) -> S] : \A x \in S : \E i \in DOMAIN s : s[i] = x}

(* A download may fail before the call it is for. *)
Todos(e) ==
  CASE e.kind = "levels" -> IF group THEN Orders(AdminCalls(e)) ELSE {<<>>}
    [] e.kind = "leave" ->
         IF group THEN Orders({Set(p, "out") : p \in ItemsOf(e)}) ELSE {<<>>}
    [] e.kind = "join" -> {<<>>}  \* a change to leave or ban only
    [] e.kind \in {"name", "mute"} -> IF group THEN {<<Set(e.kind, e.value)>>} ELSE {<<>>}
    [] e.kind = "topic" ->
         IF group /\ e.value # Empty THEN {<<Set("topic", e.value)>>} ELSE {<<>>}
    [] e.kind = "avatar" -> IF group THEN {<<>>, <<Set("avatar", e.value)>>} ELSE {<<>>}
    [] e.kind = "typing" -> IF group THEN {<<>>} ELSE {<<Set("typing", e.value)>>}
    [] e.kind = "profile" ->
         LET name == Set("nickname", e.value)
         IN  IF group \/ e.value = Empty THEN {<<>>}
             ELSE {<<name>>, <<name, Set("portrait", e.value)>>}
    [] e.kind = "read" ->  \* the message, if it has an id of QQ's, or else the chat
         {<<Set("read", e.value)>>, <<Set("read", e.value), Set("read", e.value)>>}

Called(todo) == {todo[i].item : i \in DOMAIN todo}

(* The handler goes on with the calls in todo. *)
GoOn(kind, todo) ==
  handler' = IF todo = <<>> THEN Idle
             ELSE [kind |-> kind, todo |-> todo, stage |-> "asked"]

(* session() = nil: the resync fails too, as it does when a call fails.   *)
HandleOffline ==
  /\ handler = Idle /\ queue # <<>>
  /\ queue' = Tail(queue)
  /\ dirty' = dirty \cup ItemsOf(Head(queue))
  /\ UNCHANGED <<group, qq, matrix, handler, snap, late, touched, changes>>

(* What QQ is to do of event e, but is not told by the calls in todo.  A   *)
(* level change that makes no call leaves the role what it should be.      *)
Untold(e, todo) == IF e.kind \in {"levels", "leave"} THEN {} ELSE ItemsOf(e) \ Called(todo)

(* A setting or a join that no call is made for is out of step: QQ stays   *)
(* what it was.                                                            *)
Handle ==
  /\ handler = Idle /\ queue # <<>>
  /\ Head(queue).kind # "resync"
  /\ queue' = Tail(queue)
  /\ \E todo \in Todos(Head(queue)) :
       /\ GoOn(Head(queue).kind, todo)
       /\ dirty' = dirty \cup Untold(Head(queue), todo)
  /\ UNCHANGED <<group, qq, matrix, snap, late, touched, changes>>

(* The call returns.  A read receipt is content with one call. *)
Return ==
  /\ handler.stage = "done"
  /\ GoOn(handler.kind, IF handler.kind = "read" THEN <<>> ELSE Tail(handler.todo))
  /\ UNCHANGED <<group, qq, matrix, queue, snap, late, touched, dirty, changes>>

(* The call fails: refused, or given up before or after QQ carried it out. *)
(* The handlers of receipts and profiles go on, the others give up, also   *)
(* the calls they have not made.                                           *)
Fail ==
  /\ handler.todo # <<>>
  /\ LET rest == IF handler.kind \in {"read", "profile"} THEN Tail(handler.todo) ELSE <<>>
     IN  /\ GoOn(handler.kind, rest)
         /\ dirty' = dirty \cup (Called(handler.todo) \ Called(rest))
  /\ \/ late' = late
     \/ handler.stage = "asked" /\ late' = late \cup {Head(handler.todo)}
  /\ UNCHANGED <<group, qq, matrix, queue, snap, touched, changes>>

-----------------------------------------------------------------------------
(* The resync. *)

(* GetGroupInfo and GetGroupMemberList. *)
ResyncFetch ==
  /\ handler = Idle /\ queue # <<>> /\ Head(queue).kind = "resync"
  /\ role[Self] # "out"
  /\ queue' = Tail(queue)
  /\ snap' = role
  /\ handler' = [Idle EXCEPT !.kind = "resync"]
  /\ touched' = {}
  /\ UNCHANGED <<group, qq, matrix, late, dirty, changes>>

(* The portal makes the members those of the info, and the name, if it     *)
(* finds that changed.  What has changed since the info was fetched, in QQ *)
(* or in Matrix, is out of step.                                           *)
ResyncApply ==
  /\ handler.kind = "resync"
  /\ handler' = Idle
  /\ level' = [p \in Everybody |-> IF p \in Present(snap) THEN LevelOf(snap[p]) ELSE level[p]]
  /\ joined' = Present(snap) \cup (joined \cap Guests)
  /\ wanted' \in {wanted, [wanted EXCEPT !["name"] = setting["name"]]}
  /\ dirty' = (dirty \cap Settings) \cup touched
                \cup UNION {ItemsOf(queue[i]) : i \in DOMAIN queue}
  /\ touched' = {}
  /\ snap' = Nothing
  /\ UNCHANGED <<group, qq, events, queue, late, changes>>

-----------------------------------------------------------------------------
(* QQ. *)

(* Roles are a matter of members; the owner can neither be removed nor     *)
(* made an admin; who has left cannot do anything.                         *)
Execute(c) ==
  IF c.item \in Members
    THEN /\ role[Self] # "out" /\ role[c.item] \in {"admin", "member"}
         /\ role' = [role EXCEPT ![c.item] = c.value]
         /\ touched' = IF handler.kind = "resync" THEN touched \cup {c.item} ELSE {}
         /\ UNCHANGED setting
    ELSE /\ setting' = [setting EXCEPT ![c.item] = c.value]
         /\ UNCHANGED <<role, touched>>

CarryOut ==
  /\ handler.stage = "asked"
  /\ Execute(Head(handler.todo))
  /\ handler' = [handler EXCEPT !.stage = "done"]
  /\ UNCHANGED <<group, matrix, queue, snap, late, dirty, changes>>

CarryOutLate ==
  /\ \E c \in late : Execute(c) /\ late' = late \ {c} /\ dirty' = dirty \cup {c.item}
  /\ UNCHANGED <<group, matrix, queue, handler, snap, changes>>

(* Somebody else promotes, demotes, removes or admits a member. *)
QQChange(m, r) ==
  /\ group /\ changes < MaxQQ /\ role[m] # "owner" /\ r # role[m]
  /\ role[m] = "out" => r = "member"
  /\ changes' = changes + 1
  /\ role' = [role EXCEPT ![m] = r]
  /\ dirty' = dirty \cup {m}
  /\ touched' = IF handler.kind = "resync" THEN touched \cup {m} ELSE {}
  /\ UNCHANGED <<group, setting, matrix, queue, handler, snap, late>>

-----------------------------------------------------------------------------
PostSome ==
  \/ \E T \in SUBSET Everybody : \E new \in [T -> Levels] :
       T # {} /\ Cardinality(T) <= MaxUsers /\ PostLevels(new)
  \/ \E p \in Everybody : PostLeave(p) \/ PostJoin(p)
  \/ \E k \in {"name", "topic", "avatar", "mute", "read", "typing", "profile"}, v \in Values :
       PostSetting(k, v)

HandlerStep == HandleOffline \/ Handle \/ Return \/ Fail \/ ResyncFetch \/ ResyncApply

Next ==
  \/ PostSome \/ QueueResync
  \/ HandlerStep
  \/ CarryOut \/ CarryOutLate
  \/ \E m \in Members, r \in {"admin", "member", "out"} : QQChange(m, r)

Spec == Init /\ [][Next]_vars

-----------------------------------------------------------------------------
(* Properties. *)

MemberInStep(m) ==
  /\ m \in joined <=> role[m] # "out"
  /\ role[m] # "out" => (level[m] >= powerAdmin <=> role[m] \in {"owner", "admin"})

(* When nothing is under way, room and group agree: who is in it, who is   *)
(* an admin, and what it was set to, in whatever order changes of several  *)
(* users, partial failures and resyncs came.  Out of step is only what a   *)
(* failure has put so, or QQ itself, or a join in Matrix, of which QQ is   *)
(* not told; a resync that nothing crosses puts the members right.         *)
InStep ==
  queue = <<>> /\ handler = Idle /\ late = {} =>
    /\ group => \A m \in Members \ dirty : MemberInStep(m)
    /\ \A k \in Settings \ dirty : setting[k] = wanted[k]

(* A power level change makes no call for members whose role it leaves     *)
(* alone: SetGroupAdmin is asked for only if it changes something in QQ    *)
(* (of people who are there).                                              *)
AdminCallsChange ==
  handler.stage = "asked" =>
    LET c == Head(handler.todo)
    IN  c.item \in Present(role) \ dirty /\ c.value # "out" =>
          (c.value = "admin" <=> role[c.item] = "member")
=============================================================================
