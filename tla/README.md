# A verification of matrix-napcatqq

matrix-napcatqq is a bridge between Matrix and QQ.  NapCatQQ instances, one per
QQ account, connect to it with reverse WebSockets and speak OneBot 11; the
Matrix side is mautrix-go's `bridgev2` framework, which calls the connector and
takes its events.  This directory models the parts of the bridge whose
correctness depends on the order of things or on what several pieces of code
agree on: sessions and calls, routing, the background loops, how chats get
rooms, what Matrix events do in QQ, the conversion of messages, and the history
backfill.  Paths below are relative to the repository; line numbers are
those of the Go files.

## 1. The system

| Part | Code | State | Operations |
|---|---|---|---|
| OneBot server | `pkg/onebot/server.go` 28-184 | `sessions` (account to session) under `sessionsMu` | accept, `identifySession`, `removeSession`, `GetSession`, `Stop` |
| Session | `server.go` 186-334 | connection, `self`, `closed`, `pending`, `writeMu`, `seq` | `readLoop`, `Call`, `Close` |
| Event handlers | `pkg/connector/handle_qq.go`, `events.go`, `id.go`, `pkg/qqid/id.go` | none of their own | OneBot event to remote event of a portal |
| Client | `pkg/connector/client.go`, `login.go` | `stopLoops` | `Connect`, `Disconnect`, `LogoutRemote`, login, `session()` |
| Resync loop | `pkg/connector/chatinfo.go` 182-329 | `resyncQueue`, `nextResync`, the `LastSync` of ghosts and portals | enqueue, timer, refresh |
| Contact sync, chat info | `history.go` 23-100, 195-210, `chatinfo.go` 35-180 | `PortalMetadata.ChatType` | `syncAllContacts`, `GetChatInfo` |
| Matrix handlers | `pkg/connector/handle_matrix.go` | none of their own (ids in the framework's database) | messages, removals, reactions, receipts, typing, room and member changes, mute |
| History backfill | `history.go` 102-193 | the framework's cursor and anchor | `FetchMessages` |
| Message conversion | `pkg/msgconv` | none | `ToQQ`, `ToMatrix` |
| Commands, configuration, data types | `commands.go`, `config.go`, `capabilities.go`, `types.go`, ... | none | |

How they interact.  Every accepted connection starts two goroutines: `readLoop`
and `identifySession`.  `identifySession` makes a `Call`, whose response
`readLoop` delivers through a channel found by its echo; then it registers the
session.  `readLoop` calls the event handler synchronously: a handler that
blocks, or a channel that is full, holds up all responses and events of the
account.  Handlers put remote events into the queues of the framework's
portals; each portal handles its Matrix and remote events one at a time and
calls back into the connector (`GetChatInfo`, `ConvertMessage`, `HandleMatrix*`,
`FetchMessages`).  These make `Call`s on the session that `QQClient.session()`
finds at that moment.  The framework calls `Connect` and `Disconnect` from its
own goroutines; `Connect` starts a resync loop and a contact sync, which live
until `stopLoops` cancels their context.

What is hard about it.  A session can be closed by four kinds of goroutines
while a fifth is registering it; its mutex is not reentrant; the map and the
closed flag are read in two steps.  Responses may be late, repeated or never
come, and the caller may be gone.  QQ reports what the bridge itself has sent,
before or after the answer.  Calls may have their effect and fail all the same.
Metadata, `LastSync` times and cursors are read in one step and used in a later
one.  `PROJECT.json` lists these hazards with their lines and the properties
that would catch them.

What makes each part correct:

- server: one session per account, its own; an open session is not forgotten;
  a closed one does not come back; lookups end, and are not stale;
- session: an answer goes to the call it answers; `readLoop` is never held up
  by an answer; nothing stays pending; one writer; a deadline is kept;
- handlers: an event goes to the login of its account and to the room of its
  chat; recalls and likes meet the message they name;
- client: a running loop can be stopped, by one owner; a stopped one ends;
  what is queued is refreshed, and not too often;
- contact sync: chats get rooms, and rooms know what kind of chat they are;
- Matrix handlers: room and QQ chat show the same messages and likes, each once;
  room and group agree on who is in them, who is an admin, and what they are
  set to;
- conversion: what was typed arrives, nothing QQ sends is left out;
- backfill: it ends, with the whole history and no message twice.

## 2. The modules

| Module | Models | Abstract level or composition |
|---|---|---|
| `AccountSessions` | what the server promises about sessions | abstract specification |
| `SessionRegistry` | `Server`, `Close`, `identifySession`, `Stop`, `session()` | implements `AccountSessions` |
| `CallContract` | what a call promises to the code that makes it | abstract specification |
| `SessionCalls` | `Call` and the response half of `readLoop` | implements `CallContract` |
| `EventRouting` | the event half of `readLoop`, `handleOneBotEvent` and all its handlers | |
| `ClientLoops` | `Connect`, `Disconnect`, login, `ghostResyncLoop` and its queue | uses "session() # nil" as `SessionRegistry` models it |
| `ChatSync` | `syncAllContacts`, `GetChatInfo`, how portals get rooms | takes group resyncs from `ClientLoops` |
| `MatrixPortal` | one room from Matrix: messages, removals, reactions, and their echoes | takes failing and late calls from `SessionCalls`, ids from `EventRouting` |
| `GroupRoom` | the other Matrix handlers, members and settings of one room, and `getGroupChatInfo` | takes failing and late calls from `SessionCalls`, resyncs from `ClientLoops` |
| `Conversion` | `ToQQ` and `ToMatrix`, one message | takes reply ids from `EventRouting` |
| `Backfill` | `FetchMessages` and `historyToBackfill`, page by page | takes the chat type from `ChatSync` |
| `SessionRegistry_proof`, `SessionCalls_proof`, `Client_proof`, `EventRouting_proof`, `MatrixPortal_proof`, `GroupRoom_proof`, `Backfill_proof`, `Conversion_proof` | the theorems about the module they extend | the first two also prove the refinements; `Client_proof` is about `ClientLoops` and `ChatSync`, whose names differ for that |
| `MC*` | the small instances for TLC | |

Definitions have the names of the Go functions where they stand for one.  A
definition that a comment calls a fault is a plausible bug of the definition
after it; nothing refers to it except the entries of `PROJECT.json` under
"mutants", which put it in the place of the correct one to see that the
property would notice.

**SessionRegistry.**  A goroutine is a pair such as `<<"reader", s>>`; `pc` is
where it is, and `at`, `victim` are a frame for its call of `Session.Close`.
`mu` is the goroutine that holds `sessionsMu` over several steps; a critical
section that only reads or writes the map is one step, enabled while `mu` is
free.  `IdentLock` with an old session in the map calls `Close` with `mu` held,
as `server.go:165` does, and `StopSweep` as `:95` does.  `Reports[s]` is what
`get_login_info` may answer on connection `s`.

**SessionCalls.**  `pending` is the `sync.Map`, `chan` the channel (capacity 1)
of each call, `writer` the holder of `writeMu`, `toPeer` and `toBridge` the two
directions of the connection.  Callers in `Timed` have a deadline, which may
pass at any time.  The peer may answer a request it has received late, in any
order, repeatedly or not at all.  For `CallContract`, a goroutine's call is open
while `pc` is not `idle`, what it was answered is the call its last response
belongs to, the calls made are the first `nth` of each goroutine, and those the
peer has read are executed.

**EventRouting.**  An event is a record of the fields the handlers read.
`ReadEvent` is the `self_id` check of `readLoop`, `Route` the second reading of
the session's account in `handleOneBotEvent`, with `SetSelf` of the
identification before, between or after them.  `Handle` is the dispatch, with
one operator per handler; it makes one remote event at most, which `Route`
appends to the queue of its portal.  `log` is a history of what was routed where.
The id that `handleOneBotRequest` makes up (`request-<flag>-<time>`) is assumed
not to be a message id of QQ's, which are numbers.

**ClientLoops.**  `stop` is the atomic pointer `stopLoops`; `StartSwap` and
`StartGo` are its swap and the cancelling of what was swapped out.  A loop's
`held` is what it took from the queue.  `stamped` are the items whose
`LastSync` is recent, `recent` those that really were refreshed recently.
`FetchCall` makes the call for one ghost (`asking`), and `FetchDone` and
`FetchFail` are its outcomes.  A session that is lost leaves the calls made on it
without an answer (`cutoff`), whatever session comes next; of those only the
cancelling of the loop is a way out.  The framework boots a stored login in a
goroutine of its own (`Starter`); the other callers connect, disconnect and log in.

**ChatSync.**  Each portal has a queue of the kinds of its events.  `Asked` is
the chat type the info is asked for: message events bring it, a `ChatResync`
takes it from the portal's metadata.  `Info` are the types an info may record.
`lost` is a history of the groups whose latest message found no info.

**MatrixPortal.**  `chat` is the QQ chat, `db` the ids the framework keeps for
Matrix messages, `copies` the messages it shows as QQ's.  A handler makes one
call; `CarryOut`, `Refuse` and `CallError` in any combination, and `late`, give
a call that fails before, after or without its effect.

**GroupRoom.**  `role` and `setting` are QQ's, `level`, `joined` and `wanted`
Matrix's.  Matrix has made a change when the portal gets it; `Todos` are the
calls its handler makes, `handler` what is left of them.  `CarryOut` and `Fail`
in any combination, and `late`, are a call with its outcomes; `Fail` also leaves
out the calls the handler no longer makes.  `ResyncFetch` and `ResyncApply` are
the two halves of a resync, with anything in between.  Two history variables
say what the properties may expect: `dirty` what a failure, QQ itself or a
crossing has put out of step, or a change that QQ is not told of (`Untold`),
such as a join in Matrix, for which `HandleMatrixMembership` makes no call;
`touched` who changed in QQ since a resync fetched the members.  Names, pictures and switches are one kind of value.

**Conversion.**  Text is a sequence of tokens: words, mentions as Matrix has
them (`pill`), and literal `@` numbers (`at`), which is the form mentions take
on the way.  Each token becomes a segment of its own, and each segment of a
message has its place in the text of every part that is made of it, `Blank`
where the converters write nothing; the parts are a function of the places of
the segments they are made of.  So what the Go code does in loops over segments
and over a growing string is said place by place, and neighbouring texts, which
the code makes one segment of, are as many as their words.  `Begin` says which QQ number another one begins with: the
regular expression of `from_matrix.go:71` and the `ReplaceAll` of `from_qq.go:364`
do not see where a number ends.  A message goes from Matrix to QQ (`Type`, `Send`) and,
as the receiver's bridge gets the very segments, on to a room (`Convert`); or
it comes from QQ (`Receive`).  `Convert` chooses which downloads fail, what a
forwarded chat contains, whose ghosts cannot be looked up (`unknown`: their
mentions are skipped), and whether there is a session; without one, a
conversion that needs a call panics.

**Backfill.**  The i-th message of the chat has time i.  `FetchCall` computes
`message_seq` and the count; `FetchDone` gets a page, oldest or newest first,
with or without the message asked from, sorts it in place (`SortByTime`), keeps
what has an id (`HistoryToBackfill`: a set, since the times of messages differ),
and computes cursor and `HasMore`.  A call whose session is lost before the
answer is never answered: the backfill is `cut`, for good.

### The framework and the peer

Neither is in the repository; their actions are marked external in
`PROJECT.json`.  The models assume of `bridgev2`: a portal handles its events
one at a time, in order; a message id is in a room once; a remote message for a
portal without a room makes one from the event's `GetChatInfo` and is dropped
if that fails; a resync gives the room the members and levels of its info;
`Connect` is called for stored logins when the bridge starts; backfill pages are asked for with the last cursor until `HasMore` is false.  Of
NapCatQQ: it reads its connection; message ids are unique in a chat; events are
sent in the order of what they report.  Nothing else: it need not connect, stay
or answer, except where a fairness condition says so.

## 3. The runs

Run one with `tlc -workers 2 -config X.cfg M`.  "Violation" runs show a place
where the code does not do what the repository says it does (section 5).

| Run | Configuration | Bounds | Shows |
|---|---|---|---|
| `registry` | `SessionRegistry.cfg` | 2 connections, 2 accounts, 1 lookup, stop | all safety of the registry, the refinement, liveness up to the self-lock |
| `registry_reconnect` | `SessionRegistryReconnect.cfg` | the same, no stop | violation of `LookupReturns` |
| `calls` | `SessionCalls.cfg` | 2 callers with 2 calls, 1 event, 1 packet per direction in the buffers | own answers, `CallContract`, free reader, no leak, deadlines |
| `routing` | `EventRouting.cfg` | any 3 of 14 events, 2 accounts | rooms and logins of events, recalls and likes meet their message |
| `loops` | `ClientLoops.cfg` | the starting goroutine, 2 other callers, 2 loops, 1 ghost | one owner per live loop, loops end, queue is served while no call is cut off, spacing |
| `loops_startup` | `ClientLoopsStartup.cfg` | the starting goroutine, 1 loop | violation of `LoginGetsLoops` |
| `chat_sync` | `ChatSync.cfg` | a friend, a group, 2 events | rooms know their type, messages make rooms unless a group's info fails |
| `chat_sync_contacts` | `ChatSyncContacts.cfg` | no events | violation of `ContactsGetRooms` |
| `matrix_portal` | `MatrixPortal.cfg` | 2 Matrix and 2 QQ messages, 2 changes | one copy, room and chat in step |
| `group_room` | `GroupRoom.cfg` | the account, a member, a guest; 2 changes in Matrix (joins among them), of up to 2 users each, 1 in QQ; levels 0 and 50 | members, admins and settings in step, no admin call in vain |
| `conversion` | `Conversion.cfg` | 3 users; texts of up to 3 tokens, messages of up to 3 segments of 12 kinds | texts arrive as typed, nothing is left out, parts have ids of their own |
| `backfill` | `Backfill.cfg` | 6 old messages, any without an id, 2 new; pages of 2 and 3 | the backfill ends unless its call is cut off; complete, no message twice |

Why the bounds are enough.  The hazards of the registry are between two
sessions of one account, a lookup and a stop; a third session can only repeat
what the second does to the first, and the theorems hold for any number.  In
`SessionCalls` an answer can be mistaken only for that of an earlier call of
the same goroutine or of one of another one: two of each.  One packet per
direction loses no order, since the peer picks any request it has received.  In
`EventRouting` an interesting history is a message, something about it, and
the identification in between.  `ClientLoops`: two callers, a loop to replace
and one that replaces it, beside the goroutine that starts; a group beside the
ghost takes the same way through the queue (checked apart, with one caller less:
169,696 states, no error), and the theorems have any number.  In `ChatSync` a portal without a room meets an event
before, during and after the sync.  `MatrixPortal` needs two messages for an id
to be confused, and two changes for one to undo the other.  `Backfill` has
pages that end at, before and after the last message, and overlap.  In
`GroupRoom` the second of two changes meets what the first one left, in one
event for two users or in two events, with a change in QQ and resyncs between
them; level 50 is `powerAdmin`, the boundary, and a resync brings 75.
`Conversion` needs three tokens for a mention between a number and another
mention, and three segments for two pictures with a caption; users 1 and 12
have numbers that begin with each other.

`CHECK_DEADLOCK FALSE` is set where all the bounded work may be done (every
connection closed, every call made, the message shown), and in the registry
also because the code can really lock itself out.  In `ChatSync` the session can always change.

### Fairness

- The Go scheduler runs a goroutine that can run: weak fairness of its steps.
- `writeMu` is freed and taken again by others; a Go mutex does not starve a
  waiter: strong fairness of `CallLock`.
- `select` picks at random among what is ready, so the loop does not pass over
  `ctx.Done()` for ever: strong fairness of `LoopStop`.
- The login request of `identifySession` has a deadline (`request_timeout`):
  weak fairness of `IdentStep`, without anything about the peer.
- `loops` also assumes that NapCatQQ answers or refuses `get_stranger_info` while
  the session of the call is there (`PeerAnswers`).  Nothing is assumed of a call
  whose session is lost: it has no deadline and no one wakes it, so `QueuedIsTaken`
  leaves its loop out (section 5; `CutOffLoopsWait`).  A cancelled loop needs no
  such help: its call fails.
- `calls` assumes that the peer takes packets off the connection: `WriteJSON`
  has no deadline of its own.
- `backfill` assumes that the framework goes on and that not every call is
  refused.  An answer comes only to a call that still has its session; the
  property itself assumes that the session does not stay away, and counts a call
  that was cut off as the end, since `FetchMessages` then never returns.

Connections, losses, messages and the user are never fair.

## 4. What is proved

The theorems hold for all values of the constants, under the assumptions named
in the modules (such as `None` not being a session).  `tlapm M.tla` checks them.

**SessionRegistry_proof.**  The inductive invariant `IInv` adds to the type
invariant: a session that is not connected has no `identifySession`
(`NewIsIdle`); a registered session has identified itself as that account, by an
`identifySession` that is over (`RegisteredIsDone`); between `setSelf` and the
registration the local `selfID` is the session's (`SelfIsReply`); who is inside
a critical section holds the lock (`HoldsLock`); a goroutine about to write the
map has an old session that is closed or that it is about to close
(`OldIsClosed`); a session that is being taken apart is closed, by one
goroutine (`ClosingClosed`, `SingleCloser`); what a lookup has read is still in
the map or closed (`LookupOpenIsCurrent`).  `RegisteredUnderOwnAccount` alone is
not inductive: that a late `removeSession` or a second registration cannot harm
it needs to know who has finished.  From `IInv` follow type correctness, that
accounts have their own sessions, that lookups are current, and, step by step,
that the registry implements `AccountSessions`.  Two more facts are proved and
not run: a session is taken apart once (`CloseRunsOnce`), and what is registered
and open stays so (`OpenStaysRegistered`).

Of liveness, what needs no fairness is proved.  `sessionsMu` is held only by who
is inside a critical section (`HolderIsInside`), and the next step of that
goroutine waits for nothing but the lock; so the holder can go on (`HoldersGoOn`)
unless it is the one that waits (`LockedOut`).  That state is final: no other
step frees the lock, and no lookup gets past it (`LockOutIsFinal`).  Without
`Stop`, and with another account for each connection, `identifySession` never
finds an old session and nobody is locked out (`OnlyReconnectsLockOut`).

What `EventRouting` takes for granted about `SetSelf` is proved here: a session's
account is set once, to the one its peer reported, as only `identifySession`
sets it and has not been there before (`IdentityIsFixed`, from
`NotYetIdentified`).

**SessionCalls_proof.**  `IInv` says that calls under way have their own echo
and entry (`ActiveCalls`), one writer holds `writeMu` (`OneWriterHolds`), and
that packets in flight, the response `readLoop` holds, and every channel carry
the response of the call they are for (`FlightIsOwn`, `HandingIsOwn`,
`ChannelsAreOwn`).  Echoes are unique because they contain the session's
counter; a response is taken out of `pending` when it is handed over, so no
second one is, and the channel is empty.  That nobody else writes at the same
time (`WritesAreExclusive`) is proved, not run.  For the refinement of
`CallContract`, `RInv` adds that what comes back to the bridge was received by
the peer (`BackIsReceived`), so that an answered call is an executed one, and
that a call under way has no answer yet (`NoAnswerYet`).  A step of a caller
begins, answers or fails a call; a packet the peer reads executes one; all
others are stutters.

Of `TimedCallsReturn` two things need no fairness.  The answer to a call under
way is not lost on this side: until the call returns, its entry is pending, or
`readLoop` is about to send the answer, or the channel has it
(`NoAnswerIsLost`).  And who holds `writeMu` is inside `WriteJSON`
(`LockIsOnlyForWriting`), so a call waits for its turn only behind a write.  For
calls without a deadline there is no such property, and `CutOffCallsWait` says
why: one that has no answer when `readLoop` ends never returns.

**Client_proof, ClientLoops.**  A caller between swap and cancel holds the loop it
swapped out or in (`CallersHaveLoops`), no two owners hold the same one
(`OwnersDiffer`), and a live loop is held by somebody (`LiveAreOwned`).  The
spacing of refreshes (`GhostsSpaced`, an action property) has an invariant of
its own: a ghost that was refreshed recently has a `LastSync` that says so
(`RefreshedAreStamped`), and a loop without another one before it fetches none
of those (`LoneLoopsFetchStale`).  It is kept because only `FetchDone` stamps a
ghost, and a second loop that could do it is no longer unused.

Once no `Connect` or `Disconnect` is between its steps, only the loop of
`stopLoops` runs (`OneLoopRemains`).  Of `CancelledLoopStops` two things need no
fairness: a cancelled loop always has a step that does not wait for anybody
(`CancelledLoopsGoOn`, from `LoopsGoOn`: a loop that is made has the caller that
starts it, and one that fetches has only ghosts left to fetch), and it never
comes back, while its round of fetches only gets shorter (`RoundsEnd`).
Of `QueuedIsTaken` it is that a waiting or working loop has its timer set
(`TicksGoOn`), and that nothing leaves the queue but to a loop, which gets all of
it (`NothingQueuedIsLost`); the loop may then drop it (section 5).  Why the
property leaves out a loop whose call was cut off is `CutOffLoopsWait`: such a loop
makes no step until it is cancelled, whatever session comes.
`LeftIdleForGood` is finding 2 for any number of loops and callers.

**EventRouting_proof.**  `CheckedIsSelf` links the two readings of the account:
if `readLoop` knew it, the session's account is still that one when
`handleOneBotEvent` looks it up, and the event at hand names it or none
(`EventsGoHome`).  `RemoteFacts` says of every handler that it makes one event
at most, for which room and under which id.  `RecallsRemove` alone is not
inductive, as it speaks only of idle portals.  The invariant says of every
recall after which its message was not sent again that the message is `Gone`: out
of the room with none in the queue, or with a removal in the queue and no
message behind it.  A step of the portal shifts the queue, and a routed event
that is no such message adds to its end; both keep a message gone.  That a
notice or a request never brings it back rests on their made-up ids: a notice's
has another form, a request's is not a number (`RoutingAssumption`).  Room and
id of message and recall are the same by `ChatFacts`, in a group by the group, in
a private chat by login and user (`SameMessageSameRoom`), and so are those of a like.
`PrivateRooms` needs no more than types and the handlers.

**Client_proof, ChatSync.**  Metadata come with the room, in one step, with the type of
the portal, and are not changed afterwards (`MetaComesWithRoom`); a message whose
chat has no room waits in its portal's queue, or the info could not be had for
it or a later one (`MessageWaits`), which can only be a group's (`OnlyGroupsLose`).  The first needs that a `ChatResync`, which asks by metadata,
cannot get an info for a portal without a room.  For the same reason only events
that were queued as messages make rooms (`NoOthersMakeRooms`), which is finding
3 for all lists of contacts, friends and groups (`OnlyMessagesMakeRooms`).

**MatrixPortal_proof.**  `OneCopy` needs `OwnIds`, the ids in the room are those
of messages in the chat, and the answer to a send that has not returned has an
id the room does not have yet, though its report may have come; `RemoteMessage`
is held back by that call.  With `Apart` this is inductive.  That the room is in
step takes a second invariant, `Sync`, which says where each difference between
room and chat is under way:

- a message is sent before anything else is done about it (`SendsFirst`), and
  calls name the id the room has for it (`ChangesAreKnown`);
- what is recalled in the room is gone from the chat (`RecallsAreTrue`), and,
  without a loss, what is in the chat and not in the room, or gone and not yet
  taken out, is in a report on the connection or in the portal's queue, a recall
  behind its message (`AllReported`);
- without a missed answer, a removal made in Matrix is carried out, at work or
  in the queue (`RemovalsWait`);
- the last reaction in the queue is the room's (`LastLike`); with none in the
  queue the one at work is, or else the chat's (`LikesWait`).

When all queues are empty each of these leaves only "is carried out", which is
`InStep` and `LikesInStep`.

**GroupRoom_proof.**  For each setting that is not dirty the last change in the
queue is the wanted value; with none in the queue the handler's calls are to
make it, or QQ has it (`SettingsFollow`).  For each member that is not dirty the
level changes in the queue are a chain that ends at Matrix's level (`Chained`).
Its beginning, or the level if there is none, is what QQ's role comes to, or
what the call about it does (`LevelFollows`); each call about a role changes it
(`CallsChange`), and who is in QQ and not in the room is leaving, or the
event of a join in Matrix waits (`JoinedFollows`, `JoinWaits`); when that is handled
the member is dirty, so the agreement is about those who have not joined in Matrix
since a resync.
`AdminCallsChange` is a part of it and is not inductive alone: that a call will
change the role depends on the level the change started from.  A resync keeps it
because its snapshot is true of those who were not touched (`SnapIsFresh`).

**Backfill_proof.**  From the cursor on, the room has every old message that has
an id (`CursorCovers`); before the first page it has none of the history, so the
anchor is a new message and nothing lies between it and the history
(`NothingBefore`, `AnchorIsNew`); a page is asked for from the cursor or the
anchor, for two messages or more (`AskedIsNext`).  A page that is not full,
with all its messages identified, begins with message 1; so when `HasMore` ends
the backfill the whole history is covered, or a message without an id made the
page look short.  The order of the answer does not matter, as the sort puts
the oldest message first, which is a choice among the page's arrangements; that
the page's numbers have a least one is `NatMin`.  A page after which more are
asked for is full, and its messages have ids; so it begins before the message it
was asked from, and the cursor goes back with each such page (`PagesGoBack`, no
property of a run): only so many can follow, which is the part of `BackfillEnds`
that needs no fairness.
`OneIDPerMessage` follows from
`RoomIsOfChat`: the room's ids are the `message_id`s that live events also have.

**Conversion_proof.**  The invariant says what is where at each stage: nothing
before it is typed or received (`NoContentYet`), the segments are those that
`ToQQ` makes of the content (`SegsAreOfContent`), and what is shown is what
`ToMatrix` makes of the segments, with some downloads and lookups failed
(`ShownIsOfSegs`).  It is inductive at once; the work is in the lemmas about the
operators.  The parts have different ids (`PartsApart`) since the number of
media before a place is another one for each medium, by the cardinality of the
sets of places, and the caption has an id of its own, or is merged with the
only part.  Nothing is left out (`NothingLeftOut`): one case per way through
`ToMatrix`, each of which shows a segment by a part of its own or in its place in
a text; the number of a known user is a link because no other one fits (`Clear`).
`TextsArrive` goes both ways: `Split` finds each mention again, at its place, as
no other keyword fits (`Unambiguous`), what is only typed stays text, and
`AddMentions` makes of the segments what was typed, with a reply in front or not.

The invariants that are proved were model-checked first, on the instances of
section 3.

Only model-checked: all liveness (fairness and ENABLED are out of the prover's
reach), that is `LookupReturnsUnlessLockedOut`, `IdentifiedOrClosed`,
`LostSessionLeaves`, `TimedCallsReturn`, `CancelledLoopStops`, `QueuedIsTaken`
and `BackfillEnds`.  For want of induction over data nothing is left out, since
no module folds or recurses; that is why `Conversion` speaks of the places of
segments.

## 5. Findings

1. **A reconnect locks the server.**  `README.md` says that instances are routed
   by `self_id`.  When an account connects while its former session is open,
   `identifySession` (`server.go:165`) closes the old session with `sessionsMu`
   held, and `Close` takes the mutex in `removeSession`.  From then on
   `GetSession` blocks for every account (`registry_reconnect`).  `Stop`
   (`server.go:95`) does the same with any open session.  `LockedOut` in
   `SessionRegistry` is this condition, and the `registry` run shows that
   nothing else keeps a lookup from returning.  `LockOutIsFinal` and
   `OnlyReconnectsLockOut` prove it for any number of connections.
2. **A login that finds no session at start stays idle.**  `README.md` says to
   start the bridge first; `Connect` then gives up, and nothing calls it when
   the session arrives (`loops_startup`, `client.go:38`; proved in
   `LeftIdleForGood`).
3. **Contacts get no rooms.**  `syncAllContacts` asks for rooms with a
   `ChatResync` whose info depends on metadata that only a room has
   (`chat_sync_contacts`, `history.go:49`; proved in
   `OnlyMessagesMakeRooms`).

Observations that no run is kept for, because nothing in the repository says
otherwise or because they are plain from the code:

- `request_timeout` is used for identification only: a call NapCatQQ does not
  answer, made without a deadline, does not return, not even when the connection
  is lost: `Close` wakes no call (`server.go:314`, proved in `CutOffCallsWait`).
  So a resync loop hangs until it is cancelled when the session goes during a
  fetch (`chatinfo.go:321`, proved in `CutOffLoopsWait`), and a backfill for good
  (`history.go:126`, `cut` in `Backfill`).  A response whose data is null counts as
  success.
- `Stop` never returns while a session is open (`server.go:95`, finding 1), and
  does not know the connections that are still being identified.
- `resyncMinInterval` is compared with `PortalMetadata.LastSync`, which nothing
  sets: a group with messages is fetched at every tick (`chatinfo.go:275`).
  `doGhostResync` drops what it took from the queue when there is no session
  (`chatinfo.go:256`).
- An event that names another account, read before `setSelf` and routed after
  it, goes to the session's account: the check (`server.go:270`) and the routing
  (`handle_qq.go:20`) read the account separately.
- A session closed before it is registered stays in the map, closed, until the
  account connects again; harmless, as `session()` looks at the flag.
- A page with a message without an id ends the backfill early
  (`history.go:143`).
- A request is queued under an id that looks like a message's
  (`handle_qq.go:221`), and nobody can reply to a notice, whose id is made up.
- Members are applied as they were fetched: a level that Matrix has set, and
  that waits for its handler, is overwritten in Matrix, and then set in QQ
  (`chatinfo.go:120`; `dirty` in `GroupRoom`).
- Who joins or is invited in Matrix is not passed on to QQ, and no error says so:
  `HandleMatrixMembership` knows leaving and banning only (`handle_matrix.go:316`).
  Room and group differ until the next resync.
- The end of a ban makes a kick call: `HandleMatrixMembership` looks only at the
  new membership (`handle_matrix.go:316`).
- The handlers of name, topic and avatar do not set `Portal.Name`, `Topic` and
  `Avatar`, with which the framework compares the next change
  (`handle_matrix.go:225`).
- Messages of one second keep the order of the answer: were it newest first, the
  cursor would not be the oldest message (`history.go:151`).
- A place sent as a reply is shown as the place 0,0, since the conversion reads
  segment 0 (`from_qq.go:224`); a picture after a face is only named.  The parts
  of a forwarded chat have no ids of their own.
- A mention of the whole room is searched for as `@all` and written `@room`.
  Numbers that begin with each other are cut and replaced in the wrong place
  (`from_matrix.go:71`, `from_qq.go:364`).
- `AnyID` decodes numbers through `float64`: ids above 2^53 lose digits.

## 6. What is not modelled

- Configuration, capabilities, commands, avatars and JSON decoding: data without
  state.  Ids are model values or pairs, except where `Conversion` needs to know
  which number begins with which.
- Of conversion: formatting, file names, the text of cards, audio codecs,
  transfers of media (they may fail).
- Accepting and authorizing connections (`Start`, `handleWebSocket`): they only
  decide whether a connection exists.
- The wrappers of the API (`server.go:336-563`), which choose an action and its
  parameters.
- Times: timers and deadlines may pass at any time; only the order of message
  times is kept (`Backfill`).
- Infos of chats and users except type, members, levels and a group's name;
  `updateMemberDisplyname`, which only writes to Matrix; the emoji table.
- What the framework does before it calls a handler (permissions, comparing a
  name with the last one), and forward backfills.

## 7. Plan

Done, in this order of importance: sessions, calls, routing, loops, contact
sync, Matrix messages, backfill, members and settings, conversion; proofs of
every safety property of all nine, with both refinements, and of what needs no
fairness in the liveness of sessions, calls, loops and backfill.

Next: what one module assumes and another one provides.  `session()` of
`ClientLoops`, `ChatSync`, `MatrixPortal` and `Backfill` as a view of
`SessionRegistry`; failing and late calls as a view of `CallContract`.
