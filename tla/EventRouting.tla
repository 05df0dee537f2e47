---------------------------- MODULE EventRouting ----------------------------
(***************************************************************************)
(* From a NapCatQQ event to a Matrix portal: the event half of readLoop    *)
(* (pkg/onebot/server.go), handleOneBotEvent and its handlers              *)
(* (pkg/connector/handle_qq.go), and the remote events they queue          *)
(* (pkg/connector/events.go).                                              *)
(*                                                                         *)
(* One session reads events while its identifySession may still be under   *)
(* way.  An event passes the self_id check of readLoop, is routed to the   *)
(* login of an account, and becomes at most one remote event in the queue  *)
(* of a portal.  Portals belong to the bridge framework, which is not part *)
(* of the repository: each handles its queue in order, has a message with  *)
(* one id once, and takes out what a removal names.                        *)
(*                                                                         *)
(* Texts, timestamps and emoji are left out, except that a notice's time   *)
(* is part of its id.                                                      *)
(***************************************************************************)
EXTENDS Naturals, Sequences

CONSTANTS
  Accounts,   \* QQ numbers with a NapCatQQ instance
  Logins,     \* those bound to a Matrix user
  Ids,        \* QQ numbers of users and groups, the accounts included
  MsgIds,     \* message ids and request flags
  NoId,       \* the empty id
  Home,       \* the account this session identifies as
  Events,     \* the events NapCatQQ may send
  MaxEvents   \* bound: events read

(* An event: the fields that decide where it goes and what it is about. *)
EventRecords ==
  [self: Accounts \cup {NoId},
   post: {"meta_event", "message", "message_sent", "notice", "request"},
   type: STRING, sub: STRING,         \* message_type, notice_type or request_type
   content: BOOLEAN,                  \* the message has segments
   id: MsgIds \cup {NoId}, flag: MsgIds \cup {NoId},
   user: Ids \cup {NoId}, sender: Ids \cup {NoId}, operator: Ids \cup {NoId},
   target: Ids \cup {NoId}, group: Ids \cup {NoId}, time: Nat]

(* The id of the message that a request becomes. *)
RequestEventID(e) == <<"request", e.flag, e.time>>

ASSUME RoutingAssumption ==
  /\ Logins \subseteq Accounts
  /\ Accounts \subseteq Ids
  /\ Home \in Accounts
  /\ NoId \notin Ids \cup MsgIds
  /\ Events \subseteq EventRecords
  \* QQ's message ids are numbers.
  /\ \A e \in Events : RequestEventID(e) \notin MsgIds
  /\ MaxEvents \in Nat

(* A portal is the room of a chat; the rooms of private chats are each     *)
(* login's own, the receiver's.                                            *)
PortalKeys == (Ids \cup {NoId}) \X (Logins \cup {NoId})

VARIABLES
  self,      \* Session.self.UserID
  reader,    \* "read", or "route": an event has passed the self_id check
  evt,       \* that event
  checked,   \* what SelfID() was at the check (history)
  log,       \* the events routed to a login, with it (history)
  queue,     \* the remote events each portal has to handle
  live       \* the ids of the messages each portal has

vars == <<self, reader, evt, checked, log, queue, live>>

-----------------------------------------------------------------------------
(* Ids and keys: pkg/qqid/id.go, pkg/connector/id.go. *)

MakeMessageID(chat, id)       == <<"msg", chat, id>>
MakeFakeMessageID(chat, data) == <<"fake", chat, data>>

(* Fault: private chats have no receiver either. *)
SharedPortalKey(login, type, chat) == <<chat, NoId>>

MakePortalKey(login, type, chat) ==
  <<chat, IF type = "group" THEN NoId ELSE login>>

(* The first id that is not empty. *)
FirstId(ids) ==
  LET given == {i \in DOMAIN ids : ids[i] # NoId}
  IN  IF given = {} THEN NoId ELSE ids[CHOOSE i \in given : \A j \in given : i <= j]

-----------------------------------------------------------------------------
(* The handlers: the remote events (none or one) that event e is for the   *)
(* client of login.                                                        *)

(* Fault: only messages say what kind of chat they are of. *)
ChatOfMessage(login, e) ==
  IF e.post # "notice" /\ e.type = "group"
    THEN [type |-> "group", chat |-> e.group]
    ELSE [type |-> "private", chat |-> FirstId(<<e.user, e.sender, login>>)]

(* chatFromEvent; message_type is a message's `type'. *)
ChatFromEvent(login, e) ==
  IF e.group # NoId \/ (e.post \in {"message", "message_sent"} /\ e.type = "group")
    THEN [type |-> "group", chat |-> e.group]
    ELSE [type |-> "private", chat |-> FirstId(<<e.user, e.sender, login>>)]

Remote(kind, login, chat, id, sender) ==
  [kind |-> kind, key |-> MakePortalKey(login, chat.type, chat.chat),
   id |-> id, sender |-> sender]

(* A notice is a message of the bridge's own; a made-up id keeps it apart  *)
(* from those of QQ.                                                       *)
RemoteNotice(login, chat, id, sender) ==
  Remote("message", login, chat, MakeFakeMessageID(chat.chat, <<"notice", id>>), sender)

(* handleOneBotMessage *)
HandleMessage(login, e) ==
  LET chat   == ChatFromEvent(login, e)
      sender == FirstId(<<e.sender, e.user, IF e.post = "message_sent" THEN login ELSE NoId>>)
  IN  IF ~e.content THEN {}
      ELSE {Remote("message", login, chat, MakeMessageID(chat.chat, e.id), sender)}

(* A recall: the removal of the message it names. *)
HandleRecall(login, e) ==
  LET chat == ChatFromEvent(login, e)
  IN  {Remote("remove", login, chat, MakeMessageID(chat.chat, e.id),
              FirstId(<<e.operator, e.user, login>>))}

(* handleOneBotEmojiLike: a reaction to the message it names. *)
HandleEmojiLike(login, e) ==
  LET chat == ChatFromEvent(login, e)
  IN  IF e.id = NoId THEN {}
      ELSE {Remote("reaction", login, chat, MakeMessageID(chat.chat, e.id),
                   FirstId(<<e.user, e.operator, login>>))}

(* handleOneBotInputStatus: typing, in private chats. *)
HandleInputStatus(login, e) ==
  LET chat   == ChatFromEvent(login, e)
      sender == FirstId(<<e.user, e.target>>)
  IN  IF chat.chat = NoId \/ chat.type # "private" \/ sender = NoId THEN {}
      ELSE {Remote("typing", login, chat, NoId, sender)}

NoticeTypes ==
  {"group_increase", "group_decrease", "group_admin", "group_ban", "group_upload",
   "group_card", "essence", "notify"}

(* noticeEventID *)
NoticeEventID(e) == <<e.type, e.sub, e.id, e.user, e.operator, e.target, e.time>>

(* handleOneBotNotice *)
HandleNotice(login, e) ==
  LET chat == ChatFromEvent(login, e)
  IN  CASE e.type = "group_msg_emoji_like" -> HandleEmojiLike(login, e)
        [] e.type = "notify" /\ e.sub = "input_status" -> HandleInputStatus(login, e)
        [] e.type \in {"friend_recall", "group_recall"} -> HandleRecall(login, e)
        [] e.type \in NoticeTypes /\ ~(e.type = "notify" /\ e.sub = "input_status") ->
             {RemoteNotice(login, chat, NoticeEventID(e), FirstId(<<e.user, login>>))}
        [] OTHER -> {}

(* handleOneBotRequest: a message that tells of a friend or group request. *)
HandleRequest(login, e) ==
  LET chat == IF e.type = "group" /\ e.group # NoId
                THEN [type |-> "group", chat |-> e.group]
                ELSE ChatFromEvent(login, e)
  IN  IF e.type \notin {"friend", "group"} THEN {}
      ELSE {Remote("message", login, chat,
                   MakeMessageID(chat.chat, RequestEventID(e)),
                   FirstId(<<e.user, login>>))}

(* The switch of handleOneBotEvent on post_type. *)
Handle(login, e) ==
  CASE e.post \in {"message", "message_sent"} -> HandleMessage(login, e)
    [] e.post = "notice" -> HandleNotice(login, e)
    [] e.post = "request" -> HandleRequest(login, e)
    [] OTHER -> {}

-----------------------------------------------------------------------------
TypeOK ==
  /\ self \in {NoId, Home}
  /\ reader \in {"read", "route"}
  /\ evt \in Events \cup {NoId}
  /\ checked \in {NoId, Home}
  /\ log \in Seq([e: Events, login: Logins, checked: {NoId, Home}])
  /\ DOMAIN queue = PortalKeys
  /\ DOMAIN live = PortalKeys
  /\ \A k \in PortalKeys : \A i \in DOMAIN queue[k] : queue[k][i].key = k

Init ==
  /\ self = NoId
  /\ reader = "read"
  /\ evt = NoId
  /\ checked = NoId
  /\ log = <<>>
  /\ queue = [k \in PortalKeys |-> <<>>]
  /\ live = [k \in PortalKeys |-> {}]

(* Fault: the account is taken from the event at hand. *)
SetSelfOfEvent ==
  /\ self = NoId /\ evt # NoId
  /\ self' = evt.self
  /\ UNCHANGED <<reader, evt, checked, log, queue, live>>

(* identifySession learns the account and calls setSelf. *)
SetSelf ==
  /\ self = NoId
  /\ self' = Home
  /\ UNCHANGED <<reader, evt, checked, log, queue, live>>

(* Fault: events are not compared with the session's account. *)
ReadEventUnchecked(e) ==
  /\ reader = "read"
  /\ Len(log) < MaxEvents
  /\ evt' = e
  /\ checked' = self
  /\ reader' = "route"
  /\ UNCHANGED <<self, log, queue, live>>

(* readLoop takes an event from the connection and passes it on, unless    *)
(* its self_id is not the account the session is known to be.  (An event   *)
(* that is dropped is one that this action does not read.)                 *)
ReadEvent(e) ==
  /\ reader = "read"
  /\ Len(log) < MaxEvents
  /\ ~(e.self # NoId /\ self # NoId /\ e.self # self)
  /\ evt' = e
  /\ checked' = self
  /\ reader' = "route"
  /\ UNCHANGED <<self, log, queue, live>>

(* The login handleOneBotEvent looks up: by the session's account, or, as  *)
(* long as that is not known, by the event's.                              *)
RouteTo == IF self # NoId THEN self ELSE evt.self

(* handleOneBotEvent, for an event with no login to go to. *)
RouteNowhere ==
  /\ reader = "route"
  /\ evt.post = "meta_event" \/ RouteTo \notin Logins
  /\ reader' = "read"
  /\ evt' = NoId
  /\ UNCHANGED <<self, checked, log, queue, live>>

(* handleOneBotEvent: QueueRemoteEvent of what the handler makes of it. *)
Route ==
  /\ reader = "route"
  /\ evt.post # "meta_event"
  /\ RouteTo \in Logins
  /\ log' = Append(log, [e |-> evt, login |-> RouteTo, checked |-> checked])
  /\ queue' = [k \in PortalKeys |->
                 LET mine == {r \in Handle(RouteTo, evt) : r.key = k}
                 IN  IF mine = {} THEN queue[k]
                     ELSE Append(queue[k], CHOOSE r \in mine : TRUE)]
  /\ reader' = "read"
  /\ evt' = NoId
  /\ UNCHANGED <<self, checked, live>>

(* The framework's portal k handles its next event. *)
PortalHandle(k) ==
  /\ queue[k] # <<>>
  /\ queue' = [queue EXCEPT ![k] = Tail(@)]
  /\ LET r == Head(queue[k]) IN
       live' = [live EXCEPT ![k] = CASE r.kind = "message" -> @ \cup {r.id}
                                     [] r.kind = "remove"  -> @ \ {r.id}
                                     [] OTHER              -> @]
  /\ UNCHANGED <<self, reader, evt, checked, log>>

Next ==
  \/ SetSelf
  \/ \E e \in Events : ReadEvent(e)
  \/ RouteNowhere \/ Route
  \/ \E k \in PortalKeys : PortalHandle(k)

Spec == Init /\ [][Next]_vars

-----------------------------------------------------------------------------
(* Properties. *)

(* Everything the handlers make of event e for login, in any portal. *)
RemotesOf(n) == Handle(log[n].login, log[n].e)

(* An event checked after the session was identified goes to the login of  *)
(* the account it names, however routing reads the account again.          *)
IdentifiedEventsGoHome ==
  \A n \in DOMAIN log :
    log[n].checked # NoId => log[n].e.self \in {NoId, log[n].login}

(* Two logins never meet in the room of a private chat, though both talk   *)
(* to the same QQ number.                                                  *)
PrivateRoomsAreOwn ==
  \A m, n \in DOMAIN log : \A r \in RemotesOf(m), q \in RemotesOf(n) :
    r.key = q.key /\ log[m].e.group = NoId /\ log[m].e.type # "group"
      => log[m].login = log[n].login

(* Two events about the same chat and message id: a group is the same to   *)
(* all logins, a friend's chat is each login's own.                        *)
SameMessage(m, n) ==
  LET e == log[m].e
      f == log[n].e
  IN  /\ e.id = f.id /\ e.id # NoId
      /\ \/ e.group # NoId /\ e.group = f.group
         \/ /\ log[m].login = log[n].login
            /\ e.group = NoId /\ f.group = NoId /\ e.user # NoId /\ e.user = f.user
            /\ "group" \notin {e.type, f.type}

IsMessage(n) == log[n].e.post \in {"message", "message_sent"}
IsRecall(n)  == log[n].e.post = "notice" /\ log[n].e.type \in {"friend_recall", "group_recall"}
IsLike(n)    == log[n].e.post = "notice" /\ log[n].e.type = "group_msg_emoji_like"

(* Once the portals have nothing left to handle, a message that was        *)
(* recalled after it was last sent is gone from its room: the recall found *)
(* the room and the id, though a notice has neither message_type nor the   *)
(* sender's fields.                                                        *)
RecallsRemove ==
  (\A k \in PortalKeys : queue[k] = <<>>) =>
    \A m, n \in DOMAIN log :
      /\ m < n /\ IsMessage(m) /\ IsRecall(n) /\ SameMessage(m, n)
      /\ \A p \in DOMAIN log : p > n /\ IsMessage(p) => log[p].e.id # log[m].e.id
      => \A r \in RemotesOf(m) : r.id \notin live[r.key]

(* A group emoji like is a reaction to the message it is about, in the     *)
(* room that has it.                                                       *)
LikesHit ==
  \A m, n \in DOMAIN log :
    IsMessage(m) /\ IsLike(n) /\ SameMessage(m, n) =>
      \A r \in RemotesOf(m), q \in RemotesOf(n) : q.key = r.key /\ q.id = r.id

(* What follows up a message finds it. *)
FollowUpsHit == RecallsRemove /\ LikesHit
=============================================================================
