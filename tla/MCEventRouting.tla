---------------------------- MODULE MCEventRouting ----------------------------
(* A small instance of EventRouting: two accounts, a friend of both, a     *)
(* group, and the events around one group and one private message.         *)
EXTENDS EventRouting

CONSTANTS a, b, friend, group, m1, m2, f1

Blank ==
  [self |-> a, post |-> "notice", type |-> "", sub |-> "", content |-> FALSE,
   id |-> NoId, flag |-> NoId, user |-> NoId, sender |-> NoId, operator |-> NoId,
   target |-> NoId, group |-> NoId, time |-> 0]

GroupMessage ==
  [Blank EXCEPT !.post = "message", !.type = "group", !.content = TRUE, !.id = m1,
                !.user = friend, !.sender = friend, !.group = group]

PrivateMessage ==
  [Blank EXCEPT !.post = "message", !.type = "private", !.content = TRUE, !.id = m2,
                !.user = friend, !.sender = friend]

SentMessage == [PrivateMessage EXCEPT !.post = "message_sent", !.sender = NoId]

(* The same friend writes to the other account, on a connection that does  *)
(* not have to be the other account's.                                     *)
ForeignMessage == [PrivateMessage EXCEPT !.self = b]

EmptyMessage == [PrivateMessage EXCEPT !.content = FALSE]

GroupRecall ==
  [Blank EXCEPT !.type = "group_recall", !.id = m1, !.user = friend, !.operator = a,
                !.group = group]

FriendRecall == [Blank EXCEPT !.type = "friend_recall", !.id = m2, !.user = friend]

EmojiLike ==
  [Blank EXCEPT !.type = "group_msg_emoji_like", !.id = m1, !.operator = a, !.group = group]

Typing == [Blank EXCEPT !.type = "notify", !.sub = "input_status", !.user = friend]

(* A notice without a user. *)
ProfileLike == [Blank EXCEPT !.type = "notify", !.sub = "profile_like"]

GroupBan == [Blank EXCEPT !.type = "group_ban", !.user = friend, !.group = group]

FriendRequest ==
  [Blank EXCEPT !.post = "request", !.type = "friend", !.flag = f1, !.user = friend]

Heartbeat == [Blank EXCEPT !.post = "meta_event"]

(* An event of no stated account. *)
Anonymous == [GroupMessage EXCEPT !.self = NoId]

MCEvents ==
  {GroupMessage, PrivateMessage, SentMessage, ForeignMessage, EmptyMessage, GroupRecall,
   FriendRecall, EmojiLike, Typing, ProfileLike, GroupBan, FriendRequest, Heartbeat,
   Anonymous}
=============================================================================
