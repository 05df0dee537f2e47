---------------------------- MODULE MatrixPortal ----------------------------
(***************************************************************************)
(* One room from the Matrix side: HandleMatrixMessage, its removal and the *)
(* reactions (pkg/connector/handle_matrix.go), together with the events by *)
(* which NapCatQQ reports back what they did.                              *)
(*                                                                         *)
(* The portal belongs to the bridge framework, which is not part of the    *)
(* repository: it handles the Matrix events and the remote events of its   *)
(* room one at a time, in order, keeps the message id a handler returns,   *)
(* and drops a remote message whose id it has.                             *)
(*                                                                         *)
(* A handler makes one Call.  NapCatQQ carries it out or refuses it, and   *)
(* the answer may come too late or be lost (SessionCalls), so that a call  *)
(* that has failed may have its effect all the same, even afterwards.      *)
(* Contents are left out, and there is one emoji.                          *)
(***************************************************************************)
EXTENDS Naturals, Sequences

CONSTANTS
  Msgs,      \* messages typed in Matrix
  None,
  Chat,      \* the portal's id: the number of the friend or group
  MaxChat,   \* bound: messages in the QQ chat
  MaxOps     \* bound: removals and reactions asked for in Matrix

ASSUME MatrixPortalAssumption ==
  /\ None \notin Msgs
  /\ Chat # ""
  /\ MaxChat \in Nat /\ MaxOps \in Nat

(* QQ's ids are the positions in its chat. *)
QQIds == 1..MaxChat

(* Fault: the chat's number is left out. *)
BareMessageID(id) == <<"", id>>

(* MakeMessageID and ParseMessageID, as the handlers of this portal use    *)
(* them.                                                                   *)
MakeMessageID(id)  == <<Chat, id>>
ParseMessageID(mid) == mid[2]

MessageIDs == {Chat, ""} \X QQIds

VARIABLES
  up,        \* session() # nil
  chat,      \* the QQ chat: is the message still there, has it our like
  wire,      \* NapCatQQ's events under way, in order
  queue,     \* what the portal has to handle
  call,      \* the call of the handler at work
  late,      \* calls given up that NapCatQQ has not carried out yet
  db,        \* per Matrix message: the id the framework has for it
  typed,     \* the Matrix messages so far
  gone,      \* those that were removed in Matrix
  liked,     \* those that have a reaction in Matrix
  copies,    \* the ids of QQ messages shown in the room
  recalled,  \* the ids that a recall has taken out of the room
  ops,       \* removals and reactions so far
  missed,    \* a removal or a reaction has failed (history)
  lossy      \* the connection was lost (history)

vars == <<up, chat, wire, queue, call, late, db, typed, gone, liked, copies, recalled,
          ops, missed, lossy>>
room == <<typed, gone, liked, ops>>
history == <<missed, lossy>>

ChatOps == {"remove", "like", "unlike"}
NoCall == [op |-> "none", m |-> None, stage |-> "none", id |-> 0]

TypeOK ==
  /\ up \in BOOLEAN /\ missed \in BOOLEAN /\ lossy \in BOOLEAN
  /\ chat \in Seq([there: BOOLEAN, like: BOOLEAN])
  /\ Len(chat) <= MaxChat
  /\ wire \in Seq([op: {"message", "recall"}, id: DOMAIN chat])
  /\ queue \in Seq([op: {"send"} \cup ChatOps, m: Msgs]
                   \cup [op: {"message", "recall"}, id: DOMAIN chat])
  /\ call \in {NoCall} \cup [op: {"send"} \cup ChatOps, m: Msgs,
                             stage: {"sent", "done", "refused"}, id: 0..MaxChat]
  /\ call.op \in ChatOps => call.id \in DOMAIN chat
  /\ \A c \in late : c.stage = "sent" /\ (c.op \in ChatOps => c.id \in DOMAIN chat)
  /\ db \in [Msgs -> MessageIDs \cup {None}]
  /\ gone \subseteq typed /\ liked \subseteq typed /\ typed \subseteq Msgs
  /\ copies \subseteq MessageIDs /\ recalled \subseteq MessageIDs
  /\ ops \in 0..MaxOps

Init ==
  /\ up \in BOOLEAN
  /\ chat = <<>> /\ wire = <<>> /\ queue = <<>>
  /\ call = NoCall /\ late = {}
  /\ db = [m \in Msgs |-> None]
  /\ typed = {} /\ gone = {} /\ liked = {}
  /\ copies = {} /\ recalled = {}
  /\ ops = 0
  /\ missed = FALSE /\ lossy = FALSE

-----------------------------------------------------------------------------
(* The user in the Matrix room. *)

Type(m) ==
  /\ m \notin typed
  /\ typed' = typed \cup {m}
  /\ queue' = Append(queue, [op |-> "send", m |-> m])
  /\ UNCHANGED <<up, chat, wire, call, late, db, gone, liked, copies, recalled, ops, history>>

Ask(op, m) ==
  /\ m \in typed \ gone /\ ops < MaxOps
  /\ ops' = ops + 1
  /\ queue' = Append(queue, [op |-> op, m |-> m])
  /\ UNCHANGED <<up, chat, wire, call, late, db, typed, copies, recalled, history>>

Redact(m)  == Ask("remove", m) /\ gone' = gone \cup {m} /\ UNCHANGED liked
React(m)   == m \notin liked /\ Ask("like", m) /\ liked' = liked \cup {m} /\ UNCHANGED gone
Unreact(m) == m \in liked /\ Ask("unlike", m) /\ liked' = liked \ {m} /\ UNCHANGED gone

-----------------------------------------------------------------------------
(* The handlers, up to their call. *)

Event == Head(queue)
Handling(kinds) == call = NoCall /\ queue # <<>> /\ Event.op \in kinds

(* HandleMatrixMessage: no session, or no conversion: the message fails. *)
SendFail ==
  /\ Handling({"send"})
  /\ queue' = Tail(queue)
  /\ UNCHANGED <<up, chat, wire, call, late, db, room, copies, recalled, history>>

SendCall ==
  /\ Handling({"send"}) /\ up
  /\ queue' = Tail(queue)
  /\ call' = [op |-> "send", m |-> Event.m, stage |-> "sent", id |-> 0]
  /\ UNCHANGED <<up, chat, wire, late, db, room, copies, recalled, history>>

(* HandleMatrixMessageRemove, HandleMatrixReaction and                     *)
(* HandleMatrixReactionRemove without a session.                           *)
ChangeOffline ==
  /\ Handling(ChatOps) /\ ~up
  /\ queue' = Tail(queue)
  /\ missed' = TRUE
  /\ UNCHANGED <<up, chat, wire, call, late, db, room, copies, recalled, lossy>>

(* The message they are about never got an id: nothing to do. *)
ChangeUnknown ==
  /\ Handling(ChatOps) /\ up /\ db[Event.m] = None
  /\ queue' = Tail(queue)
  /\ UNCHANGED <<up, chat, wire, call, late, db, room, copies, recalled, history>>

(* Fault: the error of ParseMessageID is not looked at. *)
ChangeCallUnparsed ==
  /\ Handling(ChatOps) /\ up
  /\ queue' = Tail(queue)
  /\ call' = [op |-> Event.op, m |-> Event.m, stage |-> "sent",
              id |-> IF db[Event.m] = None THEN 0 ELSE ParseMessageID(db[Event.m])]
  /\ UNCHANGED <<up, chat, wire, late, db, room, copies, recalled, history>>

(* DeleteMessage or SetMessageEmojiLike of the id it has. *)
ChangeCall ==
  /\ Handling(ChatOps) /\ up /\ db[Event.m] # None
  /\ queue' = Tail(queue)
  /\ call' = [op |-> Event.op, m |-> Event.m, stage |-> "sent",
              id |-> ParseMessageID(db[Event.m])]
  /\ UNCHANGED <<up, chat, wire, late, db, room, copies, recalled, history>>

-----------------------------------------------------------------------------
(* NapCatQQ.  (Nothing here is code of the repository.) *)

(* Fault: both reaction handlers set the like. *)
LikeAlways(c) == c.op # "remove"

(* The value HandleMatrixReaction(Remove) gives SetMessageEmojiLike. *)
LikeSet(c) == c.op = "like"

(* Carrying out call c: the chat it leaves, and the event that reports it. *)
Execute(c) ==
  CASE c.op = "send" ->
         /\ Len(chat) < MaxChat
         /\ chat' = Append(chat, [there |-> TRUE, like |-> FALSE])
         /\ wire' = Append(wire, [op |-> "message", id |-> Len(chat) + 1])
    [] c.op = "remove" ->
         /\ chat' = [chat EXCEPT ![c.id].there = FALSE]
         /\ wire' = Append(wire, [op |-> "recall", id |-> c.id])
    [] OTHER ->
         /\ chat' = [chat EXCEPT ![c.id].like = LikeSet(c)]
         /\ UNCHANGED wire

CarryOut ==
  /\ call.stage = "sent"
  /\ Execute(call)
  /\ call' = [call EXCEPT !.stage = "done", !.id = IF call.op = "send" THEN Len(chat) + 1 ELSE @]
  /\ UNCHANGED <<up, queue, late, db, room, copies, recalled, history>>

CarryOutLate ==
  /\ \E c \in late : Execute(c) /\ late' = late \ {c}
  /\ UNCHANGED <<up, queue, call, db, room, copies, recalled, history>>

Refuse ==
  /\ call.stage = "sent"
  /\ call' = [call EXCEPT !.stage = "refused"]
  /\ UNCHANGED <<up, chat, wire, queue, late, db, room, copies, recalled, history>>

(* Somebody writes in QQ, or recalls a message there. *)
QQMessage ==
  /\ Execute([op |-> "send"])
  /\ UNCHANGED <<up, queue, call, late, db, room, copies, recalled, history>>

QQRecall(id) ==
  /\ id \in DOMAIN chat /\ chat[id].there
  /\ Execute([op |-> "remove", id |-> id])
  /\ UNCHANGED <<up, queue, call, late, db, room, copies, recalled, history>>

(* The connection is lost with what is under way, or there is one again. *)
SessionChange ==
  /\ up' = ~up
  /\ lossy' = TRUE
  /\ wire' = <<>>
  /\ UNCHANGED <<chat, queue, call, late, db, room, copies, recalled, missed>>

-----------------------------------------------------------------------------
(* The ends of the handlers. *)

(* Fault: the id of the answer is kept as it is. *)
SendReturnBare ==
  /\ call.op = "send" /\ call.stage = "done"
  /\ db' = [db EXCEPT ![call.m] = BareMessageID(call.id)]
  /\ call' = NoCall
  /\ UNCHANGED <<up, chat, wire, queue, late, room, copies, recalled, history>>

(* HandleMatrixMessage: the framework keeps the id that QQ has answered. *)
SendReturn ==
  /\ call.op = "send" /\ call.stage = "done"
  /\ db' = [db EXCEPT ![call.m] = MakeMessageID(call.id)]
  /\ call' = NoCall
  /\ UNCHANGED <<up, chat, wire, queue, late, room, copies, recalled, history>>

ChangeReturn ==
  /\ call.op \in ChatOps /\ call.stage = "done"
  /\ call' = NoCall
  /\ UNCHANGED <<up, chat, wire, queue, late, db, room, copies, recalled, history>>

(* Fault: an error of the call is not passed on. *)
CallErrorOk ==
  /\ call # NoCall
  /\ call' = NoCall
  /\ late' = late \cup {c \in {call} : c.stage = "sent"}
  /\ UNCHANGED <<up, chat, wire, queue, db, room, copies, recalled, history>>

(* The call fails: refused, too late, lost with its connection, or with an *)
(* answer that has no message id.                                          *)
CallError ==
  /\ call # NoCall
  /\ call' = NoCall
  /\ late' = late \cup {c \in {call} : c.stage = "sent"}
  /\ missed' = (missed \/ call.op \in ChatOps)
  /\ UNCHANGED <<up, chat, wire, queue, db, room, copies, recalled, lossy>>

-----------------------------------------------------------------------------
(* QQ's events in the portal. *)

(* readLoop and handleOneBotEvent queue the event (EventRouting). *)
ReadEvent ==
  /\ wire # <<>> /\ up
  /\ wire' = Tail(wire)
  /\ queue' = Append(queue, Head(wire))
  /\ UNCHANGED <<up, chat, call, late, db, room, copies, recalled, history>>

Known == copies \cup {db[m] : m \in {n \in Msgs : db[n] # None}}

RemoteMessage ==
  /\ Handling({"message"})
  /\ queue' = Tail(queue)
  /\ copies' = copies \cup ({MakeMessageID(Event.id)} \ Known)
  /\ UNCHANGED <<up, chat, wire, call, late, db, room, recalled, history>>

RemoteRecall ==
  /\ Handling({"recall"})
  /\ queue' = Tail(queue)
  /\ recalled' = recalled \cup ({MakeMessageID(Event.id)} \cap Known)
  /\ UNCHANGED <<up, chat, wire, call, late, db, room, copies, history>>

Next ==
  \/ \E m \in Msgs : Type(m) \/ Redact(m) \/ React(m) \/ Unreact(m)
  \/ SendFail \/ SendCall \/ ChangeOffline \/ ChangeUnknown \/ ChangeCall
  \/ CarryOut \/ CarryOutLate \/ Refuse \/ QQMessage
  \/ \E id \in QQIds : QQRecall(id)
  \/ SessionChange
  \/ SendReturn \/ ChangeReturn \/ CallError
  \/ ReadEvent \/ RemoteMessage \/ RemoteRecall

Spec == Init /\ [][Next]_vars

-----------------------------------------------------------------------------
(* Properties. *)

ParsedIDs(mids) == {ParseMessageID(mid) : mid \in mids}
Kept(m) == {mid \in {db[m]} : mid # None}

(* A QQ message is in the room once at most: as what the user typed or as  *)
(* a copy, though NapCatQQ reports what the bridge sent as an event too,   *)
(* and the report may be there before the answer.                          *)
OneCopy ==
  /\ \A m \in Msgs : ParsedIDs(Kept(m)) \cap ParsedIDs(copies) = {}
  /\ \A m, n \in Msgs : m # n => ParsedIDs(Kept(m)) \cap ParsedIDs(Kept(n)) = {}

(* Nothing under way, nothing lost. *)
Settled == queue = <<>> /\ wire = <<>> /\ call = NoCall /\ late = {} /\ ~lossy

Shown ==
  copies \cup UNION {Kept(m) : m \in Msgs \ gone}

(* Once all is settled the room shows just what is in the QQ chat, even if *)
(* sending failed on one side only; a removal that failed was reported.    *)
InStep ==
  Settled /\ ~missed =>
    ParsedIDs(Shown \ recalled) = {id \in DOMAIN chat : chat[id].there}

(* ... and QQ's like is on just the messages with a reaction. *)
LikesInStep ==
  Settled /\ ~missed =>
    \A m \in Msgs : \A id \in ParsedIDs(Kept(m)) : chat[id].like <=> m \in liked
=============================================================================
