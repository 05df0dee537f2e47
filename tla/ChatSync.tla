------------------------------ MODULE ChatSync ------------------------------
(***************************************************************************)
(* How the chats of one account get their rooms: syncAllContacts and       *)
(* contactToChat (pkg/connector/history.go), GetChatInfo and what it       *)
(* returns (pkg/connector/chatinfo.go), and the same for message events    *)
(* (pkg/connector/events.go).                                              *)
(*                                                                         *)
(* Portals and their queues belong to the bridge framework, which is not   *)
(* part of the repository: a portal handles its events in order.  For an   *)
(* event that may create a portal that has no room yet it asks the event   *)
(* for the chat's info, makes the room with it, and drops the event if     *)
(* there is none; the info's ExtraUpdates change the portal's metadata.    *)
(*                                                                         *)
(* Names, avatars, members and power levels are left out: of a chat's info *)
(* only the chat type that it records is kept.                             *)
(*                                                                         *)
(* Names differ from those of ClientLoops, the other part of a client, so  *)
(* that one module can speak of both.                                      *)
(***************************************************************************)
EXTENDS Naturals, Sequences

CONSTANTS
  Ids,         \* QQ numbers of users and of groups
  NoId,        \* the empty id
  Contacts,    \* what get_recent_contact returns
  Friends,     \* what get_friend_list returns
  MyGroups,    \* what get_group_list returns
  MaxEvents    \* bound: QQ events and queued resyncs

ChatTypes == {"private", "group"}

(* A recent contact: the chat its latest message names, and its own. *)
ContactRecords ==
  [group: Ids \cup {NoId}, type: ChatTypes, user: Ids \cup {NoId},   \* of the latest message
   chatType: {1, 2}, peer: Ids \cup {NoId}]

ASSUME ChatSyncAssumption ==
  /\ NoId \notin Ids
  /\ Contacts \subseteq ContactRecords
  /\ Friends \subseteq Ids /\ MyGroups \subseteq Ids
  /\ MaxEvents \in Nat

(* makePortalKey: the rooms of a group and of a private chat differ even   *)
(* when the two have the same number.                                      *)
Portals == Ids \X ChatTypes

VARIABLES
  online,   \* session() # nil
  sync,     \* where syncAllContacts is
  pending,  \* per portal: the kinds of the events it has to handle
  room,     \* the portals that have a room
  meta,     \* per portal: PortalMetadata.ChatType
  sent,     \* the portals that a message was for (history)
  lost,     \* those whose latest message found no info, a call having failed (history)
  failed,   \* a call has failed or found no session (history)
  events    \* QQ events and queued resyncs so far

syncVars == <<online, sync, pending, room, meta, sent, lost, failed, events>>

Kinds == {"message", "sync", "resync", "typing"}

SyncTypeOK ==
  /\ online \in BOOLEAN /\ failed \in BOOLEAN
  /\ sync \in {"idle", "recent", "friends", "groups", "done"}
  /\ pending \in [Portals -> Seq(Kinds)]
  /\ room \subseteq Portals /\ sent \subseteq Portals /\ lost \subseteq Portals
  /\ meta \in [Portals -> ChatTypes \cup {"unknown"}]
  /\ events \in 0..MaxEvents

SyncInit ==
  /\ online \in BOOLEAN
  /\ sync = "idle"
  /\ pending = [k \in Portals |-> <<>>]
  /\ room = {} /\ sent = {} /\ lost = {}
  /\ meta = [k \in Portals |-> "unknown"]
  /\ failed = FALSE
  /\ events = 0

SyncSessionChange ==
  /\ online' = ~online
  /\ UNCHANGED <<sync, pending, room, meta, sent, lost, failed, events>>

Queue(ks, kind) ==
  pending' = [k \in Portals |-> IF k \in ks THEN Append(pending[k], kind) ELSE pending[k]]

-----------------------------------------------------------------------------
(* syncAllContacts. *)

(* contactToChat; none for a contact that names no chat. *)
ContactToChat(c) ==
  LET isGroup == c.group # NoId \/ c.type = "group" \/ c.chatType = 2
      id == CASE c.group # NoId             -> c.group
              [] ~isGroup /\ c.user # NoId  -> c.user
              [] OTHER                      -> c.peer
  IN  {k \in Portals : k = <<id, IF isGroup THEN "group" ELSE "private">>}

(* The chats of each list. *)
ChatsOf(list) ==
  CASE list = "recent"  -> UNION {ContactToChat(c) : c \in Contacts}
    [] list = "friends" -> Friends \X {"private"}
    [] list = "groups"  -> MyGroups \X {"group"}

After(list) ==
  CASE list = "recent" -> "friends" [] list = "friends" -> "groups" [] list = "groups" -> "done"

SyncStart ==
  /\ sync = "idle"
  /\ sync' = IF online THEN "recent" ELSE "done"
  /\ failed' = (failed \/ ~online)
  /\ UNCHANGED <<online, pending, room, meta, sent, lost, events>>

(* NapCatQQ answers with a list: a ChatResync for each chat. *)
SyncList ==
  /\ sync \in {"recent", "friends", "groups"} /\ online
  /\ Queue(ChatsOf(sync), "sync")
  /\ sync' = After(sync)
  /\ UNCHANGED <<online, room, meta, sent, lost, failed, events>>

(* The call fails, as every call does after the session has closed. *)
SyncFail ==
  /\ sync \in {"recent", "friends", "groups"}
  /\ failed' = TRUE
  /\ sync' = After(sync)
  /\ UNCHANGED <<online, pending, room, meta, sent, lost, events>>

-----------------------------------------------------------------------------
(* QQ events, and the resyncs that ClientLoops queues for groups. *)

(* A message, notice or recall: the kinds that may create a portal. *)
Message(k) ==
  /\ events < MaxEvents
  /\ events' = events + 1
  /\ Queue({k}, "message")
  /\ sent' = sent \cup {k}
  /\ lost' = lost \ {k}
  /\ UNCHANGED <<online, sync, room, meta, failed>>

Typing(k) ==
  /\ events < MaxEvents
  /\ events' = events + 1
  /\ Queue({k}, "typing")
  /\ UNCHANGED <<online, sync, room, meta, sent, lost, failed>>

(* doGhostResync, for a group whose messages have queued it. *)
Resync(k) ==
  /\ events < MaxEvents
  /\ k \in room /\ meta[k] = "group"
  /\ events' = events + 1
  /\ Queue({k}, "resync")
  /\ UNCHANGED <<online, sync, room, meta, sent, lost, failed>>

-----------------------------------------------------------------------------
(* The chat's info. *)

(* Fault: what chat a message is of is looked up in the portal. *)
AskedByPortal(k, kind) == meta[k]

(* The type of chat that is asked about: a message event knows it          *)
(* (QQMessageEvent.GetChatInfo, QQNoticeEvent.GetChatInfo), a ChatResync   *)
(* asks the portal's metadata (QQClient.GetChatInfo).                      *)
Asked(k, kind) == IF kind = "message" THEN k[2] ELSE meta[k]

(* Fault: a group's info does not record the type. *)
InfoNoGroupType(type) ==
  CASE type = "private" -> {"private"}
    [] type = "group"   -> (IF online THEN {"unknown"} ELSE {}) \cup {"error"}
    [] OTHER            -> {"error"}

(* The chat types the info may record, or "error": getDirectChatInfo needs *)
(* no call, getGroupChatInfo makes two.                                    *)
Info(type) ==
  CASE type = "private" -> {"private"}
    [] type = "group"   -> (IF online THEN {"group"} ELSE {}) \cup {"error"}
    [] OTHER            -> {"error"}

(* updateChatType, one of the info's ExtraUpdates. *)
UpdateChatType(k, type) == meta' = [meta EXCEPT ![k] = type]

-----------------------------------------------------------------------------
(* The framework's portals. *)

Taken(k) == pending' = [pending EXCEPT ![k] = Tail(@)]

(* A message or a chat of the sync makes the room, if there is an info. *)
PortalCreate(k) ==
  /\ pending[k] # <<>> /\ k \notin room
  /\ Head(pending[k]) \in {"message", "sync"}
  /\ Taken(k)
  /\ LET type == Asked(k, Head(pending[k])) IN
       \E info \in Info(type) :
         \/ /\ info # "error"
            /\ room' = room \cup {k}
            /\ UpdateChatType(k, info)
            /\ UNCHANGED <<lost, failed>>
         \/ /\ info = "error"
            /\ failed' = (failed \/ type = "group")
            /\ lost' = IF type = "group" /\ Head(pending[k]) = "message" THEN lost \cup {k} ELSE lost
            /\ UNCHANGED <<room, meta>>
  /\ UNCHANGED <<online, sync, sent, events>>

(* Nothing to create a room for: the event is ignored. *)
PortalIgnore(k) ==
  /\ pending[k] # <<>> /\ k \notin room
  /\ Head(pending[k]) \in {"resync", "typing"}
  /\ Taken(k)
  /\ UNCHANGED <<online, sync, room, meta, sent, lost, failed, events>>

(* Fault: the error of GetChatInfo is not looked at. *)
PortalResyncAlways(k) ==
  /\ pending[k] # <<>> /\ k \in room
  /\ Head(pending[k]) \in {"sync", "resync"}
  /\ Taken(k)
  /\ \E info \in Info(meta[k]) : UpdateChatType(k, info)
  /\ UNCHANGED <<online, sync, room, sent, lost, failed, events>>

(* A resync of a room that is there updates it. *)
PortalResync(k) ==
  /\ pending[k] # <<>> /\ k \in room
  /\ Head(pending[k]) \in {"sync", "resync"}
  /\ Taken(k)
  /\ \E info \in Info(meta[k]) :
       \/ info # "error" /\ UpdateChatType(k, info) /\ UNCHANGED failed
       \/ info = "error" /\ failed' = TRUE /\ UNCHANGED meta
  /\ UNCHANGED <<online, sync, room, sent, lost, events>>

(* A message or typing goes to the room. *)
PortalShow(k) ==
  /\ pending[k] # <<>> /\ k \in room
  /\ Head(pending[k]) \in {"message", "typing"}
  /\ Taken(k)
  /\ UNCHANGED <<online, sync, room, meta, sent, lost, failed, events>>

SyncNext ==
  \/ SyncSessionChange
  \/ SyncStart \/ SyncList \/ SyncFail
  \/ \E k \in Portals :
       \/ Message(k) \/ Typing(k) \/ Resync(k)
       \/ PortalCreate(k) \/ PortalIgnore(k) \/ PortalResync(k) \/ PortalShow(k)

SyncSpec == SyncInit /\ [][SyncNext]_syncVars

-----------------------------------------------------------------------------
(* Properties. *)

(* The metadata of a portal with a room tells what chat it is: the Matrix  *)
(* handlers send nothing to QQ from a room that does not know.             *)
RoomKnowsItsType == \A k \in room : meta[k] = k[2]

Idle == \A k \in Portals : pending[k] = <<>>

(* Every chat with a message has its room, whatever has failed before that *)
(* message: it is without one only if the info of a group could not be had *)
(* for the latest, which is lost with the ones before it.                  *)
MessagesGetRooms ==
  Idle => \A k \in sent : k \in room \/ (k[2] = "group" /\ k \in lost)

(* When no call has failed, every chat that syncAllContacts found in the   *)
(* lists has its room.                                                     *)
ContactsGetRooms ==
  Idle /\ ~failed /\ sync = "done" =>
    \A list \in {"recent", "friends", "groups"} : ChatsOf(list) \subseteq room
=============================================================================
