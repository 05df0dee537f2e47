------------------------------- MODULE Backfill -------------------------------
(***************************************************************************)
(* The history of one chat: FetchMessages and historyToBackfill            *)
(* (pkg/connector/history.go), asked page by page, while new messages come *)
(* in as events.                                                           *)
(*                                                                         *)
(* The bridge framework, which is not part of the repository, calls        *)
(* FetchMessages with the cursor of the page before until HasMore is       *)
(* false, again after an error, and drops a message whose id the room has. *)
(* For the first page it gives the oldest message of the room as anchor.   *)
(*                                                                         *)
(* The i-th message of the chat has the time i.  NapCatQQ answers with     *)
(* the `count' messages up to message_seq, that one included or not, and   *)
(* oldest or newest first.                                                 *)
(***************************************************************************)
EXTENDS Naturals, Sequences, FiniteSets

CONSTANTS
  Chat,      \* the portal's id
  MaxChat,   \* bound: messages in the chat
  Before,    \* those that were there before the bridge
  Counts,    \* what the framework may ask for at a time
  Limit      \* DefaultHistoryBackfillLimit

ASSUME BackfillAssumption ==
  /\ MaxChat \in Nat /\ Before \in 0..MaxChat
  \* A page holds more than the message it is asked for with.
  /\ Counts \subseteq Nat \ {1}
  /\ Limit \in Nat \ {0, 1}

NoId == 0   \* the empty id, sequence number and cursor

MakeMessageID(id)   == <<Chat, id>>
ParseMessageID(mid) == mid[2]

VARIABLES
  up,       \* session() # nil
  nameless, \* messages that NapCatQQ gives no id
  newest,   \* messages in the chat so far
  room,     \* the ids of the messages in the room
  phase,    \* of the backfill; "cut": its call has lost its session
  anchor,   \* the id of the framework's anchor message
  cursor,   \* the cursor of the last page
  asked     \* the call under way: its message_seq and its count

vars == <<up, nameless, newest, room, phase, anchor, cursor, asked>>

NoCall == [seq |-> NoId, count |-> 0]
IDs == {Chat} \X (1..2 * MaxChat)
NoAnchor == MakeMessageID(NoId)

TypeOK ==
  /\ up \in BOOLEAN
  /\ nameless \subseteq 1..Before
  /\ newest \in Before..MaxChat
  /\ room \subseteq IDs
  /\ phase \in {"idle", "fetch", "asked", "cut", "done"}
  /\ anchor \in IDs \cup {NoAnchor}
  /\ cursor \in 0..MaxChat
  /\ asked \in [seq: 0..MaxChat, count: 0..Limit]
  /\ phase \in {"asked", "cut"} => asked.count # 0

Init ==
  /\ up \in BOOLEAN
  /\ nameless \in SUBSET (1..Before)
  /\ newest = Before
  /\ room = {}
  /\ phase = "idle"
  /\ anchor = NoAnchor /\ cursor = NoId
  /\ asked = NoCall

-----------------------------------------------------------------------------
(* The chat goes on; without a session its messages do not reach the room. *)

(* A call waits for the answer of the session it was made on: when that is *)
(* lost before the answer, Close wakes no call (SessionCalls), and this    *)
(* one has no deadline.                                                    *)
SessionChange ==
  /\ up' = ~up
  /\ phase' = IF up /\ phase = "asked" THEN "cut" ELSE phase
  /\ UNCHANGED <<nameless, newest, room, anchor, cursor, asked>>

Message ==
  /\ newest < MaxChat
  /\ newest' = newest + 1
  /\ room' = IF up THEN room \cup {MakeMessageID(newest + 1)} ELSE room
  /\ UNCHANGED <<nameless, up, phase, anchor, cursor, asked>>

-----------------------------------------------------------------------------
(* The backfill. *)

(* The framework takes the room's oldest message for its anchor. *)
Start ==
  /\ phase = "idle"
  /\ phase' = "fetch"
  /\ anchor' = IF room = {} THEN NoAnchor
               ELSE CHOOSE mid \in room :
                      \A other \in room : ParseMessageID(mid) <= ParseMessageID(other)
  /\ UNCHANGED <<nameless, up, newest, room, cursor, asked>>

(* Fault: the count is taken as it is. *)
CountAsGiven(count) == count

PageSize(count) == IF count = 0 \/ count > Limit THEN Limit ELSE count

(* The cursor, or else the anchor; or else from the latest message on. *)
MessageSeq == IF cursor = NoId THEN ParseMessageID(anchor) ELSE cursor

(* FetchMessages up to its call.  Without a session it returns             *)
(* ErrNotLoggedIn, and is called again later.  The room knows its chat     *)
(* type (ChatSync): otherwise the backfill would be over at once.          *)
FetchCall(count) ==
  /\ phase = "fetch" /\ up
  /\ phase' = "asked"
  /\ asked' = [seq |-> MessageSeq, count |-> PageSize(count)]
  /\ UNCHANGED <<nameless, up, newest, room, anchor, cursor>>

(* A MessageDetail.  Its real_id is another number than its message_id.    *)
Detail(i) ==
  IF i \in nameless THEN [message_id |-> NoId, real_id |-> NoId, message_seq |-> NoId, time |-> i]
  ELSE [message_id |-> i, real_id |-> MaxChat + i, message_seq |-> i, time |-> i]

(* Fault: real_id before message_id. *)
RealIDFirst(d) == IF d.real_id # NoId THEN d.real_id ELSE d.message_id

BestMessageID(d) ==
  CASE d.message_id # NoId -> d.message_id
    [] d.message_id = NoId /\ d.real_id # NoId -> d.real_id
    [] OTHER -> d.message_seq

BestMessageSeq(d) == IF d.message_seq # NoId THEN d.message_seq ELSE BestMessageID(d)

(* The messages NapCatQQ answers with: those before `upTo', oldest first.  *)
Page(upTo) ==
  LET first == IF upTo > asked.count THEN upTo - asked.count + 1 ELSE 1
  IN  [k \in 1..(upTo + 1 - first) |-> Detail(first + k - 1)]

Latest == IF asked.seq = NoId THEN {newest} ELSE {asked.seq - 1, asked.seq}

Answers ==
  UNION {{Page(upTo), [k \in DOMAIN Page(upTo) |-> Page(upTo)[Len(Page(upTo)) + 1 - k]]} :
           upTo \in Latest}

Elements(details) == {details[k] : k \in DOMAIN details}

(* sort.SliceStable by time: the times of a page differ.  It sorts the     *)
(* caller's slice in place.                                                *)
SortByTime(details) ==
  CHOOSE s \in [DOMAIN details -> Elements(details)] :
    /\ Elements(s) = Elements(details)
    /\ \A j, k \in DOMAIN s : j < k => s[j].time < s[k].time

(* historyToBackfill: the messages that have an id.  The room takes them   *)
(* in any order.                                                           *)
HistoryToBackfill(details) == {d \in Elements(details) : BestMessageID(d) # NoId}

(* Fault: the cursor is that of the answer's first message. *)
CursorUnsorted(details) ==
  IF details = <<>> THEN NoId ELSE BestMessageSeq(details[1])

(* That of the oldest message, the first one after the sort. *)
NextCursor(details) ==
  IF details = <<>> THEN NoId ELSE BestMessageSeq(SortByTime(details)[1])

(* Fault: a page that is full is taken for the last one. *)
HasMoreThan(messages) == Cardinality(messages) > asked.count

HasMore(messages) == Cardinality(messages) >= asked.count

(* The answer, and the rest of FetchMessages; the framework puts the page  *)
(* into the room and keeps the cursor.                                     *)
FetchDone(details) ==
  LET messages == HistoryToBackfill(details)
  IN  /\ phase = "asked"
      /\ room' = room \cup {MakeMessageID(BestMessageID(d)) : d \in messages}
      /\ cursor' = NextCursor(details)
      /\ phase' = IF HasMore(messages) THEN "fetch" ELSE "done"
      /\ asked' = NoCall
      /\ UNCHANGED <<nameless, up, newest, anchor>>

(* NapCatQQ refuses the call; FetchMessages returns its error.             *)
FetchFail ==
  /\ phase = "asked"
  /\ phase' = "fetch"
  /\ asked' = NoCall
  /\ UNCHANGED <<nameless, up, newest, room, anchor, cursor>>

Next ==
  \/ SessionChange \/ Message \/ Start
  \/ \E count \in Counts : FetchCall(count)
  \/ \E details \in Answers : FetchDone(details)
  \/ FetchFail

Spec == Init /\ [][Next]_vars

(* The framework starts and goes on, and not every call fails: a call that *)
(* keeps its session is answered, and not always refused.                  *)
Fairness ==
  /\ WF_vars(Start)
  /\ SF_vars(\E count \in Counts : FetchCall(count))
  /\ SF_vars(\E details \in Answers : FetchDone(details))

FairSpec == Spec /\ Fairness

-----------------------------------------------------------------------------
(* Properties. *)

(* A QQ message is never in the room under two ids: what came as an event  *)
(* and comes again with the history is the same message to the framework   *)
(* (BestMessageID against the message_id of the events).                   *)
OneIDPerMessage ==
  \A mid \in room : ParseMessageID(mid) \in 1..MaxChat

Bridged(i) == MakeMessageID(i) \in room

(* When the backfill is over, the room has all the history before its      *)
(* anchor: no page was skipped, whatever the order of the answers, the     *)
(* messages that came in between, and the calls that failed.  Only a       *)
(* message without an id may end it early, as its page looks short.        *)
HistoryIsComplete ==
  phase = "done" =>
    \A i \in 1..Before : Bridged(i) \/ \E n \in nameless : i <= n

(* The backfill comes to its end, unless the session stays away or a call  *)
(* loses its session, in which case FetchMessages never returns.           *)
BackfillEnds == []<>up => (phase = "fetch" ~> phase \in {"done", "cut"})
=============================================================================
