-------------------------- MODULE EventRouting_proof --------------------------
(***************************************************************************)
(* Theorems about EventRouting, for any accounts, logins and events, and   *)
(* any number of them: types, that events go to the login of their         *)
(* account, that private rooms are each login's own, and that recalls and  *)
(* likes find their message.                                               *)
(***************************************************************************)
EXTENDS EventRouting, SequenceTheorems, WellFoundedInduction, TLAPS

-----------------------------------------------------------------------------
(* The inductive invariant, in named parts. *)

Remotes == UNION {Handle(l, e) : l \in Logins, e \in Events}

QueuesOfRemotes == \A k \in PortalKeys : queue[k] \in Seq(Remotes)

(* The account that an event was compared with is the session's still.     *)
CheckedIsSelf ==
  /\ checked # NoId => self = checked
  /\ reader = "route" => evt \in Events
  /\ reader = "route" /\ checked # NoId => evt.self \in {NoId, checked}

IsMessageOf(r, id) == r.kind = "message" /\ r.id = id

(* Message id is not in room k, and will not be once k has handled its     *)
(* queue.                                                                  *)
Gone(k, id) ==
  \/ /\ id \notin live[k]
     /\ \A i \in DOMAIN queue[k] : ~IsMessageOf(queue[k][i], id)
  \/ \E i \in DOMAIN queue[k] :
       /\ queue[k][i].kind = "remove" /\ queue[k][i].id = id
       /\ \A j \in DOMAIN queue[k] : j > i => ~IsMessageOf(queue[k][j], id)

NotSentAfter(n) == \A p \in DOMAIN log : p > n /\ IsMessage(p) => log[p].e.id # log[n].e.id

RecallsHold ==
  \A n \in DOMAIN log :
    IsRecall(n) /\ log[n].e.id # NoId /\ NotSentAfter(n) =>
      \A q \in RemotesOf(n) : Gone(q.key, q.id)

IInv ==
  /\ TypeOK
  /\ QueuesOfRemotes
  /\ CheckedIsSelf
  /\ IdentifiedEventsGoHome
  /\ RecallsHold

-----------------------------------------------------------------------------
(* The ids and the handlers. *)

(* A set of numbers has a least one. *)
LEMMA NatMin == ASSUME NEW T \in SUBSET Nat, T # {} PROVE \E x \in T : \A y \in T : x <= y
<1> DEFINE R == {ss \in Nat \X Nat : ss[1] < ss[2]}
<1>1. R = OpToRel(<, Nat)
  BY DEF OpToRel
<1>2. IsWellFoundedOn(R, Nat)
  BY <1>1, NatLessThanWellFounded
<1> HIDE DEF R
<1>3. PICK x \in T : \A y \in T : ~ (<<y, x>> \in R)
  BY <1>2, WFMin
<1>4. \A y \in T : ~(y < x)
  BY <1>3 DEF R
<1> QED
  BY <1>4

(* FirstId gives one of the ids, the first if there is one, or none. *)
LEMMA FirstIdIn ==
  ASSUME NEW ids, NEW n \in Nat \ {0}, DOMAIN ids = 1..n
  PROVE  /\ FirstId(ids) = NoId \/ \E i \in 1..n : FirstId(ids) = ids[i]
         /\ ids[1] # NoId => FirstId(ids) = ids[1]
<1> DEFINE given == {i \in DOMAIN ids : ids[i] # NoId}
           First(i) == \A j \in given : i <= j
           f == CHOOSE i \in given : First(i)
<1>1. FirstId(ids) = IF given = {} THEN NoId ELSE ids[f]
  BY DEF FirstId
<1>2. ASSUME ids[1] # NoId PROVE FirstId(ids) = ids[1]
  <2>1. 1 \in given /\ First(1)
    BY <1>2
  <2>2. f \in given /\ First(f)
    <3> HIDE DEF given, First
    <3> QED
      BY <2>1
  <2>3. f = 1
    <3>1. f \in 1..n /\ f <= 1
      BY <2>1, <2>2
    <3> QED
      BY <3>1
  <2> QED
    BY <1>1, <2>1, <2>3
<1>3. FirstId(ids) = NoId \/ \E i \in 1..n : FirstId(ids) = ids[i]
  <2>1. CASE given # {}
    <3>1. given \in SUBSET Nat
      OBVIOUS
    <3>2. \E i \in given : First(i)
      BY <2>1, <3>1, NatMin
    <3>3. f \in given
      <4> HIDE DEF given, First
      <4> QED
        BY <3>2
    <3> QED
      BY <1>1, <2>1, <3>3
  <2>2. CASE given = {}
    BY <1>1, <2>2
  <2> QED
    BY <2>1, <2>2
<1> QED
  BY <1>2, <1>3

(* The same of two and three ids. *)
LEMMA FirstIdFacts ==
  ASSUME NEW a, NEW b, NEW c
  PROVE  /\ FirstId(<<a, b, c>>) \in {a, b, c, NoId}
         /\ a # NoId => FirstId(<<a, b, c>>) = a
         /\ FirstId(<<a, b>>) \in {a, b, NoId}
<1>1. ASSUME NEW t, DOMAIN t = 1..3
      PROVE  FirstId(t) \in {t[1], t[2], t[3], NoId} /\ (t[1] # NoId => FirstId(t) = t[1])
  <2>1. 3 \in Nat \ {0} /\ 1..3 = {1, 2, 3}
    OBVIOUS
  <2> QED
    BY <1>1, <2>1, FirstIdIn
<1>2. ASSUME NEW t, DOMAIN t = 1..2 PROVE FirstId(t) \in {t[1], t[2], NoId}
  <2>1. 2 \in Nat \ {0} /\ 1..2 = {1, 2}
    OBVIOUS
  <2> QED
    BY <1>2, <2>1, FirstIdIn
<1>3. DOMAIN <<a, b, c>> = 1..3 /\ <<a, b, c>>[1] = a /\ <<a, b, c>>[2] = b /\ <<a, b, c>>[3] = c
  OBVIOUS
<1>4. DOMAIN <<a, b>> = 1..2 /\ <<a, b>>[1] = a /\ <<a, b>>[2] = b
  OBVIOUS
<1> QED
  BY <1>1, <1>2, <1>3, <1>4

ChatKey(l, c) == MakePortalKey(l, c.type, c.chat)

(* The chat that chatFromEvent finds, and the key of its room. *)
LEMMA ChatFacts ==
  ASSUME NEW l \in Logins, NEW e \in Events
  PROVE  LET c == ChatFromEvent(l, e)
         IN  /\ ChatKey(l, c) \in PortalKeys
             /\ ChatKey(l, c) \in {<<c.chat, NoId>>, <<c.chat, l>>}
             /\ e.group # NoId => c.chat = e.group /\ ChatKey(l, c) = <<e.group, NoId>>
             /\ e.group = NoId /\ e.type # "group" => ChatKey(l, c) = <<c.chat, l>>
             /\ e.group = NoId /\ e.type # "group" /\ e.user # NoId => c.chat = e.user
<1> DEFINE c == ChatFromEvent(l, e)
<1>1. /\ e.group \in Ids \cup {NoId} /\ e.user \in Ids \cup {NoId} /\ e.sender \in Ids \cup {NoId}
      /\ l \in Ids
  BY RoutingAssumption DEF EventRecords
<1>2. /\ FirstId(<<e.user, e.sender, l>>) \in Ids \cup {NoId}
      /\ e.user # NoId => FirstId(<<e.user, e.sender, l>>) = e.user
  <2>1. ASSUME NEW a, NEW b, a = e.user, b = e.sender
        PROVE  /\ FirstId(<<a, b, l>>) \in {a, b, l, NoId}
               /\ a # NoId => FirstId(<<a, b, l>>) = a
    BY FirstIdFacts
  <2> QED
    BY <1>1, <2>1
<1>3. \/ /\ c = [type |-> "group", chat |-> e.group]
         /\ e.group # NoId \/ e.type = "group"
      \/ /\ c = [type |-> "private", chat |-> FirstId(<<e.user, e.sender, l>>)]
         /\ e.group = NoId
  BY DEF ChatFromEvent
<1> HIDE DEF c
<1>4. CASE /\ c = [type |-> "group", chat |-> e.group]
           /\ e.group # NoId \/ e.type = "group"
  <2>1. c.chat = e.group /\ ChatKey(l, c) = <<e.group, NoId>>
    BY <1>4 DEF ChatKey, MakePortalKey
  <2> QED
    BY <1>1, <1>4, <2>1 DEF PortalKeys, c
<1>5. CASE /\ c = [type |-> "private", chat |-> FirstId(<<e.user, e.sender, l>>)]
           /\ e.group = NoId
  <2>1. c.chat = FirstId(<<e.user, e.sender, l>>) /\ ChatKey(l, c) = <<c.chat, l>>
    BY <1>5 DEF ChatKey, MakePortalKey
  <2> QED
    BY <1>1, <1>2, <1>5, <2>1 DEF PortalKeys, c
<1> QED
  BY <1>3, <1>4, <1>5

(* A remote event for a chat that chatFromEvent finds. *)
RemoteOf(r, kind, l, e, id) ==
  LET c == ChatFromEvent(l, e)
  IN  r.kind = kind /\ r.key = ChatKey(l, c) /\ r.id = MakeMessageID(c.chat, id)

RecallTypes == {"friend_recall", "group_recall"}

(* A message, a recall or a like become what they are, in the chat of the  *)
(* event; other messages are the bridge's own.                             *)
LEMMA NoticeFacts ==
  ASSUME NEW l \in Logins, NEW e \in Events, NEW r \in HandleNotice(l, e)
  PROVE  /\ \A s \in HandleNotice(l, e) : s = r
         /\ r.key = ChatKey(l, ChatFromEvent(l, e))
         /\ e.type \in RecallTypes => RemoteOf(r, "remove", l, e, e.id)
         /\ e.type = "group_msg_emoji_like" => RemoteOf(r, "reaction", l, e, e.id)
         /\ r.kind = "message" => \E chat, data : r.id = MakeFakeMessageID(chat, data)
<1> DEFINE c == ChatFromEvent(l, e)
<1>1. CASE e.type = "group_msg_emoji_like"
  <2>1. HandleNotice(l, e) = HandleEmojiLike(l, e)
    BY <1>1 DEF HandleNotice, NoticeTypes
  <2> QED
    BY <1>1, <2>1 DEF HandleEmojiLike, Remote, RemoteOf, ChatKey, RecallTypes
<1>2. CASE e.type = "notify" /\ e.sub = "input_status"
  <2>1. HandleNotice(l, e) = HandleInputStatus(l, e)
    BY <1>2 DEF HandleNotice
  <2> QED
    BY <1>2, <2>1 DEF HandleInputStatus, Remote, ChatKey, RecallTypes
<1>3. CASE e.type \in RecallTypes
  <2>1. HandleNotice(l, e) = HandleRecall(l, e)
    BY <1>3 DEF HandleNotice, RecallTypes, NoticeTypes
  <2> QED
    BY <1>3, <2>1 DEF HandleRecall, Remote, RemoteOf, ChatKey, RecallTypes
<1>4. CASE e.type \in NoticeTypes /\ ~(e.type = "notify" /\ e.sub = "input_status")
  <2>1. HandleNotice(l, e) = {RemoteNotice(l, c, NoticeEventID(e), FirstId(<<e.user, l>>))}
    BY <1>4 DEF HandleNotice, NoticeTypes
  <2> QED
    BY <1>4, <2>1 DEF RemoteNotice, Remote, ChatKey, RecallTypes, NoticeTypes
<1>5. CASE /\ e.type # "group_msg_emoji_like" /\ ~(e.type = "notify" /\ e.sub = "input_status")
           /\ e.type \notin RecallTypes
           /\ ~(e.type \in NoticeTypes /\ ~(e.type = "notify" /\ e.sub = "input_status"))
  BY <1>5 DEF HandleNotice, RecallTypes
<1> QED
  BY <1>1, <1>2, <1>3, <1>4, <1>5

(* The remote event that an event becomes: one at most, its room and its id. *)
LEMMA RemoteFacts ==
  ASSUME NEW l \in Logins, NEW e \in Events, NEW r \in Handle(l, e)
  PROVE  /\ r.key \in PortalKeys
         /\ \A s \in Handle(l, e) : s = r
         /\ \E chat : r.key \in {<<chat, NoId>>, <<chat, l>>}
         /\ e.group = NoId /\ e.type # "group" => \E chat : r.key = <<chat, l>>
         /\ e.post \in {"message", "message_sent"} => RemoteOf(r, "message", l, e, e.id)
         /\ e.post = "notice" /\ e.type \in RecallTypes => RemoteOf(r, "remove", l, e, e.id)
         /\ e.post = "notice" /\ e.type = "group_msg_emoji_like" =>
              RemoteOf(r, "reaction", l, e, e.id)
         /\ r.kind = "message" =>
              \/ e.post \in {"message", "message_sent"}
              \/ \E chat, data : r.id = MakeFakeMessageID(chat, data)
              \/ \E chat : r.id = MakeMessageID(chat, RequestEventID(e))
<1> DEFINE c == ChatFromEvent(l, e)
<1>1. CASE e.post \in {"message", "message_sent"}
  <2>1. r \in HandleMessage(l, e) /\ Handle(l, e) = HandleMessage(l, e)
    BY <1>1 DEF Handle
  <2>2. RemoteOf(r, "message", l, e, e.id) /\ \A s \in HandleMessage(l, e) : s = r
    BY <2>1 DEF HandleMessage, Remote, RemoteOf, ChatKey
  <2> QED
    BY <1>1, <2>1, <2>2, ChatFacts DEF RemoteOf
<1>2. CASE e.post = "notice"
  <2>1. r \in HandleNotice(l, e) /\ Handle(l, e) = HandleNotice(l, e)
    BY <1>2 DEF Handle
  <2> QED
    BY <1>2, <2>1, ChatFacts, NoticeFacts
<1>3. CASE e.post = "request"
  <2>1. r \in HandleRequest(l, e) /\ Handle(l, e) = HandleRequest(l, e)
    BY <1>3 DEF Handle
  <2> DEFINE d == IF e.type = "group" /\ e.group # NoId
                    THEN [type |-> "group", chat |-> e.group] ELSE c
  <2>2. /\ r.key = ChatKey(l, d) /\ r.id = MakeMessageID(d.chat, RequestEventID(e))
        /\ \A s \in HandleRequest(l, e) : s = r
    BY <2>1 DEF HandleRequest, Remote, ChatKey
  <2>3. ChatKey(l, d) = ChatKey(l, c)
    <3>1. CASE e.type = "group" /\ e.group # NoId
      <4>1. ChatKey(l, d) = <<e.group, NoId>>
        BY <3>1 DEF ChatKey, MakePortalKey
      <4> QED
        BY <3>1, <4>1, ChatFacts
    <3>2. CASE ~(e.type = "group" /\ e.group # NoId)
      BY <3>2
    <3> QED
      BY <3>1, <3>2
  <2> HIDE DEF d
  <2> QED
    BY <1>3, <2>1, <2>2, <2>3, ChatFacts
<1>4. CASE e.post \notin {"message", "message_sent", "notice", "request"}
  <2>1. Handle(l, e) = {}
    BY <1>4 DEF Handle
  <2> QED
    BY <2>1
<1> QED
  BY <1>1, <1>2, <1>3, <1>4

-----------------------------------------------------------------------------
(* The theorems. *)

(* Before the first event. *)
THEOREM InitIInv == Init => IInv
<1> SUFFICES ASSUME Init PROVE IInv
  OBVIOUS
<1>1. /\ log = <<>> /\ DOMAIN log = {} /\ evt = NoId /\ checked = NoId /\ reader = "read"
      /\ self = NoId
      /\ queue = [k \in PortalKeys |-> <<>>] /\ DOMAIN live = PortalKeys
  BY DEF Init
<1>2. \A k \in PortalKeys : queue[k] = <<>> /\ DOMAIN queue[k] = {} /\ queue[k] \in Seq(Remotes)
  BY <1>1
<1>3. TypeOK /\ QueuesOfRemotes
  BY <1>1, <1>2 DEF TypeOK, QueuesOfRemotes
<1>4. CheckedIsSelf /\ IdentifiedEventsGoHome /\ RecallsHold
  BY <1>1 DEF CheckedIsSelf, IdentifiedEventsGoHome, RecallsHold
<1> QED
  BY <1>3, <1>4 DEF IInv

(* What nobody has touched. *)
LEMMA RoomsKept ==
  ASSUME log' = log, queue' = queue, live' = live
  PROVE  /\ IdentifiedEventsGoHome => IdentifiedEventsGoHome'
         /\ RecallsHold => RecallsHold'
<1>1. \A n : (IsRecall(n)' <=> IsRecall(n)) /\ (IsMessage(n)' <=> IsMessage(n))
             /\ RemotesOf(n)' = RemotesOf(n)
  BY DEF IsRecall, IsMessage, RemotesOf
<1>2. \A k, id : Gone(k, id) => Gone(k, id)'
  BY DEF Gone
<1> QED
  BY <1>1, <1>2 DEF IdentifiedEventsGoHome, RecallsHold, NotSentAfter

(* What the log holds. *)
LEMMA LogTypes ==
  ASSUME TypeOK, NEW n \in DOMAIN log
  PROVE  log[n].login \in Logins /\ log[n].e \in Events
<1>1. log \in Seq([e: Events, login: Logins, checked: {NoId, Home}])
  BY DEF TypeOK
<1>2. n \in 1..Len(log)
  BY <1>1
<1>3. log[n] \in [e: Events, login: Logins, checked: {NoId, Home}]
  BY <1>1, <1>2, ElementOfSeq
<1> QED
  BY <1>3

(* A remote event joins the queue of its room. *)
LEMMA Joins ==
  ASSUME NEW k \in PortalKeys, queue[k] \in Seq(Remotes), NEW r \in Remotes,
         queue'[k] = Append(queue[k], r), live' = live
  PROVE  /\ queue'[k] \in Seq(Remotes)
         /\ \A i \in DOMAIN queue'[k] :
              queue'[k][i] = r \/ \E j \in DOMAIN queue[k] : queue'[k][i] = queue[k][j]
         /\ \A id : Gone(k, id) /\ ~IsMessageOf(r, id) => Gone(k, id)'
         /\ r.kind = "remove" => Gone(k, r.id)'
<1>0. PICK n \in Nat : n = Len(queue[k])
  OBVIOUS
<1>1. /\ DOMAIN queue[k] = 1..n /\ queue'[k] \in Seq(Remotes) /\ DOMAIN queue'[k] = 1..(n + 1)
      /\ \A i \in 1..n : queue'[k][i] = queue[k][i]
      /\ queue'[k][n + 1] = r
  BY <1>0, AppendProperties
<1>2. \A i \in 1..(n + 1) : i \in 1..n \/ i = n + 1
  OBVIOUS
<1>3. ASSUME NEW id, Gone(k, id), ~IsMessageOf(r, id) PROVE Gone(k, id)'
  <2>1. CASE /\ id \notin live[k]
             /\ \A i \in DOMAIN queue[k] : ~IsMessageOf(queue[k][i], id)
    <3>1. \A i \in DOMAIN queue'[k] : ~IsMessageOf(queue'[k][i], id)
      BY <1>1, <1>2, <1>3, <2>1
    <3> QED
      BY <2>1, <3>1 DEF Gone, IsMessageOf
  <2>2. ASSUME NEW i \in DOMAIN queue[k], queue[k][i].kind = "remove", queue[k][i].id = id,
               \A j \in DOMAIN queue[k] : j > i => ~IsMessageOf(queue[k][j], id)
        PROVE  Gone(k, id)'
    <3>1. i \in DOMAIN queue'[k] /\ queue'[k][i] = queue[k][i]
      BY <1>1, <2>2
    <3>2. \A j \in DOMAIN queue'[k] : j > i => ~IsMessageOf(queue'[k][j], id)
      BY <1>1, <1>2, <1>3, <2>2
    <3> QED
      BY <2>2, <3>1, <3>2 DEF Gone, IsMessageOf
  <2> QED
    BY <1>3, <2>1, <2>2 DEF Gone
<1>4. ASSUME r.kind = "remove" PROVE Gone(k, r.id)'
  <2>1. n + 1 \in DOMAIN queue'[k] /\ \A j \in DOMAIN queue'[k] : ~(j > n + 1)
    BY <1>1
  <2>2. \E i \in DOMAIN queue'[k] :
          /\ queue'[k][i].kind = "remove" /\ queue'[k][i].id = r.id
          /\ \A j \in DOMAIN queue'[k] : j > i => ~IsMessageOf(queue'[k][j], r.id)
    BY <1>1, <1>4, <2>1
  <2> QED
    BY <2>2 DEF Gone, IsMessageOf
<1> QED
  BY <1>1, <1>2, <1>3, <1>4

(* An event is routed. *)
LEMMA RouteKeeps == IInv /\ Route => IInv'
<1> SUFFICES ASSUME IInv, Route PROVE IInv'
  OBVIOUS
<1>0. PICK l, e : l = RouteTo /\ e = evt
  OBVIOUS
<1>1. /\ l \in Logins /\ e \in Events /\ reader' = "read" /\ evt' = NoId
      /\ UNCHANGED <<self, checked, live>>
      /\ log' = Append(log, [e |-> e, login |-> l, checked |-> checked])
      /\ queue' = [k \in PortalKeys |->
                     LET mine == {r \in Handle(l, e) : r.key = k}
                     IN  IF mine = {} THEN queue[k] ELSE Append(queue[k], CHOOSE r \in mine : TRUE)]
  BY <1>0 DEF Route, IInv, CheckedIsSelf
<1>2. PICK n \in Nat : n = Len(log)
  BY DEF IInv, TypeOK
<1>3. [e |-> e, login |-> l, checked |-> checked] \in [e: Events, login: Logins, checked: {NoId, Home}]
  BY <1>1 DEF IInv, TypeOK
<1>4. /\ DOMAIN log = 1..n /\ DOMAIN log' = 1..(n + 1)
      /\ \A i \in 1..n : log'[i] = log[i]
      /\ log'[n + 1].e = e /\ log'[n + 1].login = l /\ log'[n + 1].checked = checked
      /\ log' \in Seq([e: Events, login: Logins, checked: {NoId, Home}])
  BY <1>1, <1>2, <1>3, AppendProperties DEF IInv, TypeOK
<1>16. \A i \in 1..n : log[i].login \in Logins /\ log[i].e \in Events
  BY <1>4, LogTypes DEF IInv
<1>5. /\ \A i \in 1..n : /\ IsRecall(i)' <=> IsRecall(i)
                         /\ IsMessage(i)' <=> IsMessage(i)
                         /\ RemotesOf(i)' = RemotesOf(i)
      /\ IsRecall(n + 1)' <=> e.post = "notice" /\ e.type \in RecallTypes
      /\ IsMessage(n + 1)' <=> e.post \in {"message", "message_sent"}
      /\ RemotesOf(n + 1)' = Handle(l, e)
  BY <1>2, <1>4 DEF IsRecall, IsMessage, RemotesOf, RecallTypes
<1>6. ASSUME NEW k \in PortalKeys
      PROVE  \/ queue'[k] = queue[k] /\ \A r \in Handle(l, e) : r.key # k
             \/ \E r \in Handle(l, e) : r.key = k /\ queue'[k] = Append(queue[k], r)
  <2> DEFINE mine == {r \in Handle(l, e) : r.key = k}
  <2>1. queue'[k] = IF mine = {} THEN queue[k] ELSE Append(queue[k], CHOOSE r \in mine : TRUE)
    BY <1>1
  <2>2. CASE mine = {}
    BY <2>1, <2>2
  <2>3. CASE mine # {}
    <3>1. PICK r : r = CHOOSE q \in mine : TRUE
      OBVIOUS
    <3>2. r \in mine
      BY <2>3, <3>1
    <3> QED
      BY <2>1, <2>3, <3>1, <3>2
  <2> QED
    BY <2>2, <2>3
<1>7. \A k \in PortalKeys : queue[k] \in Seq(Remotes) /\ \A i \in DOMAIN queue[k] : queue[k][i].key = k
  BY DEF IInv, QueuesOfRemotes, TypeOK
<1>8. Handle(l, e) \subseteq Remotes
  BY <1>1 DEF Remotes
<1>9. \A k \in PortalKeys : queue'[k] \in Seq(Remotes) /\ \A i \in DOMAIN queue'[k] : queue'[k][i].key = k
  <2> TAKE k \in PortalKeys
  <2>1. CASE queue'[k] = queue[k]
    BY <1>7, <2>1
  <2>2. ASSUME NEW r \in Handle(l, e), r.key = k, queue'[k] = Append(queue[k], r)
        PROVE  queue'[k] \in Seq(Remotes) /\ \A i \in DOMAIN queue'[k] : queue'[k][i].key = k
    <3>1. r \in Remotes
      BY <1>8
    <3>2. queue[k] \in Seq(Remotes) /\ live' = live
      BY <1>1, <1>7
    <3>3. /\ queue'[k] \in Seq(Remotes)
          /\ \A i \in DOMAIN queue'[k] :
               queue'[k][i] = r \/ \E j \in DOMAIN queue[k] : queue'[k][i] = queue[k][j]
      BY <2>2, <3>1, <3>2, Joins
    <3> QED
      BY <1>7, <2>2, <3>3
  <2> QED
    BY <1>6, <2>1, <2>2
<1>10. TypeOK'
  <2>1. DOMAIN queue' = PortalKeys
    BY <1>1
  <2> QED
    BY <1>1, <1>4, <1>9, <2>1 DEF IInv, TypeOK
<1>11. QueuesOfRemotes'
  <2>1. Remotes' = Remotes
    BY DEF Remotes
  <2> QED
    BY <1>9, <2>1 DEF QueuesOfRemotes, PortalKeys
<1>12. CheckedIsSelf'
  BY <1>1 DEF IInv, CheckedIsSelf
<1>13. IdentifiedEventsGoHome'
  <2>1. checked # NoId => e.self \in {NoId, l}
    BY <1>0 DEF IInv, CheckedIsSelf, Route, RouteTo
  <2>2. ASSUME NEW i \in 1..(n + 1), log'[i].checked # NoId
        PROVE  log'[i].e.self \in {NoId, log'[i].login}
    <3>1. CASE i \in 1..n
      BY <1>4, <2>2, <3>1 DEF IInv, IdentifiedEventsGoHome
    <3>2. CASE i = n + 1
      BY <1>4, <2>1, <2>2, <3>2
    <3> QED
      BY <3>1, <3>2
  <2> QED
    BY <1>4, <2>2 DEF IdentifiedEventsGoHome
<1>14. ASSUME NEW id \in MsgIds, NEW chat, ~(e.post \in {"message", "message_sent"} /\ e.id = id),
              NEW k \in PortalKeys, Gone(k, MakeMessageID(chat, id))
       PROVE  Gone(k, MakeMessageID(chat, id))'
  <2>0. PICK mid : mid = MakeMessageID(chat, id)
    OBVIOUS
  <2>1. CASE queue'[k] = queue[k]
    BY <1>1, <1>14, <2>1 DEF Gone, MakeMessageID
  <2>2. ASSUME NEW r \in Handle(l, e), r.key = k, queue'[k] = Append(queue[k], r)
        PROVE  Gone(k, MakeMessageID(chat, id))'
    <3>1. ~IsMessageOf(r, mid)
      <4> SUFFICES ASSUME r.kind = "message", r.id = mid PROVE FALSE
        BY DEF IsMessageOf
      <4>1. CASE e.post \in {"message", "message_sent"}
        BY <1>1, <1>14, <2>0, <4>1, RemoteFacts DEF RemoteOf, MakeMessageID
      <4>2. CASE \E c, data : r.id = MakeFakeMessageID(c, data)
        BY <2>0, <4>2 DEF MakeMessageID, MakeFakeMessageID
      <4>3. CASE \E c : r.id = MakeMessageID(c, RequestEventID(e))
        <5>1. RequestEventID(e) = id
          BY <2>0, <4>3 DEF MakeMessageID
        <5> QED
          BY <1>1, <1>14, <5>1, RoutingAssumption
      <4> QED
        BY <1>1, <4>1, <4>2, <4>3, RemoteFacts
    <3>2. Gone(k, mid)'
      BY <1>1, <1>7, <1>8, <1>14, <2>0, <2>2, <3>1, Joins
    <3> QED
      BY <2>0, <3>2 DEF Gone, MakeMessageID
  <2> QED
    BY <1>6, <2>1, <2>2
<1>15. RecallsHold'
  <2>1. ASSUME NEW i \in DOMAIN log', IsRecall(i)', log'[i].e.id # NoId, NotSentAfter(i)',
               NEW q \in RemotesOf(i)', NEW k, NEW mid, k = q.key, mid = q.id
        PROVE  Gone(k, mid)'
    <3>1. CASE i \in 1..n
      <4>1. /\ IsRecall(i) /\ log[i] = log'[i] /\ q \in RemotesOf(i)
            /\ log[i].login \in Logins /\ log[i].e \in Events
        BY <1>4, <1>5, <1>16, <2>1, <3>1
      <4>2. NotSentAfter(i)
        BY <1>4, <1>5, <2>1, <3>1, <4>1 DEF NotSentAfter
      <4>3. Gone(k, mid)
        BY <1>4, <2>1, <3>1, <4>1, <4>2 DEF IInv, RecallsHold
      <4>4. ~(e.post \in {"message", "message_sent"} /\ e.id = log[i].e.id)
        BY <1>4, <1>5, <2>1, <3>1, <4>1 DEF NotSentAfter
      <4>5. \E chat : mid = MakeMessageID(chat, log[i].e.id)
        BY <2>1, <4>1, RemoteFacts DEF RemotesOf, IsRecall, RecallTypes, RemoteOf
      <4>6. k \in PortalKeys
        BY <2>1, <4>1, RemoteFacts DEF RemotesOf
      <4>7. log[i].e.id \in MsgIds
        BY <2>1, <4>1, RoutingAssumption DEF EventRecords
      <4>8. PICK chat : mid = MakeMessageID(chat, log[i].e.id)
        BY <4>5
      <4>9. PICK id \in MsgIds : id = log[i].e.id
        BY <4>7
      <4>10. Gone(k, MakeMessageID(chat, id))'
        BY <1>14, <4>3, <4>4, <4>6, <4>8, <4>9
      <4> QED
        BY <4>8, <4>9, <4>10 DEF Gone, MakeMessageID
    <3>2. CASE i = n + 1
      <4>1. q \in Handle(l, e) /\ e.post = "notice" /\ e.type \in RecallTypes
        BY <1>5, <2>1, <3>2
      <4>2. q.kind = "remove" /\ k \in PortalKeys
        BY <1>1, <2>1, <4>1, RemoteFacts DEF RemoteOf
      <4>3. PICK r \in Handle(l, e) : r.key = k /\ queue'[k] = Append(queue[k], r)
        BY <1>6, <2>1, <4>1, <4>2
      <4>4. r = q
        BY <1>1, <4>1, <4>3, RemoteFacts
      <4>5. queue[k] \in Seq(Remotes) /\ live' = live /\ r \in Remotes /\ r.kind = "remove"
        BY <1>1, <1>7, <1>8, <4>2, <4>3, <4>4
      <4>6. Gone(k, r.id)'
        BY <4>2, <4>3, <4>5, Joins
      <4> QED
        BY <2>1, <4>4, <4>6 DEF Gone
    <3> QED
      BY <1>4, <3>1, <3>2
  <2> QED
    BY <2>1 DEF RecallsHold, Gone
<1> QED
  BY <1>10, <1>11, <1>12, <1>13, <1>15 DEF IInv

(* A portal handles the head of its queue. *)
Handled(r, ids) ==
  CASE r.kind = "message" -> ids \cup {r.id} [] r.kind = "remove" -> ids \ {r.id} [] OTHER -> ids

(* What was gone from a room, or about to be, stays so as it handles events. *)
LEMMA Leaves ==
  ASSUME NEW k \in PortalKeys, queue[k] \in Seq(Remotes), queue[k] # <<>>,
         queue'[k] = Tail(queue[k]), live'[k] = Handled(queue[k][1], live[k])
  PROVE  /\ queue'[k] \in Seq(Remotes)
         /\ \A i \in DOMAIN queue'[k] : \E j \in DOMAIN queue[k] : queue'[k][i] = queue[k][j]
         /\ \A id : Gone(k, id) => Gone(k, id)'
<1>0. PICK n \in Nat : n = Len(queue[k])
  OBVIOUS
<1>1. /\ DOMAIN queue[k] = 1..n /\ n >= 1 /\ queue'[k] \in Seq(Remotes)
      /\ DOMAIN queue'[k] = 1..(n - 1)
      /\ \A i \in 1..(n - 1) : i + 1 \in 1..n /\ queue'[k][i] = queue[k][i + 1]
  BY <1>0
<1>2. ASSUME NEW id, Gone(k, id) PROVE Gone(k, id)'
  <2> DEFINE h == queue[k][1]
  <2>1. CASE /\ id \notin live[k]
             /\ \A i \in DOMAIN queue[k] : ~IsMessageOf(queue[k][i], id)
    <3>1. 1 \in DOMAIN queue[k] /\ ~IsMessageOf(h, id)
      BY <1>1, <2>1
    <3>2. id \notin live'[k]
      BY <2>1, <3>1 DEF Handled, IsMessageOf
    <3>3. \A i \in DOMAIN queue'[k] : ~IsMessageOf(queue'[k][i], id)
      BY <1>1, <2>1
    <3> QED
      BY <3>2, <3>3 DEF Gone, IsMessageOf
  <2>2. ASSUME NEW i \in DOMAIN queue[k], queue[k][i].kind = "remove", queue[k][i].id = id,
               \A j \in DOMAIN queue[k] : j > i => ~IsMessageOf(queue[k][j], id)
        PROVE  Gone(k, id)'
    <3>1. CASE i = 1
      <4>1. id \notin live'[k]
        BY <2>2, <3>1 DEF Handled
      <4>2. \A j \in DOMAIN queue'[k] : ~IsMessageOf(queue'[k][j], id)
        <5> TAKE j \in DOMAIN queue'[k]
        <5>1. j + 1 \in DOMAIN queue[k] /\ j + 1 > 1 /\ queue'[k][j] = queue[k][j + 1]
          BY <1>1
        <5> QED
          BY <2>2, <3>1, <5>1
      <4> QED
        BY <4>1, <4>2 DEF Gone, IsMessageOf
    <3>2. CASE i # 1
      <4>1. PICK m \in 1..(n - 1) : i = m + 1
        <5>1. i - 1 \in 1..(n - 1) /\ i = (i - 1) + 1
          BY <1>1, <3>2
        <5> QED
          BY <5>1
      <4>2. /\ m \in DOMAIN queue'[k]
            /\ queue'[k][m].kind = "remove" /\ queue'[k][m].id = id
        BY <1>1, <2>2, <4>1
      <4>3. ASSUME NEW j \in DOMAIN queue'[k], j > m PROVE ~IsMessageOf(queue'[k][j], id)
        <5>1. j + 1 \in DOMAIN queue[k] /\ j + 1 > i /\ queue'[k][j] = queue[k][j + 1]
          BY <1>1, <4>1, <4>3
        <5> QED
          BY <2>2, <5>1
      <4> QED
        BY <4>2, <4>3 DEF Gone, IsMessageOf
    <3> QED
      BY <3>1, <3>2
  <2> QED
    BY <1>2, <2>1, <2>2 DEF Gone
<1> QED
  BY <1>1, <1>2

(* A portal's step keeps the invariant. *)
LEMMA HandleKeeps == ASSUME IInv, NEW k \in PortalKeys, PortalHandle(k) PROVE IInv'
<1>1. /\ queue[k] # <<>> /\ UNCHANGED <<self, reader, evt, checked, log>>
      /\ queue[k] \in Seq(Remotes)
      /\ DOMAIN queue = PortalKeys /\ DOMAIN live = PortalKeys
  BY DEF PortalHandle, IInv, QueuesOfRemotes, TypeOK
<1>2. queue' = [queue EXCEPT ![k] = Tail(@)] /\ Head(queue[k]) = queue[k][1]
  BY <1>1 DEF PortalHandle
<1>3. live' = [live EXCEPT ![k] = Handled(queue[k][1], live[k])]
  BY <1>2 DEF PortalHandle, Handled
<1>4. /\ queue'[k] \in Seq(Remotes)
      /\ \A i \in DOMAIN queue'[k] : \E j \in DOMAIN queue[k] : queue'[k][i] = queue[k][j]
      /\ \A id : Gone(k, id) => Gone(k, id)'
  <2>1. queue'[k] = Tail(queue[k]) /\ live'[k] = Handled(queue[k][1], live[k])
    BY <1>1, <1>2, <1>3
  <2> QED
    BY <1>1, <2>1, Leaves
<1>5. ASSUME NEW j \in PortalKeys, j # k
      PROVE  queue'[j] = queue[j] /\ live'[j] = live[j] /\ \A id : Gone(j, id) => Gone(j, id)'
  <2>1. queue'[j] = queue[j] /\ live'[j] = live[j]
    BY <1>1, <1>2, <1>3, <1>5
  <2> QED
    BY <2>1 DEF Gone
<1>6. \A j \in PortalKeys : queue'[j] \in Seq(Remotes) /\ \A i \in DOMAIN queue'[j] : queue'[j][i].key = j
  <2> TAKE j \in PortalKeys
  <2>1. queue[j] \in Seq(Remotes) /\ \A i \in DOMAIN queue[j] : queue[j][i].key = j
    BY DEF IInv, QueuesOfRemotes, TypeOK
  <2>2. CASE j = k
    BY <1>4, <2>1, <2>2
  <2>3. CASE j # k
    BY <1>5, <2>1, <2>3
  <2> QED
    BY <2>2, <2>3
<1>7. TypeOK'
  <2>1. DOMAIN queue' = PortalKeys /\ DOMAIN live' = PortalKeys
    BY <1>1, <1>2, <1>3
  <2> QED
    BY <1>1, <1>6, <2>1 DEF IInv, TypeOK
<1>8. QueuesOfRemotes'
  <2>1. Remotes' = Remotes
    BY DEF Remotes
  <2> QED
    BY <1>6, <2>1 DEF QueuesOfRemotes, PortalKeys
<1>9. CheckedIsSelf' /\ IdentifiedEventsGoHome'
  BY <1>1 DEF IInv, CheckedIsSelf, IdentifiedEventsGoHome
<1>10. RecallsHold'
  <2>1. \A n : /\ IsRecall(n)' <=> IsRecall(n)
               /\ NotSentAfter(n)' <=> NotSentAfter(n)
               /\ RemotesOf(n)' = RemotesOf(n)
    BY <1>1 DEF IsRecall, IsMessage, RemotesOf, NotSentAfter
  <2>2. ASSUME NEW n \in DOMAIN log, NEW q \in RemotesOf(n), NEW j, NEW mid,
               j = q.key, mid = q.id, Gone(j, mid)
        PROVE  Gone(j, mid)'
    <3>1. log[n].login \in Logins /\ log[n].e \in Events
      BY <2>2, LogTypes DEF IInv
    <3>2. j \in PortalKeys
      BY <2>2, <3>1, RemoteFacts DEF RemotesOf
    <3>3. CASE j = k
      BY <1>4, <2>2, <3>3
    <3>4. CASE j # k
      BY <1>5, <2>2, <3>2, <3>4
    <3> QED
      BY <3>3, <3>4
  <2>3. ASSUME NEW n \in DOMAIN log', IsRecall(n)', log'[n].e.id # NoId, NotSentAfter(n)',
               NEW q \in RemotesOf(n)', NEW j, NEW mid, j = q.key, mid = q.id
        PROVE  Gone(j, mid)'
    <3>1. Gone(j, mid)
      BY <1>1, <2>1, <2>3 DEF IInv, RecallsHold
    <3> QED
      BY <1>1, <2>1, <2>2, <2>3, <3>1
  <2> QED
    BY <2>3 DEF RecallsHold, Gone
<1> QED
  BY <1>7, <1>8, <1>9, <1>10 DEF IInv

(* Every step, or none. *)
THEOREM NextIInv == IInv /\ [Next]_vars => IInv'
<1> SUFFICES ASSUME IInv, [Next]_vars PROVE IInv'
  OBVIOUS
<1> DEFINE Rooms == log' = log /\ queue' = queue /\ live' = live
<1>1. ASSUME Rooms, CheckedIsSelf', self' \in {NoId, Home}, reader' \in {"read", "route"},
             evt' \in Events \cup {NoId}, checked' \in {NoId, Home}
      PROVE  IInv'
  <2>1. TypeOK'
    BY <1>1 DEF IInv, TypeOK
  <2>2. QueuesOfRemotes'
    <3>1. Remotes' = Remotes
      BY DEF Remotes
    <3> QED
      BY <1>1, <3>1 DEF IInv, QueuesOfRemotes, PortalKeys
  <2> QED
    BY <1>1, <2>1, <2>2, RoomsKept DEF IInv
<1>2. CASE SetSelf
  BY <1>1, <1>2 DEF SetSelf, IInv, TypeOK, CheckedIsSelf
<1>3. ASSUME NEW e \in Events, ReadEvent(e) PROVE IInv'
  BY <1>1, <1>3 DEF ReadEvent, IInv, TypeOK, CheckedIsSelf
<1>4. CASE RouteNowhere
  BY <1>1, <1>4 DEF RouteNowhere, IInv, TypeOK, CheckedIsSelf
<1>5. CASE Route
  BY <1>5, RouteKeeps
<1>6. ASSUME NEW k \in PortalKeys, PortalHandle(k) PROVE IInv'
  BY <1>6, HandleKeeps
<1>7. CASE UNCHANGED vars
  BY <1>1, <1>7 DEF vars, IInv, TypeOK, CheckedIsSelf
<1> QED
  BY <1>2, <1>3, <1>4, <1>5, <1>6, <1>7 DEF Next

(* The inductive invariant holds. *)
THEOREM Invariance == Spec => []IInv
<1> QED
  BY InitIInv, NextIInv, PTL DEF Spec

(* The reader, its event, the log and the portals are of their types, and  *)
(* a remote event waits only for the portal it is for.                     *)
THEOREM TypeCorrect == Spec => []TypeOK
<1>1. IInv => TypeOK
  BY DEF IInv
<1> QED
  BY <1>1, Invariance, PTL

(* readLoop compares an event's self_id with the account, and only         *)
(* handleOneBotEvent, later, looks up the login: once the account is known *)
(* at the first, the event goes to the login it names.                     *)
THEOREM EventsGoHome == Spec => []IdentifiedEventsGoHome
<1>1. IInv => IdentifiedEventsGoHome
  BY DEF IInv
<1> QED
  BY <1>1, Invariance, PTL

(* The keys of makePortalKey: the events of two logins never meet in the   *)
(* room of a private chat.                                                 *)
THEOREM PrivateRooms == Spec => []PrivateRoomsAreOwn
<1>1. ASSUME TypeOK PROVE PrivateRoomsAreOwn
  <2>1. ASSUME NEW m \in DOMAIN log, NEW n \in DOMAIN log,
               NEW r \in RemotesOf(m), NEW q \in RemotesOf(n),
               r.key = q.key, log[m].e.group = NoId, log[m].e.type # "group"
        PROVE  log[m].login = log[n].login
    <3>1. /\ log[m].login \in Logins /\ log[m].e \in Events
          /\ log[n].login \in Logins /\ log[n].e \in Events
      BY <1>1, LogTypes
    <3>2. PICK chat : r.key = <<chat, log[m].login>>
      BY <2>1, <3>1, RemoteFacts DEF RemotesOf
    <3>3. PICK chat2 : q.key \in {<<chat2, NoId>>, <<chat2, log[n].login>>}
      BY <3>1, RemoteFacts DEF RemotesOf
    <3>4. log[m].login # NoId
      BY <3>1, RoutingAssumption
    <3> QED
      BY <2>1, <3>2, <3>3, <3>4
  <2> QED
    BY <2>1 DEF PrivateRoomsAreOwn
<1>2. IInv => PrivateRoomsAreOwn
  BY <1>1 DEF IInv
<1> QED
  BY <1>2, Invariance, PTL

(* Two events about one message find one room and one id. *)
LEMMA SameMessageSameRoom ==
  ASSUME TypeOK, NEW m \in DOMAIN log, NEW n \in DOMAIN log, SameMessage(m, n),
         NEW r, NEW q, NEW a, NEW b,
         RemoteOf(r, a, log[m].login, log[m].e, log[m].e.id),
         RemoteOf(q, b, log[n].login, log[n].e, log[n].e.id)
  PROVE  q.key = r.key /\ q.id = r.id
<1> DEFINE c == ChatFromEvent(log[m].login, log[m].e)
           d == ChatFromEvent(log[n].login, log[n].e)
<1>1. /\ log[m].login \in Logins /\ log[m].e \in Events
      /\ log[n].login \in Logins /\ log[n].e \in Events
  BY LogTypes
<1>2. c.chat = d.chat /\ ChatKey(log[m].login, c) = ChatKey(log[n].login, d)
  <2>1. CASE log[m].e.group # NoId /\ log[m].e.group = log[n].e.group
    BY <1>1, <2>1, ChatFacts
  <2>2. CASE /\ log[m].login = log[n].login
             /\ log[m].e.group = NoId /\ log[n].e.group = NoId
             /\ log[m].e.user # NoId /\ log[m].e.user = log[n].e.user
             /\ "group" \notin {log[m].e.type, log[n].e.type}
    BY <1>1, <2>2, ChatFacts
  <2> QED
    BY <2>1, <2>2 DEF SameMessage
<1>3. log[m].e.id = log[n].e.id
  BY DEF SameMessage
<1> QED
  BY <1>2, <1>3 DEF RemoteOf

(* A recall or a like carries neither message_type nor the sender's        *)
(* fields; chatFromEvent still finds the room of the message it is about:  *)
(* the removal takes the message out, and the reaction names it.           *)
THEOREM FollowUpsFind == Spec => []FollowUpsHit
<1>1. ASSUME IInv PROVE RecallsRemove
  <2>1. ASSUME \A k \in PortalKeys : queue[k] = <<>>,
               NEW m \in DOMAIN log, NEW n \in DOMAIN log,
               m < n, IsMessage(m), IsRecall(n), SameMessage(m, n),
               \A p \in DOMAIN log : p > n /\ IsMessage(p) => log[p].e.id # log[m].e.id,
               NEW r \in RemotesOf(m)
        PROVE  r.id \notin live[r.key]
    <3>1. /\ log[m].login \in Logins /\ log[m].e \in Events
          /\ log[n].login \in Logins /\ log[n].e \in Events
      BY <1>1, LogTypes DEF IInv
    <3>2. PICK q : q \in RemotesOf(n)
      <4>1. /\ log[n].e.post = "notice" /\ log[n].e.type \in RecallTypes
        BY <2>1 DEF IsRecall, RecallTypes
      <4>2. RemotesOf(n) = HandleRecall(log[n].login, log[n].e)
        BY <4>1 DEF RemotesOf, Handle, HandleNotice, RecallTypes, NoticeTypes
      <4> QED
        BY <4>2 DEF HandleRecall
    <3>3. RemoteOf(r, "message", log[m].login, log[m].e, log[m].e.id)
      BY <2>1, <3>1, RemoteFacts DEF RemotesOf, IsMessage
    <3>4. RemoteOf(q, "remove", log[n].login, log[n].e, log[n].e.id)
      BY <2>1, <3>1, <3>2, RemoteFacts DEF RemotesOf, IsRecall, RecallTypes
    <3>5. q.key = r.key /\ q.id = r.id
      <4>1. TypeOK /\ m \in DOMAIN log /\ n \in DOMAIN log /\ SameMessage(m, n)
        BY <1>1, <2>1 DEF IInv
      <4> QED
        BY <3>3, <3>4, <4>1, SameMessageSameRoom
    <3>6. NotSentAfter(n) /\ log[n].e.id # NoId
      BY <2>1 DEF NotSentAfter, SameMessage
    <3>7. Gone(q.key, q.id)
      BY <1>1, <2>1, <3>2, <3>6 DEF IInv, RecallsHold
    <3>8. q.key \in PortalKeys
      BY <3>1, <3>2, RemoteFacts DEF RemotesOf
    <3>9. queue[q.key] = <<>> /\ DOMAIN queue[q.key] = {}
      BY <2>1, <3>8
    <3> QED
      BY <3>5, <3>7, <3>9 DEF Gone
  <2> QED
    BY <2>1 DEF RecallsRemove
<1>2. ASSUME IInv PROVE LikesHit
  <2>1. ASSUME NEW m \in DOMAIN log, NEW n \in DOMAIN log,
               IsMessage(m), IsLike(n), SameMessage(m, n),
               NEW r \in RemotesOf(m), NEW q \in RemotesOf(n)
        PROVE  q.key = r.key /\ q.id = r.id
    <3>1. /\ log[m].login \in Logins /\ log[m].e \in Events
          /\ log[n].login \in Logins /\ log[n].e \in Events
      BY <1>2, LogTypes DEF IInv
    <3>2. RemoteOf(r, "message", log[m].login, log[m].e, log[m].e.id)
      BY <2>1, <3>1, RemoteFacts DEF RemotesOf, IsMessage
    <3>3. RemoteOf(q, "reaction", log[n].login, log[n].e, log[n].e.id)
      BY <2>1, <3>1, RemoteFacts DEF RemotesOf, IsLike
    <3> QED
      BY <1>2, <2>1, <3>2, <3>3, SameMessageSameRoom DEF IInv
  <2> QED
    BY <2>1 DEF LikesHit
<1>3. IInv => FollowUpsHit
  BY <1>1, <1>2 DEF FollowUpsHit
<1> QED
  BY <1>3, Invariance, PTL
=============================================================================
