-------------------------- MODULE MatrixPortal_proof --------------------------
(***************************************************************************)
(* Theorems about MatrixPortal, for any number of messages and changes:    *)
(* types, that no QQ message is in the room twice (IInv), and that the     *)
(* room and the reactions are in step with the QQ chat once nothing is     *)
(* under way (IInv and Sync).                                              *)
(***************************************************************************)
EXTENDS MatrixPortal, SequenceTheorems, TLAPS

Entries == [there: BOOLEAN, like: BOOLEAN]
MatrixEvents == [op: {"send"} \cup ChatOps, m: Msgs]
QQEvents(n) == [op: {"message", "recall"}, id: 1..n]
Calls == [op: {"send"} \cup ChatOps, m: Msgs, stage: {"sent", "done", "refused"}, id: 0..MaxChat]

-----------------------------------------------------------------------------
(* The inductive invariant, in named parts. *)

LateAreCalls == late \subseteq Calls

(* The ids in the room are of messages in the chat; that of an answer to   *)
(* be returned is nobody's yet.                                            *)
OwnIds ==
  /\ \A m \in Msgs : db[m] # None => db[m] \in {Chat} \X (1..Len(chat))
  /\ copies \subseteq {Chat} \X (1..Len(chat))
  /\ call.op = "send" /\ call.stage = "done" =>
       call.id \in 1..Len(chat) /\ <<Chat, call.id>> \notin Known

(* No two of them are the same. *)
Apart ==
  /\ \A m \in Msgs : db[m] # None => db[m] \notin copies
  /\ \A m, n \in Msgs : m # n /\ db[m] # None => db[m] # db[n]

IInv ==
  /\ TypeOK
  /\ LateAreCalls
  /\ OwnIds
  /\ Apart

-----------------------------------------------------------------------------
(* The types again, with the numbers of the chat for its domain. *)
LEMMA TypeFacts ==
  ASSUME TypeOK
  PROVE  /\ chat \in Seq(Entries) /\ Len(chat) \in Nat /\ Len(chat) <= MaxChat
         /\ DOMAIN chat = 1..Len(chat)
         /\ wire \in Seq(QQEvents(Len(chat)))
         /\ queue \in Seq(MatrixEvents \cup QQEvents(Len(chat)))
         /\ call \in {NoCall} \cup Calls
         /\ call.op \in ChatOps => call.id \in 1..Len(chat)
         /\ \A c \in late : c.op \in ChatOps => c.id \in 1..Len(chat)
         /\ \A m \in Msgs : db[m] \in MessageIDs \cup {None}
         /\ MaxChat \in Nat
<1>1. /\ chat \in Seq(Entries) /\ Len(chat) <= MaxChat /\ MaxChat \in Nat
  BY MatrixPortalAssumption DEF TypeOK, Entries
<1>2. Len(chat) \in Nat /\ DOMAIN chat = 1..Len(chat)
  BY <1>1
<1> QED
  BY <1>1, <1>2 DEF TypeOK, QQEvents, MatrixEvents, Calls

(* More messages, more events about them. *)
LEMMA EventsGrow ==
  ASSUME NEW n \in Nat, NEW k \in Nat, n <= k
  PROVE  /\ QQEvents(n) \subseteq QQEvents(k)
         /\ \A q \in Seq(QQEvents(n)) : q \in Seq(QQEvents(k))
         /\ \A q \in Seq(MatrixEvents \cup QQEvents(n)) : q \in Seq(MatrixEvents \cup QQEvents(k))
<1>1. 1..n \subseteq 1..k
  OBVIOUS
<1>2. QQEvents(n) \subseteq QQEvents(k)
  BY <1>1 DEF QQEvents
<1> QED
  BY <1>2, SeqMonotonic

(* What carrying out a call does to the chat and to the events under way.  *)
LEMMA ExecuteFacts ==
  ASSUME TypeOK, NEW c, c.op \in {"send"} \cup ChatOps,
         c.op \in ChatOps => c.id \in 1..Len(chat), Execute(c)
  PROVE  /\ chat' \in Seq(Entries) /\ Len(chat') <= MaxChat
         /\ Len(chat') = IF c.op = "send" THEN Len(chat) + 1 ELSE Len(chat)
         /\ \A id \in 1..Len(chat) :
              /\ chat'[id].there <=> chat[id].there /\ ~(c.op = "remove" /\ id = c.id)
              /\ ~(c.op \in {"like", "unlike"} /\ id = c.id) =>
                   (chat'[id].like <=> chat[id].like)
         /\ c.op \in {"like", "unlike"} => (chat'[c.id].like <=> c.op = "like")
         /\ c.op = "send" => chat'[Len(chat) + 1].there /\ ~chat'[Len(chat) + 1].like
         /\ c.op = "send" => wire' = Append(wire, [op |-> "message", id |-> Len(chat) + 1])
         /\ c.op = "remove" => wire' = Append(wire, [op |-> "recall", id |-> c.id])
         /\ c.op \in {"like", "unlike"} => wire' = wire
         /\ wire' \in Seq(QQEvents(Len(chat')))
<1>0. /\ chat \in Seq(Entries) /\ Len(chat) \in Nat /\ Len(chat) <= MaxChat /\ MaxChat \in Nat
      /\ wire \in Seq(QQEvents(Len(chat)))
      /\ DOMAIN chat = 1..Len(chat)
  BY TypeFacts
<1>1. CASE c.op = "send"
  <2> DEFINE new == [there |-> TRUE, like |-> FALSE]
  <2>1. /\ Len(chat) < MaxChat
        /\ chat' = Append(chat, new)
        /\ wire' = Append(wire, [op |-> "message", id |-> Len(chat) + 1])
    BY <1>1 DEF Execute
  <2>2. new \in Entries
    BY DEF Entries
  <2>3. /\ chat' \in Seq(Entries) /\ Len(chat') = Len(chat) + 1
        /\ \A id \in 1..Len(chat) : chat'[id] = chat[id]
        /\ chat'[Len(chat) + 1] = new
    BY <1>0, <2>1, <2>2, AppendProperties
  <2>4. wire' \in Seq(QQEvents(Len(chat')))
    <3>1. [op |-> "message", id |-> Len(chat) + 1] \in QQEvents(Len(chat'))
      BY <1>0, <2>3 DEF QQEvents
    <3>2. wire \in Seq(QQEvents(Len(chat')))
      <4>1. Len(chat) \in Nat /\ Len(chat') \in Nat /\ Len(chat) <= Len(chat')
        BY <1>0, <2>3
      <4>2. \A q \in Seq(QQEvents(Len(chat))) : q \in Seq(QQEvents(Len(chat')))
        BY <4>1, EventsGrow
      <4> QED
        BY <1>0, <4>2
    <3> QED
      BY <2>1, <3>1, <3>2, AppendProperties
  <2>5. c.op \notin {"remove", "like", "unlike"}
    BY <1>1
  <2> QED
    BY <1>0, <1>1, <2>1, <2>3, <2>4, <2>5
<1>2. CASE c.op = "remove"
  <2>1. /\ chat' = [chat EXCEPT ![c.id].there = FALSE]
        /\ wire' = Append(wire, [op |-> "recall", id |-> c.id])
        /\ c.id \in 1..Len(chat)
    BY <1>2 DEF Execute, ChatOps
  <2>2. /\ chat' \in Seq(Entries) /\ Len(chat') = Len(chat)
        /\ \A id \in 1..Len(chat) :
             /\ id # c.id => chat'[id] = chat[id]
             /\ chat'[c.id].like = chat[c.id].like /\ ~chat'[c.id].there
    <3>1. chat[c.id] \in Entries
      BY <1>0, <2>1
    <3>2. chat' = [chat EXCEPT ![c.id] = [chat[c.id] EXCEPT !.there = FALSE]]
      BY <2>1
    <3>3. [chat[c.id] EXCEPT !.there = FALSE] \in Entries
      BY <3>1 DEF Entries
    <3>4. [chat[c.id] EXCEPT !.there = FALSE].like = chat[c.id].like /\ ~[chat[c.id] EXCEPT !.there = FALSE].there
      BY <3>1 DEF Entries
    <3> QED
      BY <1>0, <2>1, <3>2, <3>3, <3>4, ExceptSeq
  <2>3. wire' \in Seq(QQEvents(Len(chat')))
    <3>1. [op |-> "recall", id |-> c.id] \in QQEvents(Len(chat'))
      BY <2>1, <2>2 DEF QQEvents
    <3> QED
      BY <1>0, <2>1, <2>2, <3>1, AppendProperties
  <2> QED
    BY <1>0, <1>2, <2>1, <2>2, <2>3
<1>3. CASE c.op \in {"like", "unlike"}
  <2>1. /\ chat' = [chat EXCEPT ![c.id].like = LikeSet(c)]
        /\ wire' = wire
        /\ c.id \in 1..Len(chat)
    BY <1>3 DEF Execute, ChatOps
  <2>2. /\ chat' \in Seq(Entries) /\ Len(chat') = Len(chat)
        /\ \A id \in 1..Len(chat) :
             /\ id # c.id => chat'[id] = chat[id]
             /\ chat'[c.id].there = chat[c.id].there
             /\ chat'[c.id].like <=> c.op = "like"
    <3>0. LikeSet(c) \in BOOLEAN /\ (LikeSet(c) <=> c.op = "like")
      BY DEF LikeSet
    <3>1. chat[c.id] \in Entries
      BY <1>0, <2>1
    <3> DEFINE e == [chat[c.id] EXCEPT !.like = LikeSet(c)]
    <3>2. chat' = [chat EXCEPT ![c.id] = e]
      BY <2>1
    <3>3. e \in Entries /\ e.there = chat[c.id].there /\ e.like = LikeSet(c)
      BY <3>0, <3>1 DEF Entries
    <3> QED
      BY <1>0, <2>1, <3>0, <3>2, <3>3, ExceptSeq
  <2> QED
    BY <1>0, <1>3, <2>1, <2>2
<1> QED
  BY <1>1, <1>2, <1>3 DEF ChatOps

(* The chat grows or stays as long; everything typed over it stays typed.  *)
LEMMA TypeKept ==
  ASSUME TypeOK, LateAreCalls,
         up' \in BOOLEAN, missed' \in BOOLEAN, lossy' \in BOOLEAN,
         chat' \in Seq(Entries), Len(chat) <= Len(chat'), Len(chat') <= MaxChat,
         wire' \in Seq(QQEvents(Len(chat'))),
         queue' \in Seq(MatrixEvents \cup QQEvents(Len(chat'))),
         call' \in {NoCall} \cup Calls,
         call'.op \in ChatOps => call'.id \in 1..Len(chat'),
         \A c \in late' : c \in late \/ (c = call /\ c # NoCall /\ c.stage = "sent"),
         db' \in [Msgs -> MessageIDs \cup {None}],
         gone' \subseteq typed', liked' \subseteq typed', typed' \subseteq Msgs,
         copies' \subseteq MessageIDs, recalled' \subseteq MessageIDs,
         ops' \in 0..MaxOps
  PROVE  TypeOK' /\ LateAreCalls'
<1>1. /\ Len(chat) \in Nat /\ Len(chat') \in Nat /\ DOMAIN chat = 1..Len(chat)
      /\ DOMAIN chat' = 1..Len(chat')
  BY TypeFacts
<1>2. \A id : id \in 1..Len(chat) => id \in DOMAIN chat'
  BY <1>1
<1>3. late' \subseteq Calls
  BY DEF LateAreCalls, TypeOK, Calls
<1>4. \A c \in late' : c.stage = "sent" /\ (c.op \in ChatOps => c.id \in DOMAIN chat')
  BY <1>1, <1>2 DEF TypeOK
<1>5. /\ chat' \in Seq([there: BOOLEAN, like: BOOLEAN])
      /\ wire' \in Seq([op: {"message", "recall"}, id: DOMAIN chat'])
      /\ queue' \in Seq([op: {"send"} \cup ChatOps, m: Msgs]
                   \cup [op: {"message", "recall"}, id: DOMAIN chat'])
      /\ call' \in {NoCall} \cup [op: {"send"} \cup ChatOps, m: Msgs,
                             stage: {"sent", "done", "refused"}, id: 0..MaxChat]
      /\ call'.op \in ChatOps => call'.id \in DOMAIN chat'
  BY <1>1 DEF Entries, QQEvents, MatrixEvents, Calls
<1> QED
  BY <1>3, <1>4, <1>5 DEF TypeOK, LateAreCalls

(* The first event of the queue leaves it.                                 *)
LEMMA HandleFacts ==
  ASSUME TypeOK, NEW kinds, Handling(kinds), queue' = Tail(queue)
  PROVE  /\ queue' \in Seq(MatrixEvents \cup QQEvents(Len(chat)))
         /\ Event \in MatrixEvents \cup QQEvents(Len(chat))
         /\ Event.op \in {"send"} \cup ChatOps => Event \in MatrixEvents /\ Event.m \in Msgs
         /\ Event.op \in {"message", "recall"} =>
              Event \in QQEvents(Len(chat)) /\ Event.id \in 1..Len(chat)
<1> DEFINE E == MatrixEvents \cup QQEvents(Len(chat))
<1>1. queue \in Seq(E) /\ queue # <<>>
  BY TypeFacts DEF Handling
<1> HIDE DEF E
<1>2. Head(queue) \in E /\ Tail(queue) \in Seq(E)
  BY <1>1, HeadTailProperties
<1>3. \A e \in E : /\ e.op \in {"send"} \cup ChatOps => e \in MatrixEvents /\ e.m \in Msgs
                   /\ e.op \in {"message", "recall"} => e \in QQEvents(Len(chat)) /\ e.id \in 1..Len(chat)
  BY DEF E, MatrixEvents, QQEvents, ChatOps
<1> QED
  BY <1>2, <1>3 DEF E, Event

(* The ids of the messages in the chat are ids of the portal.              *)
LEMMA ChatIds ==
  ASSUME TypeOK, NEW id \in 1..Len(chat)
  PROVE  MakeMessageID(id) \in MessageIDs /\ MakeMessageID(id) \in {Chat} \X (1..Len(chat))
         /\ ParseMessageID(MakeMessageID(id)) = id
<1>1. id \in 1..MaxChat
  BY TypeFacts
<1> QED
  BY <1>1 DEF MakeMessageID, MessageIDs, ParseMessageID, QQIds

(* An empty room and an empty chat. *)
THEOREM InitIInv == Init => IInv
<1> SUFFICES ASSUME Init PROVE IInv
  OBVIOUS
<1>1. chat = <<>> /\ wire = <<>> /\ queue = <<>> /\ Len(chat) = 0 /\ \A S : <<>> \in Seq(S)
  BY DEF Init
<1>2. TypeOK
  <2>1. MaxChat \in Nat /\ MaxOps \in Nat
    BY MatrixPortalAssumption
  <2>2. NoCall.op \notin ChatOps
    BY DEF NoCall, ChatOps
  <2>3. /\ chat \in Seq([there: BOOLEAN, like: BOOLEAN])
        /\ wire \in Seq([op: {"message", "recall"}, id: DOMAIN chat])
        /\ queue \in Seq([op: {"send"} \cup ChatOps, m: Msgs]
                   \cup [op: {"message", "recall"}, id: DOMAIN chat])
    BY <1>1
  <2>4. db \in [Msgs -> MessageIDs \cup {None}]
    BY DEF Init
  <2>5. missed \in BOOLEAN /\ lossy \in BOOLEAN /\ up \in BOOLEAN /\ call = NoCall /\ late = {}
        /\ typed = {} /\ gone = {} /\ liked = {} /\ copies = {} /\ recalled = {} /\ ops = 0
    BY DEF Init
  <2> QED
    BY <1>1, <2>1, <2>2, <2>3, <2>4, <2>5 DEF TypeOK
<1>3. LateAreCalls /\ Apart
  BY DEF Init, LateAreCalls, Apart
<1>4. OwnIds
  BY DEF Init, OwnIds, NoCall
<1> QED
  BY <1>2, <1>3, <1>4 DEF IInv

-----------------------------------------------------------------------------
(* Steps, per kind.  *)

(* What IInv says of ids depends on these variables only. *)
LEMMA IdsKept ==
  ASSUME OwnIds, Apart, TypeOK, Len(chat') \in Nat, Len(chat) <= Len(chat'),
         db' = db, copies' = copies,
         call'.op = "send" /\ call'.stage = "done" => call' = call
  PROVE  OwnIds' /\ Apart'
<1>1. 1..Len(chat) \subseteq 1..Len(chat')
  BY TypeFacts
<1>2. Known' = Known
  BY DEF Known
<1> QED
  BY <1>1, <1>2 DEF OwnIds, Apart

(* The user types, removes or reacts. *)
LEMMA UserStep ==
  ASSUME IInv, NEW m \in Msgs, Type(m) \/ Redact(m) \/ React(m) \/ Unreact(m)
  PROVE  IInv'
<1>1. PICK op \in {"send"} \cup ChatOps : queue' = Append(queue, [op |-> op, m |-> m])
  BY DEF Type, Redact, React, Unreact, Ask, ChatOps
<1>2. [op |-> op, m |-> m] \in MatrixEvents \cup QQEvents(Len(chat))
  BY DEF MatrixEvents
<1>3. queue' \in Seq(MatrixEvents \cup QQEvents(Len(chat)))
  BY <1>1, <1>2, TypeFacts, AppendProperties DEF IInv
<1>4. gone' \subseteq typed' /\ liked' \subseteq typed' /\ typed' \subseteq Msgs
  BY DEF Type, Redact, React, Unreact, Ask, IInv, TypeOK
<1>5. ops' \in 0..MaxOps
  <2>1. ops' = ops \/ (ops < MaxOps /\ ops' = ops + 1)
    BY DEF Type, Redact, React, Unreact, Ask, room
  <2>2. ops \in 0..MaxOps /\ MaxOps \in Nat
    BY MatrixPortalAssumption DEF IInv, TypeOK
  <2> QED
    BY <2>1, <2>2
<1>6. UNCHANGED <<up, chat, wire, call, late, db, copies, recalled, missed, lossy>>
  BY DEF Type, Redact, React, Unreact, Ask, history
<1>7. TypeOK' /\ LateAreCalls'
  BY <1>3, <1>4, <1>5, <1>6, TypeFacts, TypeKept DEF IInv, TypeOK
<1>8. OwnIds' /\ Apart'
  BY <1>6, TypeFacts, IdsKept DEF IInv
<1> QED
  BY <1>7, <1>8 DEF IInv

(* A handler up to its call, or without one; a call refused or in error. *)
LEMMA HandlerStep ==
  ASSUME IInv, SendFail \/ SendCall \/ ChangeOffline \/ ChangeUnknown \/ ChangeCall
               \/ RemoteRecall
  PROVE  IInv'
<1> USE DEF IInv
<1>1. PICK kinds \in {{"send"}, ChatOps, {"recall"}} : Handling(kinds) /\ queue' = Tail(queue)
  BY DEF SendFail, SendCall, ChangeOffline, ChangeUnknown, ChangeCall, RemoteRecall
<1>2. /\ queue' \in Seq(MatrixEvents \cup QQEvents(Len(chat)))
      /\ Event.op \in {"send"} \cup ChatOps => Event.m \in Msgs
      /\ Event.op \in {"message", "recall"} => Event.id \in 1..Len(chat)
  BY <1>1, HandleFacts
<1>3. /\ call' \in {NoCall} \cup Calls
      /\ call'.op \in ChatOps => call'.id \in 1..Len(chat)
      /\ call'.op = "send" => call'.stage # "done"
  <2>1. CASE call' = call
    <3>1. call = NoCall
      BY <1>1 DEF Handling
    <3> QED
      BY <2>1, <3>1 DEF NoCall, ChatOps
  <2>2. CASE SendCall
    <3>1. Event.m \in Msgs /\ 0 \in 0..MaxChat
      BY <1>2, <2>2, TypeFacts DEF SendCall, Handling
    <3> QED
      BY <2>2, <3>1 DEF SendCall, Calls, ChatOps
  <2>3. CASE ChangeCall
    <3>1. Event.op \in ChatOps /\ Event.m \in Msgs /\ db[Event.m] # None
      BY <1>2, <2>3 DEF ChangeCall, Handling
    <3>2. ParseMessageID(db[Event.m]) \in 1..Len(chat)
      BY <3>1 DEF OwnIds, ParseMessageID
    <3>3. Len(chat) \in Nat /\ MaxChat \in Nat /\ Len(chat) <= MaxChat
      BY TypeFacts
    <3>4. ParseMessageID(db[Event.m]) \in 0..MaxChat
      BY <3>2, <3>3
    <3> QED
      BY <2>3, <3>1, <3>2, <3>4 DEF ChangeCall, Calls, ChatOps
  <2> QED
    BY <2>1, <2>2, <2>3 DEF SendFail, SendCall, ChangeOffline, ChangeUnknown, ChangeCall, RemoteRecall
<1>4. UNCHANGED <<up, chat, wire, late, db, typed, gone, liked, copies, ops, lossy>>
  BY DEF SendFail, SendCall, ChangeOffline, ChangeUnknown, ChangeCall, RemoteRecall, room, history
<1>5. missed' \in BOOLEAN
  BY DEF SendFail, SendCall, ChangeOffline, ChangeUnknown, ChangeCall, RemoteRecall, history, TypeOK
<1>6. recalled' \subseteq MessageIDs
  <2>1. CASE recalled' = recalled
    BY <2>1 DEF TypeOK
  <2>2. CASE RemoteRecall
    BY <1>2, <2>2, ChatIds DEF RemoteRecall, Handling, TypeOK
  <2> QED
    BY <2>1, <2>2 DEF SendFail, SendCall, ChangeOffline, ChangeUnknown, ChangeCall
<1>7. TypeOK' /\ LateAreCalls'
  BY <1>2, <1>3, <1>4, <1>5, <1>6, TypeFacts, TypeKept DEF TypeOK
<1>8. OwnIds' /\ Apart'
  BY <1>3, <1>4, TypeFacts, IdsKept
<1> QED
  BY <1>7, <1>8

(* Whatever carries out a call: the caller of one, or a late one.          *)
LEMMA ExecuteStep ==
  ASSUME IInv, NEW c, c.op \in {"send"} \cup ChatOps,
         c.op \in ChatOps => c.id \in 1..Len(chat), Execute(c),
         call' \in {NoCall} \cup Calls,
         call'.op \in ChatOps => call'.id \in 1..Len(chat),
         late' \subseteq late,
         UNCHANGED <<up, queue, db, room, copies, recalled, history>>
  PROVE  TypeOK' /\ LateAreCalls' /\ Len(chat) \in Nat /\ Len(chat') \in Nat
         /\ Len(chat) <= Len(chat')
<1> USE DEF IInv
<1>1. /\ chat' \in Seq(Entries) /\ Len(chat') <= MaxChat
      /\ Len(chat') = IF c.op = "send" THEN Len(chat) + 1 ELSE Len(chat)
      /\ wire' \in Seq(QQEvents(Len(chat')))
  BY ExecuteFacts
<1>2. Len(chat) \in Nat /\ Len(chat') \in Nat /\ Len(chat) <= Len(chat')
  BY <1>1, TypeFacts
<1>3. queue' \in Seq(MatrixEvents \cup QQEvents(Len(chat')))
  <2>1. queue' = queue /\ queue \in Seq(MatrixEvents \cup QQEvents(Len(chat)))
    BY TypeFacts
  <2> QED
    BY <2>1, <1>2, EventsGrow
<1>4. UNCHANGED <<up, db, typed, gone, liked, ops, copies, recalled, missed, lossy>>
  BY DEF room, history
<1>5. call'.op \in ChatOps => call'.id \in 1..Len(chat')
  BY <1>2
<1>6. TypeOK' /\ LateAreCalls'
  BY <1>1, <1>2, <1>3, <1>4, <1>5, TypeKept DEF TypeOK
<1> QED
  BY <1>2, <1>6

(* NapCatQQ carries out the call under way. *)
LEMMA CarryOutStep ==
  ASSUME IInv, CarryOut
  PROVE  IInv'
<1> USE DEF IInv
<1>1. call \in Calls /\ call.stage = "sent" /\ call.op \in {"send"} \cup ChatOps
      /\ (call.op \in ChatOps => call.id \in 1..Len(chat)) /\ Execute(call)
  BY TypeFacts DEF CarryOut, NoCall, Calls
<1>2. Len(chat) \in Nat /\ Len(chat) <= MaxChat /\ MaxChat \in Nat
  BY TypeFacts
<1> DEFINE id == IF call.op = "send" THEN Len(chat) + 1 ELSE call.id
<1>3. call' = [call EXCEPT !.stage = "done", !.id = id]
  BY DEF CarryOut
<1>4. id \in 0..MaxChat
  <2>1. CASE call.op = "send"
    <3>1. Len(chat') = Len(chat) + 1 /\ Len(chat') <= MaxChat
      BY <1>1, <2>1, ExecuteFacts
    <3> QED
      BY <1>2, <2>1, <3>1
  <2>2. CASE call.op # "send"
    BY <1>1, <2>2 DEF Calls
  <2> QED
    BY <2>1, <2>2
<1>5. call' \in Calls /\ call'.op = call.op /\ call'.id = id
  BY <1>1, <1>3, <1>4 DEF Calls
<1>6. UNCHANGED <<up, queue, late, db, room, copies, recalled, history>>
  BY DEF CarryOut
<1>7. call'.op \in ChatOps => call'.id \in 1..Len(chat)
  BY <1>1, <1>5 DEF ChatOps
<1>8. TypeOK' /\ LateAreCalls' /\ Len(chat') \in Nat /\ Len(chat) <= Len(chat')
  BY <1>1, <1>5, <1>6, <1>7, ExecuteStep
<1>9. OwnIds' /\ Apart'
  <2>1. CASE call.op # "send"
    BY <1>5, <1>6, <1>8, <2>1, TypeFacts, IdsKept
  <2>2. CASE call.op = "send"
    <3>1. Len(chat') = Len(chat) + 1 /\ call'.id = Len(chat) + 1
      BY <1>1, <1>5, <2>2, ExecuteFacts
    <3>2. Known' = Known /\ db' = db /\ copies' = copies
      BY <1>6 DEF Known
    <3>3. Known \subseteq {Chat} \X (1..Len(chat))
      BY DEF Known, OwnIds
    <3>4. call'.id \in 1..Len(chat') /\ <<Chat, call'.id>> \notin Known
      BY <1>2, <3>1, <3>3
    <3>5. 1..Len(chat) \subseteq 1..Len(chat')
      BY <1>2, <3>1
    <3> QED
      BY <3>2, <3>4, <3>5 DEF OwnIds, Apart
  <2> QED
    BY <2>1, <2>2
<1> QED
  BY <1>8, <1>9

(* A late call, a message or a recall by somebody in QQ. *)
LEMMA ChatStep ==
  ASSUME IInv, CarryOutLate \/ QQMessage \/ \E id \in QQIds : QQRecall(id)
  PROVE  IInv'
<1> USE DEF IInv
<1> DEFINE Valid(c) == /\ c.op \in {"send"} \cup ChatOps
                       /\ c.op \in ChatOps => c.id \in 1..Len(chat)
                       /\ Execute(c)
<1>1. PICK c : Valid(c)
  <2>1. CASE CarryOutLate
    BY <2>1, TypeFacts DEF CarryOutLate, LateAreCalls, Calls
  <2>2. CASE QQMessage
    BY <2>2 DEF QQMessage, ChatOps
  <2>3. ASSUME NEW id \in QQIds, QQRecall(id) PROVE \E c : Valid(c)
    <3>1. [op |-> "remove", id |-> id].op = "remove" /\ [op |-> "remove", id |-> id].id = id
      OBVIOUS
    <3>2. id \in 1..Len(chat)
      BY <2>3, TypeFacts DEF QQRecall
    <3> QED
      BY <2>3, <3>1, <3>2 DEF QQRecall, ChatOps
  <2> QED
    BY <2>1, <2>2, <2>3
<1>2. UNCHANGED <<up, queue, call, db, room, copies, recalled, history>> /\ late' \subseteq late
  BY DEF CarryOutLate, QQMessage, QQRecall
<1>3. TypeOK' /\ LateAreCalls' /\ Len(chat) \in Nat /\ Len(chat') \in Nat /\ Len(chat) <= Len(chat')
  BY <1>1, <1>2, TypeFacts, ExecuteStep
<1>4. OwnIds' /\ Apart'
  BY <1>2, <1>3, IdsKept
<1> QED
  BY <1>3, <1>4

(* A call is refused or ends, or the connection changes, or an event is    *)
(* read: no new id.                                                        *)
LEMMA CallStep ==
  ASSUME IInv, Refuse \/ SessionChange \/ ChangeReturn \/ CallError \/ ReadEvent
  PROVE  IInv'
<1> USE DEF IInv
<1>1. UNCHANGED <<chat, db, room, copies, recalled>>
  BY DEF Refuse, SessionChange, ChangeReturn, CallError, ReadEvent
<1>2. up' \in BOOLEAN /\ missed' \in BOOLEAN /\ lossy' \in BOOLEAN
  BY DEF Refuse, SessionChange, ChangeReturn, CallError, ReadEvent, history, TypeOK
<1>3. /\ wire' \in Seq(QQEvents(Len(chat)))
      /\ queue' \in Seq(MatrixEvents \cup QQEvents(Len(chat)))
  <2>1. wire \in Seq(QQEvents(Len(chat))) /\ queue \in Seq(MatrixEvents \cup QQEvents(Len(chat)))
    BY TypeFacts
  <2>2. CASE ReadEvent
    <3>1. wire # <<>> /\ wire' = Tail(wire) /\ queue' = Append(queue, Head(wire))
      BY <2>2 DEF ReadEvent
    <3>2. Tail(wire) \in Seq(QQEvents(Len(chat))) /\ Head(wire) \in QQEvents(Len(chat))
      BY <2>1, <3>1, HeadTailProperties
    <3> QED
      BY <2>1, <3>1, <3>2, AppendProperties
  <2>3. CASE wire' \in {<<>>, wire} /\ queue' = queue
    <3>1. <<>> \in Seq(QQEvents(Len(chat)))
      OBVIOUS
    <3> QED
      BY <2>1, <2>3, <3>1
  <2> QED
    BY <2>2, <2>3 DEF Refuse, SessionChange, ChangeReturn, CallError
<1>4. /\ call' \in {NoCall} \cup Calls
      /\ call'.op \in ChatOps => call'.id \in 1..Len(chat)
      /\ call'.op = "send" /\ call'.stage = "done" => call' = call
  <2>1. CASE call' \in {call, NoCall}
    BY <2>1, TypeFacts DEF NoCall, ChatOps
  <2>2. CASE Refuse
    <3>1. call \in Calls /\ call' = [call EXCEPT !.stage = "refused"]
      BY <2>2, TypeFacts DEF Refuse, NoCall
    <3>2. call' \in Calls /\ call'.op = call.op /\ call'.id = call.id /\ call'.stage = "refused"
      BY <3>1 DEF Calls
    <3> QED
      BY <3>2, TypeFacts
  <2> QED
    BY <2>1, <2>2 DEF SessionChange, ChangeReturn, CallError, ReadEvent
<1>5. \A c \in late' : c \in late \/ (c = call /\ c # NoCall /\ c.stage = "sent")
  BY DEF Refuse, SessionChange, ChangeReturn, CallError, ReadEvent
<1>6. UNCHANGED <<typed, gone, liked, ops>>
  BY <1>1 DEF room
<1>7. TypeOK' /\ LateAreCalls'
  BY <1>1, <1>2, <1>3, <1>4, <1>5, <1>6, TypeFacts, TypeKept DEF TypeOK
<1>8. OwnIds' /\ Apart'
  BY <1>1, <1>4, TypeFacts, IdsKept
<1> QED
  BY <1>7, <1>8

(* The answer's id is kept: it was nobody's. *)
LEMMA SendReturnStep ==
  ASSUME IInv, SendReturn
  PROVE  IInv'
<1> USE DEF IInv
<1>1. /\ call.op = "send" /\ call.stage = "done" /\ call' = NoCall
      /\ db' = [db EXCEPT ![call.m] = <<Chat, call.id>>]
      /\ UNCHANGED <<up, chat, wire, queue, late, typed, gone, liked, ops, copies, recalled,
                     missed, lossy>>
  BY DEF SendReturn, room, history, MakeMessageID
<1>2. call \in Calls /\ call.m \in Msgs
  BY <1>1, TypeFacts DEF NoCall, Calls
<1>3. call.id \in 1..Len(chat) /\ <<Chat, call.id>> \notin Known
  BY <1>1 DEF OwnIds
<1>4. <<Chat, call.id>> \in MessageIDs /\ <<Chat, call.id>> \in {Chat} \X (1..Len(chat))
  BY <1>3, ChatIds DEF MakeMessageID
<1>5. db \in [Msgs -> MessageIDs \cup {None}]
  BY DEF TypeOK
<1>6. /\ db' \in [Msgs -> MessageIDs \cup {None}]
      /\ db'[call.m] = <<Chat, call.id>>
      /\ \A m \in Msgs : m # call.m => db'[m] = db[m]
  BY <1>1, <1>2, <1>4, <1>5
<1>7. call'.op # "send" /\ call'.op \notin ChatOps
  BY <1>1 DEF NoCall, ChatOps
<1>8. TypeOK' /\ LateAreCalls'
  BY <1>1, <1>6, <1>7, TypeFacts, TypeKept DEF TypeOK
<1>9. OwnIds'
  BY <1>1, <1>4, <1>6, <1>7 DEF OwnIds
<1>10. Apart'
  <2>1. <<Chat, call.id>> \notin copies /\ \A m \in Msgs : db[m] # None => db[m] # <<Chat, call.id>>
    BY <1>3 DEF Known
  <2> QED
    BY <1>1, <1>6, <2>1 DEF Apart
<1> QED
  BY <1>8, <1>9, <1>10

(* A remote message is shown unless its id is known. *)
LEMMA RemoteMessageStep ==
  ASSUME IInv, RemoteMessage
  PROVE  IInv'
<1> USE DEF IInv
<1>1. /\ Handling({"message"}) /\ queue' = Tail(queue) /\ call = NoCall
      /\ copies' = copies \cup ({MakeMessageID(Event.id)} \ Known)
      /\ UNCHANGED <<up, chat, wire, call, late, db, typed, gone, liked, ops, recalled, missed, lossy>>
  BY DEF RemoteMessage, Handling, room, history
<1>2. Event.id \in 1..Len(chat) /\ queue' \in Seq(MatrixEvents \cup QQEvents(Len(chat)))
  BY <1>1, HandleFacts DEF Handling
<1>3. MakeMessageID(Event.id) \in MessageIDs /\ MakeMessageID(Event.id) \in {Chat} \X (1..Len(chat))
  BY <1>2, ChatIds
<1>4. copies' \subseteq MessageIDs
  BY <1>1, <1>3 DEF TypeOK
<1>5. TypeOK' /\ LateAreCalls'
  BY <1>1, <1>2, <1>4, TypeFacts, TypeKept DEF TypeOK
<1>6. OwnIds'
  BY <1>1, <1>3 DEF OwnIds, NoCall
<1>7. Apart'
  BY <1>1 DEF Apart, Known
<1> QED
  BY <1>5, <1>6, <1>7

(* Every step keeps ids apart. *)
THEOREM NextIInv == IInv /\ [Next]_vars => IInv'
<1> SUFFICES ASSUME IInv, [Next]_vars PROVE IInv'
  OBVIOUS
<1>1. CASE UNCHANGED vars
  <2>1. TypeOK' /\ LateAreCalls'
    BY <1>1 DEF vars, IInv, TypeOK, LateAreCalls
  <2>2. OwnIds' /\ Apart'
    BY <1>1 DEF vars, IInv, OwnIds, Apart, Known
  <2> QED
    BY <2>1, <2>2 DEF IInv
<1>2. CASE Next
  BY <1>2, UserStep, HandlerStep, CarryOutStep, ChatStep, CallStep, SendReturnStep,
     RemoteMessageStep DEF Next
<1> QED
  BY <1>1, <1>2

(* In every state the ids in the room are of messages in the chat, each once. *)
THEOREM Invariance == Spec => []IInv
BY InitIInv, NextIInv, PTL DEF Spec

-----------------------------------------------------------------------------

(* The types of all that the handlers, NapCatQQ and the portal share: what *)
(* an event or a call names is a message of the chat.                      *)
THEOREM TypeCorrect == Spec => []TypeOK
<1>1. IInv => TypeOK
  BY DEF IInv
<1> QED
  BY <1>1, Invariance, PTL

(* No QQ message is shown twice, be it as what the user typed or as a copy. *)
THEOREM ShownOnce == Spec => []OneCopy
<1>1. ASSUME IInv PROVE OneCopy
  <2>1. \A m \in Msgs : db[m] # None => db[m] \in {Chat} \X (1..Len(chat)) /\ db[m] \notin copies
    BY <1>1 DEF IInv, OwnIds, Apart
  <2>2. copies \subseteq {Chat} \X (1..Len(chat))
    BY <1>1 DEF IInv, OwnIds
  <2>3. \A x, y \in {Chat} \X (1..Len(chat)) : ParseMessageID(x) = ParseMessageID(y) => x = y
    BY DEF ParseMessageID
  <2>4. \A m \in Msgs : ParsedIDs(Kept(m)) \cap ParsedIDs(copies) = {}
    <3> SUFFICES ASSUME NEW m \in Msgs, NEW x \in Kept(m), NEW y \in copies,
                        ParseMessageID(x) = ParseMessageID(y)
                 PROVE  FALSE
      BY DEF ParsedIDs
    <3>1. x = db[m] /\ db[m] # None
      BY DEF Kept
    <3> QED
      BY <2>1, <2>2, <2>3, <3>1
  <2>5. \A m, n \in Msgs : m # n => ParsedIDs(Kept(m)) \cap ParsedIDs(Kept(n)) = {}
    BY <1>1, <2>1, <2>3 DEF ParsedIDs, Kept, IInv, Apart
  <2> QED
    BY <2>4, <2>5 DEF OneCopy
<1> QED
  BY <1>1, Invariance, PTL
-----------------------------------------------------------------------------
(* The room stays in step: the second invariant, on top of IInv.           *)

Items(s) == {s[i] : i \in DOMAIN s}

Removal(m) == [op |-> "remove", m |-> m]
Sending(m) == [op |-> "send", m |-> m]
Report(id) == [op |-> "message", id |-> id]
Recall(id) == [op |-> "recall", id |-> id]

About(e, m) == e.op \in {"send"} \cup ChatOps /\ e.m = m
Likes(e, m) == e.op \in {"like", "unlike"} /\ e.m = m

(* A message is sent once, before anything else is done about it, and has  *)
(* no id until then.                                                       *)
SendsFirst ==
  /\ \A m \in Msgs \ typed :
       (\A e \in Items(queue) : ~About(e, m)) /\ call.m # m /\ db[m] = None
  /\ \A m \in Msgs : Sending(m) \in Items(queue) => db[m] = None /\ call.m # m
  /\ \A i, j \in DOMAIN queue : \A m \in Msgs :
       queue[i] = Sending(m) /\ About(queue[j], m) /\ i # j => i < j
  /\ call.op = "send" => db[call.m] = None

(* A call is about the id of its message; one given up was missed.         *)
ChangesAreKnown ==
  /\ call.op \in ChatOps => db[call.m] # None /\ call.id = ParseMessageID(db[call.m])
  /\ \A c \in late : c.op \in ChatOps => missed

(* What was recalled is gone from the chat. *)
RecallsAreTrue ==
  /\ recalled \subseteq {Chat} \X (1..Len(chat))
  /\ \A id \in 1..Len(chat) :
       MakeMessageID(id) \in recalled \/ Recall(id) \in Items(queue) \cup Items(wire)
         => ~chat[id].there

(* With no loss: all of the chat is in the room or reported, what is gone  *)
(* is recalled or its recall is under way, and behind the message.         *)
AllReported ==
  \A id \in 1..Len(chat) :
    /\ MakeMessageID(id) \in Known \/ Report(id) \in Items(queue) \cup Items(wire)
    /\ chat[id].there \/ MakeMessageID(id) \in recalled
         \/ Recall(id) \in Items(queue) \cup Items(wire)
    /\ \A j \in DOMAIN queue : queue[j] = Recall(id) =>
         MakeMessageID(id) \in Known \/ \E i \in DOMAIN queue : i < j /\ queue[i] = Report(id)
    /\ \A j \in DOMAIN wire : wire[j] = Recall(id) =>
         \/ MakeMessageID(id) \in Known \/ Report(id) \in Items(queue)
         \/ \E i \in DOMAIN wire : i < j /\ wire[i] = Report(id)

Unfinished(op, m) == call.op = op /\ call.m = m /\ call.stage # "done"
BeingSent(m) == Sending(m) \in Items(queue) \/ (call.op = "send" /\ call.m = m)

(* With none missed: what was removed in Matrix is gone from the chat, or  *)
(* its removal is still to be handled or under way.                        *)
RemovalsWait ==
  \A m \in gone :
    /\ db[m] # None =>
         \/ Removal(m) \in Items(queue)
         \/ Unfinished("remove", m)
         \/ ~chat[ParseMessageID(db[m])].there
    /\ BeingSent(m) => Removal(m) \in Items(queue)

(* The last reaction waiting is the room's. *)
LastLike ==
  \A m \in Msgs : \A i \in DOMAIN queue :
    Likes(queue[i], m) /\ (\A j \in DOMAIN queue : Likes(queue[j], m) => j <= i) =>
      (queue[i].op = "like" <=> m \in liked)

(* With none waiting and none missed the call under way is the room's, or  *)
(* the chat is.                                                            *)
LikesWait ==
  /\ call.op = "send" /\ call.stage = "done" => ~chat[call.id].like
  /\ \A m \in Msgs : (\A e \in Items(queue) : ~Likes(e, m)) =>
       /\ Unfinished("like", m) => m \in liked
       /\ Unfinished("unlike", m) => m \notin liked
       /\ BeingSent(m) => m \notin liked
       /\ db[m] # None /\ ~Unfinished("like", m) /\ ~Unfinished("unlike", m) =>
            (chat[ParseMessageID(db[m])].like <=> m \in liked)

Sync ==
  /\ SendsFirst
  /\ ChangesAreKnown
  /\ RecallsAreTrue
  /\ ~lossy => AllReported
  /\ ~missed => RemovalsWait
  /\ LastLike
  /\ ~missed => LikesWait

-----------------------------------------------------------------------------
(* Sequences as sets. *)

(* What appending adds to a sequence. *)
LEMMA AppendItems ==
  ASSUME NEW S, NEW s \in Seq(S), NEW e \in S
  PROVE  /\ DOMAIN s = 1..Len(s) /\ Len(s) \in Nat /\ DOMAIN Append(s, e) = 1..(Len(s) + 1)
         /\ \A i \in 1..Len(s) : Append(s, e)[i] = s[i]
         /\ Append(s, e)[Len(s) + 1] = e
         /\ Items(Append(s, e)) = Items(s) \cup {e}
<1>1. /\ DOMAIN s = 1..Len(s) /\ Len(s) \in Nat /\ DOMAIN Append(s, e) = 1..(Len(s) + 1)
      /\ \A i \in 1..Len(s) : Append(s, e)[i] = s[i]
      /\ Append(s, e)[Len(s) + 1] = e
  BY AppendProperties
<1>2. Items(Append(s, e)) = Items(s) \cup {e}
  BY <1>1 DEF Items
<1> QED
  BY <1>1, <1>2

(* What taking the head of a sequence leaves. *)
LEMMA TailItems ==
  ASSUME NEW S, NEW s \in Seq(S), s # <<>>
  PROVE  /\ DOMAIN s = 1..Len(s) /\ Len(s) \in Nat \ {0} /\ DOMAIN Tail(s) = 1..(Len(s) - 1)
         /\ Head(s) = s[1]
         /\ \A i \in DOMAIN Tail(s) : Tail(s)[i] = s[i + 1] /\ i + 1 \in DOMAIN s
         /\ \A i \in DOMAIN s : i # 1 => i - 1 \in DOMAIN Tail(s) /\ s[i] = Tail(s)[i - 1]
         /\ Items(s) = Items(Tail(s)) \cup {Head(s)}
<1>1. DOMAIN s = 1..Len(s) /\ Len(s) \in Nat \ {0} /\ Head(s) = s[1]
  BY EmptySeq, HeadTailProperties
<1>2. Tail(s) \in Seq(S) /\ Len(Tail(s)) = Len(s) - 1
      /\ \A i \in 1..Len(Tail(s)) : Tail(s)[i] = s[i + 1]
  BY <1>1, HeadTailProperties
<1>3. DOMAIN Tail(s) = 1..(Len(s) - 1)
  BY <1>2
<1>4. /\ \A i \in DOMAIN Tail(s) : Tail(s)[i] = s[i + 1] /\ i + 1 \in DOMAIN s
      /\ \A i \in DOMAIN s : i # 1 => i - 1 \in DOMAIN Tail(s) /\ s[i] = Tail(s)[i - 1]
  BY <1>1, <1>2, <1>3
<1>5. Items(s) = Items(Tail(s)) \cup {Head(s)}
  <2>1. \A i \in DOMAIN s : s[i] \in Items(Tail(s)) \cup {Head(s)}
    BY <1>1, <1>4 DEF Items
  <2>2. Items(Tail(s)) \subseteq Items(s)
    BY <1>4 DEF Items
  <2>3. Head(s) \in Items(s)
    BY <1>1 DEF Items
  <2> QED
    BY <2>1, <2>2, <2>3 DEF Items
<1> QED
  BY <1>1, <1>3, <1>4, <1>5

(* What a Matrix event is, and what is none. *)
LEMMA EventForms ==
  /\ \A e \in MatrixEvents : e.op = "send" => e = Sending(e.m)
  /\ \A e \in MatrixEvents : e.op = "remove" => e = Removal(e.m)
  /\ \A n : \A e \in QQEvents(n) : \A m :
       ~About(e, m) /\ ~Likes(e, m) /\ e # Sending(m) /\ e # Removal(m)
  /\ \A n : \A e \in QQEvents(n) : e.op = "message" => e = Report(e.id)
  /\ \A n : \A e \in QQEvents(n) : e.op = "recall" => e = Recall(e.id)
  /\ \A e \in MatrixEvents : \A id : e # Report(id) /\ e # Recall(id)
  /\ \A m : Sending(m).op = "send" /\ Sending(m).m = m /\ About(Sending(m), m)
  /\ \A m : Removal(m).op = "remove" /\ Removal(m).m = m /\ About(Removal(m), m)
  /\ \A e, m : Likes(e, m) => About(e, m)
BY DEF MatrixEvents, QQEvents, Sending, Removal, Report, Recall, About, Likes, ChatOps

(* The queue after one more event, and after its first.                    *)
LEMMA QueueAppend ==
  ASSUME TypeOK, NEW e \in MatrixEvents \cup QQEvents(Len(chat)), queue' = Append(queue, e)
  PROVE  /\ DOMAIN queue = 1..Len(queue) /\ Len(queue) \in Nat
         /\ DOMAIN queue' = 1..(Len(queue) + 1)
         /\ \A i \in 1..Len(queue) : queue'[i] = queue[i]
         /\ queue'[Len(queue) + 1] = e
         /\ Items(queue') = Items(queue) \cup {e}
BY TypeFacts, AppendItems

(* The portal's queue without the event it has handled. *)
LEMMA QueueTail ==
  ASSUME TypeOK, NEW kinds, Handling(kinds), queue' = Tail(queue)
  PROVE  /\ DOMAIN queue = 1..Len(queue) /\ Len(queue) \in Nat \ {0}
         /\ DOMAIN queue' = 1..(Len(queue) - 1)
         /\ Event = queue[1]
         /\ \A i \in DOMAIN queue' : queue'[i] = queue[i + 1] /\ i + 1 \in DOMAIN queue
         /\ \A i \in DOMAIN queue : i # 1 => i - 1 \in DOMAIN queue' /\ queue[i] = queue'[i - 1]
         /\ Items(queue) = Items(queue') \cup {Event}
BY TypeFacts, TailItems DEF Handling, Event

(* What the queue and the connection hold. *)
LEMMA QueueEvents ==
  ASSUME TypeOK
  PROVE  /\ DOMAIN queue = 1..Len(queue) /\ Len(queue) \in Nat
         /\ \A i \in DOMAIN queue : queue[i] \in MatrixEvents \cup QQEvents(Len(chat))
         /\ Items(queue) \subseteq MatrixEvents \cup QQEvents(Len(chat))
         /\ DOMAIN wire = 1..Len(wire) /\ Len(wire) \in Nat
         /\ \A i \in DOMAIN wire : wire[i] \in QQEvents(Len(chat))
         /\ Items(wire) \subseteq QQEvents(Len(chat))
<1>1. queue \in Seq(MatrixEvents \cup QQEvents(Len(chat))) /\ wire \in Seq(QQEvents(Len(chat)))
  BY TypeFacts
<1> QED
  BY <1>1 DEF Items

(* The next report on the connection, and those after it. *)
LEMMA WireHead ==
  ASSUME TypeOK, wire # <<>>
  PROVE  /\ Head(wire) \in QQEvents(Len(chat)) /\ Head(wire) = wire[1]
         /\ DOMAIN wire = 1..Len(wire) /\ Len(wire) \in Nat \ {0}
         /\ DOMAIN Tail(wire) = 1..(Len(wire) - 1)
         /\ \A i \in DOMAIN Tail(wire) : Tail(wire)[i] = wire[i + 1] /\ i + 1 \in DOMAIN wire
         /\ \A i \in DOMAIN wire : i # 1 => i - 1 \in DOMAIN Tail(wire) /\ wire[i] = Tail(wire)[i - 1]
         /\ Items(wire) = Items(Tail(wire)) \cup {Head(wire)}
<1>1. wire \in Seq(QQEvents(Len(chat)))
  BY TypeFacts
<1>2. Head(wire) \in QQEvents(Len(chat))
  BY <1>1, HeadTailProperties
<1> QED
  BY <1>1, <1>2, TailItems

(* No send waits behind another event about its message. *)
LEMMA SentAlready ==
  ASSUME TypeOK, SendsFirst, NEW kinds, Handling(kinds), queue' = Tail(queue),
         NEW m \in Msgs, About(Event, m)
  PROVE  Sending(m) \notin Items(queue')
<1> SUFFICES ASSUME NEW i \in DOMAIN queue', queue'[i] = Sending(m) PROVE FALSE
  BY DEF Items
<1>1. queue[i + 1] = Sending(m) /\ i + 1 \in DOMAIN queue /\ i + 1 # 1 /\ ~(i + 1 < 1)
      /\ 1 \in DOMAIN queue /\ About(queue[1], m)
  BY QueueTail
<1> QED
  BY <1>1 DEF SendsFirst

-----------------------------------------------------------------------------
(* Each part of Sync, step by step. *)

(* Every step keeps messages ahead of what is done to them. *)
LEMMA SendsFirstKept ==
  ASSUME IInv, SendsFirst, ChangesAreKnown, Next
  PROVE  SendsFirst'
<1>0. TypeOK
  BY DEF IInv
<1>1. ASSUME NEW m \in Msgs, Type(m) PROVE SendsFirst'
  <2>1. /\ m \notin typed /\ typed' = typed \cup {m}
        /\ queue' = Append(queue, Sending(m)) /\ call' = call /\ db' = db
    BY <1>1 DEF Type, Sending
  <2>2. Sending(m) \in MatrixEvents \cup QQEvents(Len(chat))
    BY DEF Sending, MatrixEvents
  <2>3. \A x \in Msgs \ typed' : (\A e \in Items(queue') : ~About(e, x)) /\ call'.m # x /\ db'[x] = None
    <3>1. \A x : x # m => ~About(Sending(m), x)
      BY DEF About, Sending
    <3> QED
      BY <1>0, <2>1, <2>2, <3>1, QueueAppend DEF SendsFirst
  <2>4. \A x \in Msgs : Sending(x) \in Items(queue') => db'[x] = None /\ call'.m # x
    <3>1. \A x : x # m => Sending(x) # Sending(m)
      BY EventForms
    <3> QED
      BY <1>0, <2>1, <2>2, <3>1, QueueAppend DEF SendsFirst
  <2>5. ASSUME NEW i \in DOMAIN queue', NEW j \in DOMAIN queue', NEW x \in Msgs,
               queue'[i] = Sending(x), About(queue'[j], x), i # j
        PROVE  i < j
    <3>1. CASE i = Len(queue) + 1
      <4>1. x = m
        BY <1>0, <2>1, <2>2, <2>5, <3>1, QueueAppend, EventForms
      <4>2. j \in DOMAIN queue /\ queue'[j] = queue[j]
        BY <1>0, <2>1, <2>2, <2>5, <3>1, QueueAppend
      <4> QED
        BY <2>1, <2>5, <4>1, <4>2 DEF SendsFirst, Items
    <3>2. CASE i \in 1..Len(queue)
      BY <1>0, <2>1, <2>2, <2>5, <3>2, QueueAppend DEF SendsFirst
    <3> QED
      BY <1>0, <2>1, <2>2, <3>1, <3>2, QueueAppend
  <2> QED
    BY <2>1, <2>3, <2>4, <2>5 DEF SendsFirst
<1>2. ASSUME NEW e, e \in MatrixEvents \cup QQEvents(Len(chat)), e.op # "send",
             e \in MatrixEvents => e.m \in typed, queue' = Append(queue, e),
             UNCHANGED <<typed, call, db>>
      PROVE  SendsFirst'
  <2>1. \A x \in Msgs \ typed : ~About(e, x)
    BY <1>2, EventForms DEF About
  <2>2. \A x : e # Sending(x)
    BY <1>2, EventForms
  <2>3. /\ DOMAIN queue = 1..Len(queue) /\ Len(queue) \in Nat
        /\ DOMAIN queue' = 1..(Len(queue) + 1)
        /\ \A i \in 1..Len(queue) : queue'[i] = queue[i]
        /\ queue'[Len(queue) + 1] = e
        /\ Items(queue') = Items(queue) \cup {e}
    BY <1>0, <1>2, QueueAppend
  <2>4. ASSUME NEW i \in DOMAIN queue', NEW j \in DOMAIN queue', NEW x \in Msgs,
               queue'[i] = Sending(x), About(queue'[j], x), i # j
        PROVE  i < j
    <3>1. i \in 1..Len(queue)
      BY <2>2, <2>3, <2>4
    <3>2. CASE j = Len(queue) + 1
      BY <2>3, <3>1, <3>2
    <3>3. CASE j \in 1..Len(queue)
      BY <2>3, <2>4, <3>1, <3>3 DEF SendsFirst
    <3> QED
      BY <2>3, <3>2, <3>3
  <2> QED
    BY <1>2, <2>1, <2>2, <2>3, <2>4 DEF SendsFirst
<1>3. ASSUME NEW m \in Msgs, Redact(m) \/ React(m) \/ Unreact(m) PROVE SendsFirst'
  <2>1. PICK op \in ChatOps : queue' = Append(queue, [op |-> op, m |-> m])
    BY <1>3 DEF Redact, React, Unreact, Ask, ChatOps
  <2>2. m \in typed /\ UNCHANGED <<typed, call, db>>
    BY <1>3 DEF Redact, React, Unreact, Ask
  <2>3. [op |-> op, m |-> m] \in MatrixEvents /\ op # "send"
    BY DEF MatrixEvents, ChatOps
  <2> QED
    BY <1>2, <2>1, <2>2, <2>3
<1>4. CASE ReadEvent
  <2>1. wire # <<>> /\ queue' = Append(queue, Head(wire)) /\ UNCHANGED <<typed, call, db>>
    BY <1>4 DEF ReadEvent, room
  <2>2. Head(wire) \in QQEvents(Len(chat)) /\ Head(wire).op # "send"
    <3>1. Head(wire) \in QQEvents(Len(chat))
      BY <1>0, <2>1, WireHead
    <3> QED
      BY <3>1 DEF QQEvents
  <2>3. Head(wire) \notin MatrixEvents
    BY <2>2 DEF MatrixEvents, QQEvents, ChatOps
  <2> QED
    BY <1>2, <2>1, <2>2, <2>3
<1>5. ASSUME NEW kinds, Handling(kinds), queue' = Tail(queue), UNCHANGED <<typed, db>>,
             call' = call \/ (About(Event, call'.m) /\ call'.m \in Msgs),
             call'.op = "send" => Event = Sending(call'.m) /\ call'.m \in Msgs
      PROVE  SendsFirst'
  <2>1. /\ DOMAIN queue = 1..Len(queue) /\ Len(queue) \in Nat \ {0}
        /\ \A i \in DOMAIN queue' : queue'[i] = queue[i + 1] /\ i + 1 \in DOMAIN queue
        /\ Items(queue) = Items(queue') \cup {Event}
        /\ DOMAIN queue' \subseteq Nat
    BY <1>0, <1>5, QueueTail
  <2>2. \A x \in Msgs \ typed' : (\A e \in Items(queue') : ~About(e, x)) /\ call'.m # x /\ db'[x] = None
    BY <1>5, <2>1 DEF SendsFirst
  <2>3. \A x \in Msgs : Sending(x) \in Items(queue') => db'[x] = None /\ call'.m # x
    BY <1>0, <1>5, <2>1, SentAlready DEF SendsFirst
  <2>4. ASSUME NEW i \in DOMAIN queue', NEW j \in DOMAIN queue', NEW x \in Msgs,
               queue'[i] = Sending(x), About(queue'[j], x), i # j
        PROVE  i < j
    <3>1. i + 1 < j + 1
      BY <2>1, <2>4 DEF SendsFirst
    <3> QED
      BY <2>1, <3>1
  <2>5. call'.op = "send" => db'[call'.m] = None
    BY <1>5, <2>1 DEF SendsFirst
  <2> QED
    BY <2>2, <2>3, <2>4, <2>5 DEF SendsFirst
<1>6. CASE SendFail \/ SendCall \/ ChangeOffline \/ ChangeUnknown \/ ChangeCall
           \/ RemoteMessage \/ RemoteRecall
  <2>1. PICK kinds \in {{"send"}, ChatOps, {"message"}, {"recall"}} :
          Handling(kinds) /\ queue' = Tail(queue) /\ Event.op \in kinds
    BY <1>6 DEF SendFail, SendCall, ChangeOffline, ChangeUnknown, ChangeCall, RemoteMessage,
                RemoteRecall, Handling
  <2>2. UNCHANGED <<typed, db>>
    BY <1>6 DEF SendFail, SendCall, ChangeOffline, ChangeUnknown, ChangeCall, RemoteMessage,
                RemoteRecall, room
  <2>3. call = NoCall
    BY <2>1 DEF Handling
  <2>4. CASE call' = call
    BY <1>5, <2>1, <2>2, <2>3, <2>4 DEF NoCall
  <2>5. CASE SendCall \/ ChangeCall
    <3>1. Event.op \in {"send"} \cup ChatOps /\ call'.m = Event.m /\ call'.op = Event.op
      BY <2>5 DEF SendCall, ChangeCall, Handling
    <3>2. Event \in MatrixEvents /\ Event.m \in Msgs /\ About(Event, Event.m)
      BY <1>0, <2>1, <3>1, HandleFacts DEF About
    <3> QED
      BY <1>5, <2>1, <2>2, <3>1, <3>2, EventForms
  <2> QED
    BY <1>6, <2>4, <2>5 DEF SendFail, ChangeOffline, ChangeUnknown, RemoteMessage, RemoteRecall
<1>7. ASSUME UNCHANGED <<queue, typed, db>>,
             call' = NoCall \/ (call'.op = call.op /\ call'.m = call.m)
      PROVE  SendsFirst'
  <2>1. call'.m \in Msgs => call'.m = call.m
    <3>1. NoCall.m = None /\ None \notin Msgs
      BY MatrixPortalAssumption DEF NoCall
    <3> QED
      BY <1>7, <3>1
  <2>2. call'.op = "send" => call.op = "send" /\ call'.m = call.m
    BY <1>7 DEF NoCall
  <2>3. Items(queue') = Items(queue)
    BY <1>7
  <2> QED
    BY <1>7, <2>1, <2>2, <2>3 DEF SendsFirst
<1>8. CASE CarryOut \/ CarryOutLate \/ Refuse \/ QQMessage \/ (\E id \in QQIds : QQRecall(id))
           \/ SessionChange \/ ChangeReturn \/ CallError
  <2>1. UNCHANGED <<queue, typed, db>>
    BY <1>8 DEF CarryOut, CarryOutLate, Refuse, QQMessage, QQRecall, SessionChange, ChangeReturn,
                CallError, room
  <2>2. call' = NoCall \/ (call'.op = call.op /\ call'.m = call.m)
    <3>1. CASE call.stage = "sent"
      <4>1. call \in Calls
        BY <1>0, <3>1, TypeFacts DEF NoCall
      <4> QED
        BY <1>8, <4>1 DEF CarryOut, CarryOutLate, Refuse, QQMessage, QQRecall, SessionChange, ChangeReturn,
                CallError, Calls
    <3> QED
      BY <1>8, <3>1 DEF CarryOut, CarryOutLate, Refuse, QQMessage, QQRecall, SessionChange,
                ChangeReturn, CallError
  <2> QED
    BY <1>7, <2>1, <2>2
<1>9. CASE SendReturn
  <2>1. /\ call.op = "send" /\ call' = NoCall /\ UNCHANGED <<queue, typed>>
        /\ \A m \in Msgs : m # call.m => db'[m] = db[m]
    BY <1>0, <1>9 DEF SendReturn, room, TypeOK
  <2> QED
    BY <2>1, MatrixPortalAssumption DEF SendsFirst, NoCall
<1> QED
  BY <1>1, <1>3, <1>4, <1>6, <1>8, <1>9 DEF Next

(* The id of a message, once there is one. *)
LEMMA IdForms ==
  ASSUME IInv
  PROVE  /\ \A m \in Msgs : db[m] # None =>
              /\ ParseMessageID(db[m]) \in 1..Len(chat)
              /\ db[m] = MakeMessageID(ParseMessageID(db[m]))
              /\ db[m] \in Known
         /\ \A m, n \in Msgs : m # n /\ db[m] # None /\ db[n] # None =>
              ParseMessageID(db[m]) # ParseMessageID(db[n])
         /\ Known \subseteq {Chat} \X (1..Len(chat))
         /\ \A id : ParseMessageID(MakeMessageID(id)) = id
         /\ \A x, y : MakeMessageID(x) = MakeMessageID(y) => x = y
<1>1. \A m \in Msgs : db[m] # None => db[m] \in {Chat} \X (1..Len(chat))
  BY DEF IInv, OwnIds
<1>2. \A p \in {Chat} \X (1..Len(chat)) : ParseMessageID(p) \in 1..Len(chat) /\ p = MakeMessageID(ParseMessageID(p))
  BY DEF ParseMessageID, MakeMessageID
<1>3. \A id : ParseMessageID(MakeMessageID(id)) = id
  BY DEF ParseMessageID, MakeMessageID
<1>4. \A m \in Msgs : db[m] # None => db[m] \in Known
  BY DEF Known
<1>5. Known \subseteq {Chat} \X (1..Len(chat))
  BY DEF Known, IInv, OwnIds
<1>6. \A m, n \in Msgs : m # n /\ db[m] # None /\ db[n] # None =>
              ParseMessageID(db[m]) # ParseMessageID(db[n])
  BY <1>1, <1>2 DEF IInv, Apart
<1>7. \A x, y : MakeMessageID(x) = MakeMessageID(y) => x = y
  BY <1>3
<1> QED
  BY <1>1, <1>2, <1>3, <1>4, <1>5, <1>6, <1>7

(* Every step keeps calls about messages that were sent. *)
LEMMA ChangesAreKnownKept ==
  ASSUME IInv, SendsFirst, ChangesAreKnown, Next
  PROVE  ChangesAreKnown'
<1>0. TypeOK
  BY DEF IInv
<1>1. CASE ChangeCall
  <2>1. /\ call' = [op |-> Event.op, m |-> Event.m, stage |-> "sent",
                    id |-> ParseMessageID(db[Event.m])]
        /\ db[Event.m] # None /\ UNCHANGED <<db, late, missed>>
    BY <1>1 DEF ChangeCall, history
  <2> QED
    BY <2>1 DEF ChangesAreKnown
<1>2. CASE CarryOut \/ Refuse
  <2>1. call \in Calls /\ UNCHANGED <<db, late, missed>>
    BY <1>0, <1>2, TypeFacts DEF CarryOut, Refuse, NoCall, history
  <2>2. call'.op = call.op /\ call'.m = call.m /\ (call.op \in ChatOps => call'.id = call.id)
    BY <1>2, <2>1 DEF CarryOut, Refuse, Calls, ChatOps
  <2> QED
    BY <2>1, <2>2 DEF ChangesAreKnown
<1>3. CASE CallError
  <2>1. /\ call' = NoCall /\ late' = late \cup {c \in {call} : c.stage = "sent"}
        /\ missed' = (missed \/ call.op \in ChatOps)
    BY <1>3 DEF CallError
  <2> QED
    BY <2>1 DEF ChangesAreKnown, NoCall, ChatOps
<1>4. CASE SendReturn \/ ChangeReturn
  <2>1. call' = NoCall /\ UNCHANGED <<late, missed>>
    BY <1>4 DEF SendReturn, ChangeReturn, history
  <2> QED
    BY <2>1 DEF ChangesAreKnown, NoCall, ChatOps
<1>5. CASE SendCall
  <2>1. call'.op = "send" /\ UNCHANGED <<late, missed>>
    BY <1>5 DEF SendCall, history
  <2> QED
    BY <2>1 DEF ChangesAreKnown, ChatOps
<1>6. CASE CarryOutLate \/ ChangeOffline
  BY <1>6 DEF CarryOutLate, ChangeOffline, ChangesAreKnown, history
<1>7. CASE UNCHANGED <<call, db, late, missed>>
  BY <1>7 DEF ChangesAreKnown
<1>8. ASSUME NEW m \in Msgs, Type(m) \/ Redact(m) \/ React(m) \/ Unreact(m)
      PROVE  UNCHANGED <<call, db, late, missed>>
  BY <1>8 DEF Type, Redact, React, Unreact, Ask, history
<1> QED
  BY <1>1, <1>2, <1>3, <1>4, <1>5, <1>6, <1>7, <1>8
  DEF Next, SendFail, ChangeUnknown, QQMessage, QQRecall, SessionChange, ReadEvent, RemoteMessage,
      RemoteRecall, history

(* Call c is carried out: by the caller of one, late, or by somebody in QQ. *)
Executed(c) ==
  /\ c.op \in {"send"} \cup ChatOps
  /\ c.op \in ChatOps => c.id \in 1..Len(chat)
  /\ Execute(c)
  /\ UNCHANGED <<queue, db, typed, gone, liked, copies, recalled, missed, lossy>>

(* Each step that changes the chat carries something out. *)
LEMMA ExecutedBy ==
  ASSUME IInv, ChangesAreKnown,
         CarryOut \/ CarryOutLate \/ QQMessage \/ \E id \in QQIds : QQRecall(id)
  PROVE  \E c : /\ Executed(c)
                /\ \/ CarryOut /\ c = call
                   \/ call' = call /\ (missed \/ c.op \in {"send", "remove"})
<1>0. TypeOK
  BY DEF IInv
<1>1. CASE CarryOut
  <2>1. call \in Calls /\ call.op \in {"send"} \cup ChatOps
    BY <1>0, <1>1, TypeFacts DEF CarryOut, NoCall, Calls
  <2>2. Executed(call)
    BY <1>0, <1>1, <2>1, TypeFacts DEF CarryOut, Executed, room, history
  <2> QED
    BY <1>1, <2>2
<1>2. CASE CarryOutLate
  <2>1. PICK c \in late : Execute(c)
    BY <1>2 DEF CarryOutLate
  <2>2. c \in Calls /\ (c.op \in ChatOps => c.id \in 1..Len(chat))
    BY <1>0, TypeFacts DEF IInv, LateAreCalls
  <2>3. c.op \in {"send"} \cup ChatOps
    BY <2>2 DEF Calls
  <2>4. Executed(c) /\ call' = call
    BY <1>2, <2>1, <2>2, <2>3 DEF CarryOutLate, Executed, room, history
  <2>5. missed \/ c.op = "send"
    BY <2>3 DEF ChangesAreKnown
  <2> QED
    BY <2>4, <2>5
<1>3. CASE QQMessage
  <2> DEFINE c == [op |-> "send"]
  <2>1. c.op = "send"
    OBVIOUS
  <2>2. Executed(c) /\ call' = call
    BY <1>3, <2>1 DEF QQMessage, Executed, room, history, ChatOps
  <2> QED
    BY <2>1, <2>2
<1>4. ASSUME NEW id \in QQIds, QQRecall(id)
      PROVE  \E c : Executed(c) /\ call' = call /\ c.op = "remove"
  <2> DEFINE c == [op |-> "remove", id |-> id]
  <2>1. c.op = "remove" /\ c.id = id
    OBVIOUS
  <2>2. id \in 1..Len(chat)
    BY <1>0, <1>4, TypeFacts DEF QQRecall
  <2>3. Executed(c) /\ call' = call
    BY <1>4, <2>1, <2>2 DEF QQRecall, Executed, room, history, ChatOps
  <2> QED
    BY <2>1, <2>3
<1> QED
  BY <1>1, <1>2, <1>3, <1>4

(* What it does to the chat, and to the events about it. *)
LEMMA ExecutedFacts ==
  ASSUME IInv, NEW c, Executed(c)
  PROVE  /\ Len(chat) \in Nat /\ Len(chat') = IF c.op = "send" THEN Len(chat) + 1 ELSE Len(chat)
         /\ \A id \in 1..Len(chat) : id \in 1..Len(chat')
         /\ \A id \in 1..Len(chat') : id \in 1..Len(chat) \/ (c.op = "send" /\ id = Len(chat) + 1)
         /\ \A id \in 1..Len(chat) :
              /\ chat'[id].there <=> chat[id].there /\ ~(c.op = "remove" /\ id = c.id)
              /\ ~(c.op \in {"like", "unlike"} /\ id = c.id) =>
                   (chat'[id].like <=> chat[id].like)
         /\ c.op \in {"like", "unlike"} => (chat'[c.id].like <=> c.op = "like")
         /\ c.op = "send" => chat'[Len(chat) + 1].there /\ ~chat'[Len(chat) + 1].like
         /\ c.op = "send" => Items(wire') = Items(wire) \cup {Report(Len(chat) + 1)}
         /\ c.op = "remove" => Items(wire') = Items(wire) \cup {Recall(c.id)}
         /\ c.op \in {"like", "unlike"} => wire' = wire
         /\ Items(wire) \subseteq Items(wire')
         /\ DOMAIN wire = 1..Len(wire) /\ Len(wire) \in Nat
         /\ \A i \in DOMAIN wire : i \in DOMAIN wire' /\ wire'[i] = wire[i]
         /\ \A i \in DOMAIN wire' :
               \/ i \in DOMAIN wire
               \/ i = Len(wire) + 1 /\ c.op = "send" /\ wire'[i] = Report(Len(chat) + 1)
               \/ i = Len(wire) + 1 /\ c.op = "remove" /\ wire'[i] = Recall(c.id)
<1>0. TypeOK
  BY DEF IInv
<1>1. /\ c.op \in {"send", "remove", "like", "unlike"}
      /\ c.op \in ChatOps => c.id \in 1..Len(chat)
      /\ Execute(c)
  BY DEF Executed, ChatOps
<1>2. /\ Len(chat') = IF c.op = "send" THEN Len(chat) + 1 ELSE Len(chat)
      /\ \A id \in 1..Len(chat) :
           /\ chat'[id].there <=> chat[id].there /\ ~(c.op = "remove" /\ id = c.id)
           /\ ~(c.op \in {"like", "unlike"} /\ id = c.id) =>
                (chat'[id].like <=> chat[id].like)
      /\ c.op \in {"like", "unlike"} => (chat'[c.id].like <=> c.op = "like")
      /\ c.op = "send" => chat'[Len(chat) + 1].there /\ ~chat'[Len(chat) + 1].like
      /\ c.op = "send" => wire' = Append(wire, Report(Len(chat) + 1))
      /\ c.op = "remove" => wire' = Append(wire, Recall(c.id))
      /\ c.op \in {"like", "unlike"} => wire' = wire
  BY <1>0, <1>1, ExecuteFacts DEF Executed, Report, Recall
<1>3. Len(chat) \in Nat
  BY <1>0, TypeFacts
<1>4. /\ \A id \in 1..Len(chat) : id \in 1..Len(chat')
      /\ \A id \in 1..Len(chat') : id \in 1..Len(chat) \/ (c.op = "send" /\ id = Len(chat) + 1)
  BY <1>2, <1>3
<1> DEFINE Facts ==
         /\ c.op = "send" => Items(wire') = Items(wire) \cup {Report(Len(chat) + 1)}
         /\ c.op = "remove" => Items(wire') = Items(wire) \cup {Recall(c.id)}
         /\ Items(wire) \subseteq Items(wire')
         /\ DOMAIN wire = 1..Len(wire) /\ Len(wire) \in Nat
         /\ \A i \in DOMAIN wire : i \in DOMAIN wire' /\ wire'[i] = wire[i]
         /\ \A i \in DOMAIN wire' :
               \/ i \in DOMAIN wire
               \/ i = Len(wire) + 1 /\ c.op = "send" /\ wire'[i] = Report(Len(chat) + 1)
               \/ i = Len(wire) + 1 /\ c.op = "remove" /\ wire'[i] = Recall(c.id)
<1>5. Facts
  <2> DEFINE S == [op: {"message", "recall"}, id: Nat]
  <2>0. wire \in Seq(S)
    <3>1. wire \in Seq(QQEvents(Len(chat)))
      BY <1>0, TypeFacts
    <3>2. QQEvents(Len(chat)) \subseteq S
      BY <1>3 DEF QQEvents
    <3> QED
      BY <3>1, <3>2, SeqMonotonic
  <2>1. CASE c.op = "send"
    <3>1. Report(Len(chat) + 1) \in S
      BY <1>3 DEF Report
    <3>2. wire' = Append(wire, Report(Len(chat) + 1)) /\ c.op # "remove"
      BY <1>2, <2>1
    <3>3. /\ DOMAIN wire = 1..Len(wire) /\ Len(wire) \in Nat /\ DOMAIN wire' = 1..(Len(wire) + 1)
          /\ \A i \in 1..Len(wire) : wire'[i] = wire[i]
          /\ wire'[Len(wire) + 1] = Report(Len(chat) + 1)
          /\ Items(wire') = Items(wire) \cup {Report(Len(chat) + 1)}
      <4> HIDE DEF S
      <4> QED
        BY <2>0, <3>1, <3>2, AppendItems
    <3>4. 1..Len(wire) \subseteq 1..(Len(wire) + 1)
          /\ \A i \in 1..(Len(wire) + 1) : i \in 1..Len(wire) \/ i = Len(wire) + 1
      BY <3>3
    <3> QED
      BY <2>1, <3>2, <3>3, <3>4
  <2>2. CASE c.op = "remove"
    <3>1. Recall(c.id) \in S
      BY <1>1, <1>3, <2>2 DEF Recall, ChatOps
    <3>2. wire' = Append(wire, Recall(c.id)) /\ c.op # "send"
      BY <1>2, <2>2
    <3>3. /\ DOMAIN wire = 1..Len(wire) /\ Len(wire) \in Nat /\ DOMAIN wire' = 1..(Len(wire) + 1)
          /\ \A i \in 1..Len(wire) : wire'[i] = wire[i]
          /\ wire'[Len(wire) + 1] = Recall(c.id)
          /\ Items(wire') = Items(wire) \cup {Recall(c.id)}
      <4> HIDE DEF S
      <4> QED
        BY <2>0, <3>1, <3>2, AppendItems
    <3>4. 1..Len(wire) \subseteq 1..(Len(wire) + 1)
          /\ \A i \in 1..(Len(wire) + 1) : i \in 1..Len(wire) \/ i = Len(wire) + 1
      BY <3>3
    <3> QED
      BY <2>2, <3>2, <3>3, <3>4
  <2>3. CASE c.op \in {"like", "unlike"}
    BY <1>2, <2>0, <2>3
  <2> QED
    BY <1>1, <2>1, <2>2, <2>3
<1> QED
  BY <1>2, <1>3, <1>4, <1>5

(* No event is about a message that is not in the chat yet. *)
LEMMA NoneAhead ==
  ASSUME IInv, NEW id, id \notin 1..Len(chat)
  PROVE  Recall(id) \notin Items(queue) \cup Items(wire)
<1>1. \A e \in QQEvents(Len(chat)) : e # Recall(id)
  BY DEF QQEvents, Recall
<1> QED
  BY <1>1, QueueEvents, EventForms DEF IInv

(* No step reports a recall that has not happened. *)
LEMMA RecallsAreTrueKept ==
  ASSUME IInv, ChangesAreKnown, RecallsAreTrue, Next
  PROVE  RecallsAreTrue'
<1>0. TypeOK
  BY DEF IInv
<1>1. CASE CarryOut \/ CarryOutLate \/ QQMessage \/ \E id \in QQIds : QQRecall(id)
  <2>1. PICK c : Executed(c)
    BY <1>1, ExecutedBy
  <2>2. queue' = queue /\ recalled' = recalled /\ Items(queue') = Items(queue)
    BY <2>1 DEF Executed
  <2>3. recalled' \subseteq {Chat} \X (1..Len(chat'))
    BY <2>1, <2>2, ExecutedFacts DEF RecallsAreTrue
  <2>4. ASSUME NEW id \in 1..Len(chat'),
               MakeMessageID(id) \in recalled' \/ Recall(id) \in Items(queue') \cup Items(wire')
        PROVE  ~chat'[id].there
    <3>1. CASE id \in 1..Len(chat)
      <4>1. MakeMessageID(id) \in recalled \/ Recall(id) \in Items(queue) \cup Items(wire)
              \/ (c.op = "remove" /\ c.id = id)
        <5>1. Recall(id) # Report(Len(chat) + 1) /\ (Recall(id) = Recall(c.id) => id = c.id)
          BY DEF Recall, Report
        <5>2. c.op \in {"send", "remove", "like", "unlike"}
          BY <2>1 DEF Executed, ChatOps
        <5> QED
          BY <2>1, <2>2, <2>4, <5>1, <5>2, ExecutedFacts
      <4> QED
        BY <2>1, <3>1, <4>1, ExecutedFacts DEF RecallsAreTrue
    <3>2. CASE id \notin 1..Len(chat)
      <4>1. id = Len(chat) + 1 /\ c.op = "send" /\ Items(wire') = Items(wire) \cup {Report(Len(chat) + 1)}
        BY <2>1, <3>2, ExecutedFacts
      <4>2. MakeMessageID(id) \notin recalled
        BY <3>2 DEF MakeMessageID, RecallsAreTrue
      <4>3. Recall(id) # Report(Len(chat) + 1)
        BY DEF Recall, Report
      <4> QED
        BY <2>2, <2>4, <3>2, <4>1, <4>2, <4>3, NoneAhead
    <3> QED
      BY <3>1, <3>2
  <2> QED
    BY <2>3, <2>4 DEF RecallsAreTrue
<1>2. ASSUME chat' = chat, recalled' = recalled,
             \A id : Recall(id) \in Items(queue') \cup Items(wire') =>
                      Recall(id) \in Items(queue) \cup Items(wire)
      PROVE  RecallsAreTrue'
  BY <1>2 DEF RecallsAreTrue
<1>3. ASSUME NEW m \in Msgs, Type(m) \/ Redact(m) \/ React(m) \/ Unreact(m)
      PROVE  RecallsAreTrue'
  <2>1. PICK e \in MatrixEvents : queue' = Append(queue, e)
    BY <1>3 DEF Type, Redact, React, Unreact, Ask, MatrixEvents, ChatOps
  <2>2. UNCHANGED <<chat, recalled, wire>>
    BY <1>3 DEF Type, Redact, React, Unreact, Ask
  <2>3. Items(queue') = Items(queue) \cup {e}
    BY <1>0, <2>1, QueueAppend
  <2> QED
    BY <1>2, <2>2, <2>3, EventForms
<1>4. CASE SendFail \/ SendCall \/ ChangeOffline \/ ChangeUnknown \/ ChangeCall \/ RemoteMessage
  <2>1. PICK kinds : Handling(kinds) /\ queue' = Tail(queue)
    BY <1>4 DEF SendFail, SendCall, ChangeOffline, ChangeUnknown, ChangeCall, RemoteMessage
  <2>2. Items(queue') \subseteq Items(queue)
    BY <1>0, <2>1, QueueTail
  <2>3. UNCHANGED <<chat, recalled, wire>>
    BY <1>4 DEF SendFail, SendCall, ChangeOffline, ChangeUnknown, ChangeCall, RemoteMessage
  <2> QED
    BY <1>2, <2>2, <2>3
<1>5. CASE RemoteRecall
  <2>1. Handling({"recall"}) /\ queue' = Tail(queue) /\ UNCHANGED <<chat, wire>>
        /\ recalled' = recalled \cup ({MakeMessageID(Event.id)} \cap Known)
    BY <1>5 DEF RemoteRecall
  <2>2. Event.id \in 1..Len(chat) /\ Event = Recall(Event.id)
    BY <1>0, <2>1, HandleFacts, EventForms DEF Handling
  <2>3. Items(queue) = Items(queue') \cup {Event}
    BY <1>0, <2>1, QueueTail
  <2>4. \A id : MakeMessageID(id) \in recalled' => MakeMessageID(id) \in recalled \/ id = Event.id
    BY <2>1, IdForms
  <2>5. recalled' \subseteq {Chat} \X (1..Len(chat'))
    BY <2>1, IdForms DEF RecallsAreTrue
  <2> QED
    BY <2>1, <2>2, <2>3, <2>4, <2>5 DEF RecallsAreTrue
<1>6. CASE ReadEvent
  <2>1. wire # <<>> /\ wire' = Tail(wire) /\ queue' = Append(queue, Head(wire))
        /\ UNCHANGED <<chat, recalled>>
    BY <1>6 DEF ReadEvent
  <2>2. Items(wire) = Items(wire') \cup {Head(wire)}
    BY <1>0, <2>1, WireHead
  <2>3. Items(queue') = Items(queue) \cup {Head(wire)}
    BY <1>0, <2>1, WireHead, QueueAppend
  <2> QED
    BY <1>2, <2>1, <2>2, <2>3
<1>7. CASE SessionChange
  <2>1. wire' = <<>> /\ UNCHANGED <<queue, chat, recalled>>
    BY <1>7 DEF SessionChange
  <2>2. Items(<<>>) = {}
    BY DEF Items
  <2> QED
    BY <1>2, <2>1, <2>2
<1>8. CASE Refuse \/ SendReturn \/ ChangeReturn \/ CallError
  <2>1. UNCHANGED <<queue, wire, chat, recalled>>
    BY <1>8 DEF Refuse, SendReturn, ChangeReturn, CallError
  <2> QED
    BY <1>2, <2>1
<1> QED
  BY <1>1, <1>3, <1>4, <1>5, <1>6, <1>7, <1>8 DEF Next

(* The room never forgets an id. *)
LEMMA KnownGrows ==
  ASSUME IInv, SendsFirst, Next
  PROVE  Known \subseteq Known'
<1>1. CASE SendReturn
  <2>1. call.op = "send" /\ db' = [db EXCEPT ![call.m] = MakeMessageID(call.id)] /\ copies' = copies
    BY <1>1 DEF SendReturn
  <2>2. db[call.m] = None
    BY <2>1 DEF SendsFirst
  <2>3. \A m \in Msgs : m # call.m => db'[m] = db[m]
    BY <2>1 DEF IInv, TypeOK
  <2> QED
    BY <2>1, <2>2, <2>3 DEF Known
<1>2. CASE db' = db /\ copies \subseteq copies'
  BY <1>2 DEF Known
<1> QED
  BY <1>1, <1>2 DEF Next, Type, Redact, React, Unreact, Ask, SendFail, SendCall, ChangeOffline,
     ChangeUnknown, ChangeCall, CarryOut, CarryOutLate, Refuse, QQMessage, QQRecall, SessionChange,
     ChangeReturn, CallError, ReadEvent, RemoteMessage, RemoteRecall

(* One id: it is shown or reported, its recall is done or on its way, and  *)
(* behind the report.                                                      *)
ReportedId(id) ==
  /\ MakeMessageID(id) \in Known \/ Report(id) \in Items(queue) \cup Items(wire)
  /\ chat[id].there \/ MakeMessageID(id) \in recalled
       \/ Recall(id) \in Items(queue) \cup Items(wire)
  /\ \A j \in DOMAIN queue : queue[j] = Recall(id) =>
       MakeMessageID(id) \in Known \/ \E i \in DOMAIN queue : i < j /\ queue[i] = Report(id)
  /\ \A j \in DOMAIN wire : wire[j] = Recall(id) =>
       \/ MakeMessageID(id) \in Known \/ Report(id) \in Items(queue)
       \/ \E i \in DOMAIN wire : i < j /\ wire[i] = Report(id)

(* The first event of the queue is not about id. *)
LEMMA ReportedTail ==
  ASSUME IInv, SendsFirst, Next, NEW id \in 1..Len(chat), ReportedId(id),
         NEW kinds, Handling(kinds), queue' = Tail(queue), UNCHANGED <<chat, wire>>,
         recalled \subseteq recalled',
         Event # Report(id) \/ MakeMessageID(id) \in Known',
         Event # Recall(id) \/ MakeMessageID(id) \in recalled'
  PROVE  ReportedId(id)'
<1>0. TypeOK
  BY DEF IInv
<1>1. /\ Event = queue[1] /\ DOMAIN queue \subseteq Nat /\ DOMAIN queue' \subseteq Nat
      /\ \A i \in DOMAIN queue' : queue'[i] = queue[i + 1] /\ i + 1 \in DOMAIN queue
      /\ \A i \in DOMAIN queue : i # 1 => i - 1 \in DOMAIN queue' /\ queue[i] = queue'[i - 1]
      /\ Items(queue) = Items(queue') \cup {Event}
  BY <1>0, QueueTail
<1>2. Known \subseteq Known' /\ Items(wire') = Items(wire)
  BY KnownGrows
<1>3. MakeMessageID(id) \in Known' \/ Report(id) \in Items(queue') \cup Items(wire')
  BY <1>1, <1>2 DEF ReportedId
<1>4. chat'[id].there \/ MakeMessageID(id) \in recalled'
         \/ Recall(id) \in Items(queue') \cup Items(wire')
  BY <1>1, <1>2 DEF ReportedId
<1>5. ASSUME NEW j \in DOMAIN queue', queue'[j] = Recall(id), MakeMessageID(id) \notin Known'
      PROVE  \E i \in DOMAIN queue' : i < j /\ queue'[i] = Report(id)
  <2>1. PICK i \in DOMAIN queue : i < j + 1 /\ queue[i] = Report(id)
    BY <1>1, <1>2, <1>5 DEF ReportedId
  <2>2. i # 1 /\ i - 1 < j
    BY <1>1, <1>5, <2>1
  <2> QED
    BY <1>1, <2>1, <2>2
<1>6. ASSUME NEW j \in DOMAIN wire', wire'[j] = Recall(id), MakeMessageID(id) \notin Known'
      PROVE  Report(id) \in Items(queue') \/ \E i \in DOMAIN wire' : i < j /\ wire'[i] = Report(id)
  BY <1>1, <1>2, <1>6 DEF ReportedId
<1> QED
  BY <1>3, <1>4, <1>5, <1>6 DEF ReportedId

(* Without a loss, no step hides a message from the room. *)
LEMMA AllReportedKept ==
  ASSUME IInv, SendsFirst, ChangesAreKnown, AllReported, Next, ~lossy'
  PROVE  AllReported'
<1>0. TypeOK
  BY DEF IInv
<1>a. \A id \in 1..Len(chat) : ReportedId(id)
  BY DEF AllReported, ReportedId
<1>b. Known \subseteq Known'
  BY KnownGrows
<1>1. CASE CarryOut \/ CarryOutLate \/ QQMessage \/ \E id \in QQIds : QQRecall(id)
  <2>1. PICK c : Executed(c)
    BY <1>1, ExecutedBy
  <2>2. queue' = queue /\ recalled' = recalled
    BY <2>1 DEF Executed
  <2>3. Known' = Known
    BY <2>1 DEF Executed, Known
  <2>4. \A x, y : Recall(x) # Report(y) /\ (Recall(x) = Recall(y) => x = y)
    BY DEF Recall, Report
  <2>5. ASSUME NEW id \in 1..Len(chat) PROVE ReportedId(id)'
    <3>1. MakeMessageID(id) \in Known' \/ Report(id) \in Items(queue') \cup Items(wire')
      BY <1>a, <2>1, <2>2, <2>3, ExecutedFacts DEF ReportedId
    <3>2. chat'[id].there \/ MakeMessageID(id) \in recalled'
             \/ Recall(id) \in Items(queue') \cup Items(wire')
      BY <1>a, <2>1, <2>2, ExecutedFacts DEF ReportedId
    <3>3. \A j \in DOMAIN queue' : queue'[j] = Recall(id) =>
           MakeMessageID(id) \in Known' \/ \E i \in DOMAIN queue' : i < j /\ queue'[i] = Report(id)
      BY <1>a, <2>2, <2>3 DEF ReportedId
    <3>4. ASSUME NEW j \in DOMAIN wire', wire'[j] = Recall(id),
                 MakeMessageID(id) \notin Known', Report(id) \notin Items(queue')
          PROVE  \E i \in DOMAIN wire' : i < j /\ wire'[i] = Report(id)
      <4>1. CASE j \in DOMAIN wire
        <5>1. wire[j] = Recall(id)
          BY <2>1, <3>4, <4>1, ExecutedFacts
        <5>2. PICK i \in DOMAIN wire : i < j /\ wire[i] = Report(id)
          BY <1>a, <2>2, <2>3, <3>4, <4>1, <5>1 DEF ReportedId
        <5> QED
          BY <2>1, <5>2, ExecutedFacts
      <4>2. CASE j \notin DOMAIN wire
        <5>1. j = Len(wire) + 1
          BY <2>1, <3>4, <4>2, ExecutedFacts
        <5>2. Report(id) \in Items(wire)
          BY <1>a, <2>2, <2>3, <3>4 DEF ReportedId
        <5>3. PICK i \in DOMAIN wire : wire[i] = Report(id)
          BY <5>2 DEF Items
        <5>4. i < j
          BY <2>1, <5>1, <5>3, ExecutedFacts
        <5> QED
          BY <2>1, <5>3, <5>4, ExecutedFacts
      <4> QED
        BY <4>1, <4>2
    <3> QED
      BY <3>1, <3>2, <3>3, <3>4 DEF ReportedId
  <2>6. ASSUME NEW id \in 1..Len(chat'), id \notin 1..Len(chat) PROVE ReportedId(id)'
    <3>1. /\ id = Len(chat) + 1 /\ chat'[id].there
          /\ Items(wire') = Items(wire) \cup {Report(id)}
      BY <2>1, <2>6, ExecutedFacts
    <3>2. Recall(id) \notin Items(queue') \cup Items(wire')
      BY <2>2, <2>4, <2>6, <3>1, NoneAhead
    <3> QED
      BY <3>1, <3>2 DEF ReportedId, Items
  <2> QED
    BY <2>5, <2>6 DEF AllReported, ReportedId
<1>2. ASSUME NEW e \in MatrixEvents, queue' = Append(queue, e), UNCHANGED <<chat, wire, recalled>>
      PROVE  AllReported'
  <2>1. ASSUME NEW id \in 1..Len(chat) PROVE ReportedId(id)'
    <3>1. /\ DOMAIN queue = 1..Len(queue) /\ Len(queue) \in Nat
          /\ DOMAIN queue' = 1..(Len(queue) + 1)
          /\ \A i \in 1..Len(queue) : queue'[i] = queue[i]
          /\ queue'[Len(queue) + 1] = e
          /\ Items(queue') = Items(queue) \cup {e}
      BY <1>0, <1>2, QueueAppend
    <3>2. e # Report(id) /\ e # Recall(id)
      BY EventForms
    <3>3. ASSUME NEW j \in DOMAIN queue', queue'[j] = Recall(id), MakeMessageID(id) \notin Known'
          PROVE  \E i \in DOMAIN queue' : i < j /\ queue'[i] = Report(id)
      <4>1. j \in 1..Len(queue) /\ queue[j] = Recall(id)
        BY <3>1, <3>2, <3>3
      <4>2. PICK i \in DOMAIN queue : i < j /\ queue[i] = Report(id)
        BY <1>a, <1>b, <3>1, <3>3, <4>1 DEF ReportedId
      <4> QED
        BY <3>1, <4>2
    <3>4. /\ MakeMessageID(id) \in Known' \/ Report(id) \in Items(queue') \cup Items(wire')
          /\ chat'[id].there \/ MakeMessageID(id) \in recalled'
                \/ Recall(id) \in Items(queue') \cup Items(wire')
      BY <1>a, <1>b, <1>2, <3>1 DEF ReportedId
    <3>5. \A j \in DOMAIN wire' : wire'[j] = Recall(id) =>
           \/ MakeMessageID(id) \in Known' \/ Report(id) \in Items(queue')
           \/ \E i \in DOMAIN wire' : i < j /\ wire'[i] = Report(id)
      BY <1>a, <1>b, <1>2, <3>1 DEF ReportedId
    <3> QED
      BY <3>3, <3>4, <3>5 DEF ReportedId
  <2> QED
    BY <1>2, <2>1 DEF AllReported, ReportedId
<1>3. ASSUME NEW m \in Msgs, Type(m) \/ Redact(m) \/ React(m) \/ Unreact(m)
      PROVE  AllReported'
  <2>1. PICK e \in MatrixEvents : queue' = Append(queue, e)
    BY <1>3 DEF Type, Redact, React, Unreact, Ask, MatrixEvents, ChatOps
  <2>2. UNCHANGED <<chat, recalled, wire>>
    BY <1>3 DEF Type, Redact, React, Unreact, Ask
  <2> QED
    BY <1>2, <2>1, <2>2
<1>4. CASE SendFail \/ SendCall \/ ChangeOffline \/ ChangeUnknown \/ ChangeCall
  <2>1. PICK kinds \in {{"send"}, ChatOps} : Handling(kinds) /\ queue' = Tail(queue)
    BY <1>4 DEF SendFail, SendCall, ChangeOffline, ChangeUnknown, ChangeCall
  <2>2. UNCHANGED <<chat, recalled, wire>>
    BY <1>4 DEF SendFail, SendCall, ChangeOffline, ChangeUnknown, ChangeCall
  <2>3. Event \in MatrixEvents
    BY <1>0, <2>1, HandleFacts DEF Handling
  <2> QED
    BY <1>a, <2>1, <2>2, <2>3, ReportedTail, EventForms DEF AllReported, ReportedId
<1>5. CASE RemoteMessage
  <2>1. Handling({"message"}) /\ queue' = Tail(queue) /\ UNCHANGED <<chat, wire, recalled>>
        /\ copies' = copies \cup ({MakeMessageID(Event.id)} \ Known)
    BY <1>5 DEF RemoteMessage
  <2>2. Event.op = "message" /\ Event = Report(Event.id)
    BY <1>0, <2>1, HandleFacts, EventForms DEF Handling
  <2>3. MakeMessageID(Event.id) \in Known'
    BY <1>b, <2>1 DEF Known
  <2>4. \A id : (Event = Report(id) => id = Event.id) /\ Event # Recall(id)
    BY <2>2 DEF Report, Recall
  <2> QED
    BY <1>a, <2>1, <2>3, <2>4, ReportedTail DEF AllReported, ReportedId
<1>6. CASE RemoteRecall
  <2>1. Handling({"recall"}) /\ queue' = Tail(queue) /\ UNCHANGED <<chat, wire>>
        /\ recalled' = recalled \cup ({MakeMessageID(Event.id)} \cap Known)
    BY <1>6 DEF RemoteRecall
  <2>2. Event.id \in 1..Len(chat) /\ Event = Recall(Event.id)
    BY <1>0, <2>1, HandleFacts, EventForms DEF Handling
  <2>3. /\ Event = queue[1] /\ DOMAIN queue = 1..Len(queue) /\ 1 \in DOMAIN queue
    BY <1>0, <2>1, QueueTail
  <2>4. MakeMessageID(Event.id) \in Known
    BY <1>a, <2>2, <2>3 DEF ReportedId
  <2>5. \A id : (Event = Recall(id) => id = Event.id) /\ Event # Report(id)
    BY <2>2 DEF Report, Recall
  <2> QED
    BY <1>a, <2>1, <2>4, <2>5, ReportedTail DEF AllReported, ReportedId
<1>7. CASE ReadEvent
  <2>1. wire # <<>> /\ wire' = Tail(wire) /\ queue' = Append(queue, Head(wire))
        /\ UNCHANGED <<chat, recalled>>
    BY <1>7 DEF ReadEvent
  <2> DEFINE e == Head(wire)
  <2>2. /\ DOMAIN queue = 1..Len(queue) /\ Len(queue) \in Nat
        /\ DOMAIN queue' = 1..(Len(queue) + 1)
        /\ \A i \in 1..Len(queue) : queue'[i] = queue[i]
        /\ queue'[Len(queue) + 1] = e
        /\ Items(queue') = Items(queue) \cup {e}
    BY <1>0, <2>1, WireHead, QueueAppend
  <2>3. /\ e = wire[1] /\ DOMAIN wire = 1..Len(wire) /\ Len(wire) \in Nat \ {0}
        /\ DOMAIN wire' = 1..(Len(wire) - 1)
        /\ \A i \in DOMAIN wire' : wire'[i] = wire[i + 1] /\ i + 1 \in DOMAIN wire
        /\ \A i \in DOMAIN wire : i # 1 => i - 1 \in DOMAIN wire' /\ wire[i] = wire'[i - 1]
        /\ Items(wire) = Items(wire') \cup {e}
    BY <1>0, <2>1, WireHead
  <2> HIDE DEF e
  <2>4. ASSUME NEW id \in 1..Len(chat) PROVE ReportedId(id)'
    <3>1. /\ MakeMessageID(id) \in Known' \/ Report(id) \in Items(queue') \cup Items(wire')
          /\ chat'[id].there \/ MakeMessageID(id) \in recalled'
                \/ Recall(id) \in Items(queue') \cup Items(wire')
      BY <1>a, <1>b, <2>1, <2>2, <2>3 DEF ReportedId
    <3>2. ASSUME NEW j \in DOMAIN queue', queue'[j] = Recall(id), MakeMessageID(id) \notin Known'
          PROVE  \E i \in DOMAIN queue' : i < j /\ queue'[i] = Report(id)
      <4>1. CASE j \in 1..Len(queue)
        <5>1. PICK i \in DOMAIN queue : i < j /\ queue[i] = Report(id)
          BY <1>a, <1>b, <2>2, <3>2, <4>1 DEF ReportedId
        <5> QED
          BY <2>2, <5>1
      <4>2. CASE j = Len(queue) + 1
        <5>1. wire[1] = Recall(id) /\ 1 \in DOMAIN wire
          BY <2>2, <2>3, <3>2, <4>2
        <5>2. ~ \E i \in DOMAIN wire : i < 1 /\ wire[i] = Report(id)
          BY <2>3
        <5>3. Report(id) \in Items(queue)
          BY <1>a, <1>b, <3>2, <5>1, <5>2 DEF ReportedId
        <5>4. PICK i \in DOMAIN queue : queue[i] = Report(id)
          BY <5>3 DEF Items
        <5> QED
          BY <2>2, <4>2, <5>4
      <4> QED
        BY <2>2, <4>1, <4>2
    <3>3. ASSUME NEW j \in DOMAIN wire', wire'[j] = Recall(id), MakeMessageID(id) \notin Known',
                 Report(id) \notin Items(queue')
          PROVE  \E i \in DOMAIN wire' : i < j /\ wire'[i] = Report(id)
      <4>1. PICK i \in DOMAIN wire : i < j + 1 /\ wire[i] = Report(id)
        BY <1>a, <1>b, <2>2, <2>3, <3>3 DEF ReportedId
      <4>2. i # 1
        BY <2>2, <2>3, <3>3, <4>1
      <4>3. i - 1 < j
        BY <2>3, <3>3, <4>1
      <4> QED
        BY <2>3, <4>1, <4>2, <4>3
    <3> QED
      BY <3>1, <3>2, <3>3 DEF ReportedId
  <2> QED
    BY <2>1, <2>4 DEF AllReported, ReportedId
<1>8. CASE Refuse \/ SendReturn \/ ChangeReturn \/ CallError
  <2>1. UNCHANGED <<queue, wire, chat, recalled>>
    BY <1>8 DEF Refuse, SendReturn, ChangeReturn, CallError
  <2>2. ASSUME NEW id \in 1..Len(chat) PROVE ReportedId(id)'
    BY <1>a, <1>b, <2>1 DEF ReportedId
  <2> QED
    BY <2>1, <2>2 DEF AllReported, ReportedId
<1>9. ~SessionChange
  BY DEF SessionChange
<1> QED
  BY <1>1, <1>3, <1>4, <1>5, <1>6, <1>7, <1>8, <1>9 DEF Next

(* One removal: waiting, under way, or done. *)
RemovalOf(m) ==
  /\ db[m] # None =>
       \/ Removal(m) \in Items(queue)
       \/ Unfinished("remove", m)
       \/ ~chat[ParseMessageID(db[m])].there
  /\ BeingSent(m) => Removal(m) \in Items(queue)

(* Without a missed answer, no step forgets a removal. *)
LEMMA RemovalsWaitKept ==
  ASSUME IInv, SendsFirst, ChangesAreKnown, RemovalsWait, Next, ~missed'
  PROVE  RemovalsWait'
<1>0. TypeOK
  BY DEF IInv
<1>a. \A m \in gone : m \in Msgs /\ m \in typed /\ RemovalOf(m)
  BY <1>0 DEF RemovalsWait, RemovalOf, TypeOK
<1>1. CASE CarryOut \/ CarryOutLate \/ QQMessage \/ \E id \in QQIds : QQRecall(id)
  <2>1. PICK c : Executed(c) /\ ((CarryOut /\ c = call) \/ call' = call)
    BY <1>1, ExecutedBy
  <2>2. UNCHANGED <<queue, db, gone>>
    BY <2>1 DEF Executed
  <2>3. ASSUME NEW m \in gone PROVE RemovalOf(m)'
    <3>1. CASE call' = call
      <4>1. db[m] # None /\ ~chat[ParseMessageID(db[m])].there => ~chat'[ParseMessageID(db[m])].there
        BY <1>a, <2>1, ExecutedFacts, IdForms
      <4> QED
        BY <1>a, <2>2, <3>1, <4>1 DEF RemovalOf, Unfinished, BeingSent
    <3>2. CASE CarryOut /\ c = call
      <4>1. call \in Calls /\ call'.op = call.op /\ call'.m = call.m
        BY <1>0, <3>2, TypeFacts DEF CarryOut, NoCall, Calls
      <4>2. BeingSent(m)' => BeingSent(m)
        BY <2>2, <4>1 DEF BeingSent
      <4>3. CASE db[m] # None
        <5>1. ParseMessageID(db[m]) \in 1..Len(chat)
          BY <1>a, <4>3, IdForms
        <5>2. Unfinished("remove", m) => c.op = "remove" /\ c.id = ParseMessageID(db[m])
          BY <3>2 DEF Unfinished, ChangesAreKnown, ChatOps
        <5>3. Unfinished("remove", m) \/ ~chat[ParseMessageID(db[m])].there
                => ~chat'[ParseMessageID(db[m])].there
          BY <2>1, <5>1, <5>2, ExecutedFacts
        <5> QED
          BY <1>a, <2>2, <4>2, <5>3 DEF RemovalOf
      <4> QED
        BY <1>a, <2>2, <4>2, <4>3 DEF RemovalOf
    <3> QED
      BY <2>1, <3>1, <3>2
  <2> QED
    BY <2>2, <2>3 DEF RemovalsWait, RemovalOf
<1>2. ASSUME NEW e \in MatrixEvents \cup QQEvents(Len(chat)), queue' = Append(queue, e),
             UNCHANGED <<chat, call, db>>,
             \A m \in gone' : (m \in gone /\ e # Sending(m)) \/ e = Removal(m)
      PROVE  RemovalsWait'
  <2>1. Items(queue') = Items(queue) \cup {e}
    BY <1>0, <1>2, QueueAppend
  <2>2. ASSUME NEW m \in gone' PROVE RemovalOf(m)'
    <3>1. CASE e = Removal(m)
      BY <2>1, <3>1 DEF RemovalOf
    <3>2. CASE m \in gone /\ e # Sending(m)
      BY <1>2, <1>a, <2>1, <3>2 DEF RemovalOf, Unfinished, BeingSent
    <3> QED
      BY <1>2, <3>1, <3>2
  <2> QED
    BY <2>2 DEF RemovalsWait, RemovalOf
<1>3. ASSUME NEW x \in Msgs, Type(x) PROVE RemovalsWait'
  <2>1. queue' = Append(queue, Sending(x)) /\ x \notin typed /\ UNCHANGED <<chat, call, db, gone>>
    BY <1>3 DEF Type, Sending
  <2>2. Sending(x) \in MatrixEvents
    BY DEF Sending, MatrixEvents
  <2>3. \A m \in gone : Sending(x) # Sending(m)
    BY <1>a, <2>1, EventForms
  <2> QED
    BY <1>2, <2>1, <2>2, <2>3
<1>4. ASSUME NEW x \in Msgs, Redact(x) PROVE RemovalsWait'
  <2>1. queue' = Append(queue, Removal(x)) /\ gone' = gone \cup {x} /\ UNCHANGED <<chat, call, db>>
    BY <1>4 DEF Redact, Ask, Removal
  <2>2. Removal(x) \in MatrixEvents
    BY DEF Removal, MatrixEvents, ChatOps
  <2>3. \A m : Removal(x) # Sending(m)
    BY EventForms
  <2> QED
    BY <1>2, <2>1, <2>2, <2>3
<1>5. ASSUME NEW x \in Msgs, React(x) \/ Unreact(x) PROVE RemovalsWait'
  <2>1. PICK op \in {"like", "unlike"} : queue' = Append(queue, [op |-> op, m |-> x])
    BY <1>5 DEF React, Unreact, Ask
  <2>2. UNCHANGED <<chat, call, db, gone>>
    BY <1>5 DEF React, Unreact, Ask
  <2>3. [op |-> op, m |-> x] \in MatrixEvents /\ \A m : [op |-> op, m |-> x] # Sending(m)
    BY DEF MatrixEvents, ChatOps, Sending
  <2> QED
    BY <1>2, <2>1, <2>2, <2>3
<1>6. CASE ReadEvent
  <2>1. wire # <<>> /\ queue' = Append(queue, Head(wire)) /\ UNCHANGED <<chat, call, db, gone>>
    BY <1>6 DEF ReadEvent, room
  <2>2. Head(wire) \in QQEvents(Len(chat))
    BY <1>0, <2>1, WireHead
  <2> QED
    BY <1>2, <2>1, <2>2, EventForms
<1>7. CASE SendFail \/ SendCall \/ RemoteMessage \/ RemoteRecall
  <2>1. PICK kinds \in {{"send"}, {"message"}, {"recall"}} : Handling(kinds) /\ queue' = Tail(queue)
    BY <1>7 DEF SendFail, SendCall, RemoteMessage, RemoteRecall
  <2>2. UNCHANGED <<chat, db, gone>>
    BY <1>7 DEF SendFail, SendCall, RemoteMessage, RemoteRecall, room
  <2>3. Items(queue) = Items(queue') \cup {Event}
    BY <1>0, <2>1, QueueTail
  <2>4. \A m : Event # Removal(m)
    BY <2>1 DEF Handling, Removal
  <2>5. call = NoCall /\ ~ \E m : Unfinished("remove", m)
    BY <2>1 DEF Handling, Unfinished, NoCall
  <2>6. ASSUME NEW m, BeingSent(m)' PROVE BeingSent(m)
    <3>1. CASE SendCall
      <4>1. Event \in MatrixEvents /\ Event.op = "send"
        BY <1>0, <2>1, <3>1, HandleFacts DEF SendCall, Handling
      <4> QED
        BY <2>3, <2>6, <3>1, <4>1, EventForms DEF SendCall, BeingSent
    <3>2. CASE call' = call
      BY <2>3, <2>6, <3>2 DEF BeingSent
    <3> QED
      BY <1>7, <3>1, <3>2 DEF SendFail, RemoteMessage, RemoteRecall
  <2>7. ASSUME NEW m \in gone PROVE RemovalOf(m)'
    BY <1>a, <2>2, <2>3, <2>4, <2>5, <2>6 DEF RemovalOf
  <2> QED
    BY <2>2, <2>7 DEF RemovalsWait, RemovalOf
<1>8. CASE ChangeUnknown \/ ChangeCall
  <2>1. Handling(ChatOps) /\ queue' = Tail(queue) /\ UNCHANGED <<chat, db, gone>>
    BY <1>8 DEF ChangeUnknown, ChangeCall, room
  <2>2. Items(queue) = Items(queue') \cup {Event}
    BY <1>0, <2>1, QueueTail
  <2>3. Event \in MatrixEvents /\ Event.m \in Msgs /\ About(Event, Event.m) /\ Event.op \in ChatOps
    BY <1>0, <2>1, HandleFacts DEF Handling, About
  <2>4. Sending(Event.m) \notin Items(queue')
    BY <1>0, <2>1, <2>3, SentAlready
  <2>5. call = NoCall /\ call.op \notin ChatOps /\ call.op # "send"
    BY <2>1 DEF Handling, NoCall, ChatOps
  <2>6. call'.op # "send"
    BY <1>8, <2>3, <2>5 DEF ChangeUnknown, ChangeCall, ChatOps
  <2>7. ASSUME NEW m \in gone PROVE RemovalOf(m)'
    <3>1. BeingSent(m)' => BeingSent(m) /\ m # Event.m
      BY <2>2, <2>4, <2>6 DEF BeingSent
    <3>2. ~Unfinished("remove", m)
      BY <2>5 DEF Unfinished, ChatOps
    <3>3. CASE m # Event.m
      <4>1. Event # Removal(m)
        BY <3>3, EventForms
      <4> QED
        BY <1>a, <2>1, <2>2, <3>1, <3>2, <4>1 DEF RemovalOf
    <3>4. CASE m = Event.m
      <4>1. CASE ChangeUnknown
        BY <2>1, <3>1, <3>4, <4>1 DEF ChangeUnknown, RemovalOf
      <4>2. CASE ChangeCall /\ Event.op = "remove"
        <5>1. Unfinished("remove", m)'
          BY <3>4, <4>2 DEF ChangeCall, Unfinished
        <5> QED
          BY <3>1, <3>4, <5>1 DEF RemovalOf
      <4>3. CASE Event.op # "remove"
        <5>1. Event # Removal(m)
          BY <4>3, EventForms
        <5> QED
          BY <1>a, <2>1, <2>2, <3>1, <3>2, <5>1 DEF RemovalOf
      <4> QED
        BY <1>8, <4>1, <4>2, <4>3
    <3> QED
      BY <3>3, <3>4
  <2> QED
    BY <2>1, <2>7 DEF RemovalsWait, RemovalOf
<1>9. CASE SendReturn
  <2>1. /\ call.op = "send" /\ UNCHANGED <<queue, chat, gone>> /\ call' = NoCall
        /\ \A m \in Msgs : m # call.m => db'[m] = db[m]
    BY <1>0, <1>9 DEF SendReturn, room, TypeOK
  <2>2. ASSUME NEW m \in gone PROVE RemovalOf(m)'
    <3>1. BeingSent(m)' => BeingSent(m)
      BY <2>1 DEF BeingSent, NoCall
    <3>2. ~Unfinished("remove", m)
      BY <2>1 DEF Unfinished
    <3>3. CASE m = call.m
      BY <1>a, <2>1, <3>3 DEF RemovalOf, BeingSent
    <3>4. CASE m # call.m
      BY <1>a, <2>1, <3>1, <3>2, <3>4 DEF RemovalOf
    <3> QED
      BY <3>3, <3>4
  <2> QED
    BY <2>1, <2>2 DEF RemovalsWait, RemovalOf
<1>10. ASSUME UNCHANGED <<queue, chat, db, gone>>,
              \A m : Unfinished("remove", m) => Unfinished("remove", m)',
              \A m : BeingSent(m)' => BeingSent(m)
       PROVE  RemovalsWait'
  BY <1>10, <1>a DEF RemovalsWait, RemovalOf
<1>11. CASE SessionChange
  <2>1. UNCHANGED <<queue, chat, db, gone, call>>
    BY <1>11 DEF SessionChange, room
  <2> QED
    BY <1>10, <2>1 DEF Unfinished, BeingSent
<1>12. CASE Refuse
  <2>1. UNCHANGED <<queue, chat, db, gone>>
    BY <1>12 DEF Refuse, room
  <2>2. call \in Calls /\ call'.op = call.op /\ call'.m = call.m /\ call'.stage = "refused"
    BY <1>0, <1>12, TypeFacts DEF Refuse, NoCall, Calls
  <2> QED
    BY <1>10, <2>1, <2>2 DEF Unfinished, BeingSent
<1>13. CASE ChangeReturn \/ CallError
  <2>1. UNCHANGED <<queue, chat, db, gone>> /\ call' = NoCall
    BY <1>13 DEF ChangeReturn, CallError, room
  <2>2. call.op \in ChatOps => call.stage = "done"
    BY <1>13 DEF ChangeReturn, CallError
  <2> QED
    BY <1>10, <2>1, <2>2 DEF Unfinished, BeingSent, NoCall, ChatOps
<1>14. ~ChangeOffline
  BY DEF ChangeOffline
<1> QED
  BY <1>1, <1>3, <1>4, <1>5, <1>6, <1>7, <1>8, <1>9, <1>11, <1>12, <1>13, <1>14 DEF Next

(* Every step keeps the last wish about a like in view. *)
LEMMA LastLikeKept ==
  ASSUME IInv, LastLike, Next
  PROVE  LastLike'
<1>0. TypeOK
  BY DEF IInv
<1>1. ASSUME NEW e \in MatrixEvents \cup QQEvents(Len(chat)), queue' = Append(queue, e),
             \A m \in Msgs : IF Likes(e, m) THEN e.op = "like" <=> m \in liked'
                            ELSE m \in liked' <=> m \in liked
      PROVE  LastLike'
  <2>1. /\ DOMAIN queue = 1..Len(queue) /\ Len(queue) \in Nat
        /\ DOMAIN queue' = 1..(Len(queue) + 1)
        /\ \A i \in 1..Len(queue) : queue'[i] = queue[i]
        /\ queue'[Len(queue) + 1] = e
    BY <1>0, <1>1, QueueAppend
  <2>2. ASSUME NEW m \in Msgs, NEW i \in DOMAIN queue', Likes(queue'[i], m),
               \A j \in DOMAIN queue' : Likes(queue'[j], m) => j <= i
        PROVE  queue'[i].op = "like" <=> m \in liked'
    <3>1. CASE Likes(e, m)
      <4>1. i = Len(queue) + 1
        BY <2>1, <2>2, <3>1
      <4> QED
        BY <1>1, <2>1, <3>1, <4>1
    <3>2. CASE ~Likes(e, m)
      <4>1. i \in DOMAIN queue /\ queue'[i] = queue[i]
        BY <2>1, <2>2, <3>2
      <4>2. \A j \in DOMAIN queue : Likes(queue[j], m) => j <= i
        BY <2>1, <2>2
      <4> QED
        BY <1>1, <2>2, <3>2, <4>1, <4>2 DEF LastLike
    <3> QED
      BY <3>1, <3>2
  <2> QED
    BY <2>2 DEF LastLike
<1>2. ASSUME NEW kinds, Handling(kinds), queue' = Tail(queue), liked' = liked
      PROVE  LastLike'
  <2>1. /\ DOMAIN queue = 1..Len(queue) /\ Len(queue) \in Nat \ {0}
        /\ DOMAIN queue' = 1..(Len(queue) - 1)
        /\ \A i \in DOMAIN queue' : queue'[i] = queue[i + 1] /\ i + 1 \in DOMAIN queue
        /\ \A i \in DOMAIN queue : i # 1 => i - 1 \in DOMAIN queue' /\ queue[i] = queue'[i - 1]
    BY <1>0, <1>2, QueueTail
  <2>2. ASSUME NEW m \in Msgs, NEW i \in DOMAIN queue', Likes(queue'[i], m),
               \A j \in DOMAIN queue' : Likes(queue'[j], m) => j <= i
        PROVE  queue'[i].op = "like" <=> m \in liked'
    <3>1. \A j \in DOMAIN queue : Likes(queue[j], m) => j <= i + 1
      <4> SUFFICES ASSUME NEW j \in DOMAIN queue, Likes(queue[j], m), j # 1 PROVE j <= i + 1
        BY <2>1
      <4>1. j - 1 \in DOMAIN queue' /\ Likes(queue'[j - 1], m)
        BY <2>1
      <4>2. j - 1 <= i
        BY <2>2, <4>1
      <4> QED
        BY <2>1, <4>2
    <3>2. i + 1 \in DOMAIN queue /\ queue'[i] = queue[i + 1]
      BY <2>1
    <3> QED
      BY <1>2, <2>2, <3>1, <3>2 DEF LastLike
  <2> QED
    BY <2>2 DEF LastLike
<1>3. ASSUME NEW x \in Msgs, Type(x) \/ Redact(x) PROVE LastLike'
  <2>1. PICK e \in MatrixEvents : queue' = Append(queue, e) /\ e.op \in {"send", "remove"}
    BY <1>3 DEF Type, Redact, Ask, MatrixEvents, ChatOps
  <2>2. liked' = liked /\ \A m : ~Likes(e, m)
    BY <1>3, <2>1 DEF Type, Redact, Likes
  <2> QED
    BY <1>1, <2>1, <2>2
<1>4. ASSUME NEW x \in Msgs, React(x) \/ Unreact(x) PROVE LastLike'
  <2>1. PICK op \in {"like", "unlike"} : /\ queue' = Append(queue, [op |-> op, m |-> x])
                                        /\ liked' = IF op = "like" THEN liked \cup {x} ELSE liked \ {x}
    BY <1>4 DEF React, Unreact, Ask
  <2> DEFINE e == [op |-> op, m |-> x]
  <2>2. e \in MatrixEvents /\ e.op = op /\ \A m : Likes(e, m) <=> m = x
    BY DEF MatrixEvents, ChatOps, Likes
  <2>3. \A m \in Msgs : IF Likes(e, m) THEN e.op = "like" <=> m \in liked'
                        ELSE m \in liked' <=> m \in liked
    BY <2>1, <2>2
  <2> HIDE DEF e
  <2> QED
    BY <1>1, <2>1, <2>2, <2>3 DEF e
<1>5. CASE ReadEvent
  <2>1. wire # <<>> /\ queue' = Append(queue, Head(wire)) /\ UNCHANGED liked
    BY <1>5 DEF ReadEvent, room
  <2>2. Head(wire) \in QQEvents(Len(chat))
    BY <1>0, <2>1, WireHead
  <2> QED
    BY <1>1, <2>1, <2>2, EventForms
<1>6. CASE SendFail \/ SendCall \/ ChangeOffline \/ ChangeUnknown \/ ChangeCall \/ RemoteMessage
           \/ RemoteRecall
  <2>1. PICK kinds : Handling(kinds) /\ queue' = Tail(queue)
    BY <1>6 DEF SendFail, SendCall, ChangeOffline, ChangeUnknown, ChangeCall, RemoteMessage, RemoteRecall
  <2>2. liked' = liked
    BY <1>6 DEF SendFail, SendCall, ChangeOffline, ChangeUnknown, ChangeCall, RemoteMessage, RemoteRecall, room
  <2> QED
    BY <1>2, <2>1, <2>2
<1>7. CASE UNCHANGED <<queue, liked>>
  BY <1>7 DEF LastLike
<1> QED
  BY <1>3, <1>4, <1>5, <1>6, <1>7
  DEF Next, CarryOut, CarryOutLate, Refuse, QQMessage, QQRecall, SessionChange, SendReturn,
      ChangeReturn, CallError, room

NoLikes(m) == \A e \in Items(queue) : ~Likes(e, m)

(* One message's reaction, with none waiting: with the call, or in QQ.     *)
LikeOf(m) ==
  /\ Unfinished("like", m) => m \in liked
  /\ Unfinished("unlike", m) => m \notin liked
  /\ BeingSent(m) => m \notin liked
  /\ db[m] # None /\ ~Unfinished("like", m) /\ ~Unfinished("unlike", m) =>
       (chat[ParseMessageID(db[m])].like <=> m \in liked)

NewIsUnliked == call.op = "send" /\ call.stage = "done" => ~chat[call.id].like

(* LikesWait, taken message by message. *)
LEMMA LikesWaitParts == LikesWait <=> NewIsUnliked /\ \A m \in Msgs : NoLikes(m) => LikeOf(m)
BY DEF LikesWait, NewIsUnliked, NoLikes, LikeOf

(* While a send waits for its answer to be kept, nobody likes its message. *)
LEMMA NewIsUnlikedKept ==
  ASSUME IInv, ChangesAreKnown, NewIsUnliked, Next, ~missed'
  PROVE  NewIsUnliked'
<1>0. TypeOK
  BY DEF IInv
<1>1. CASE CarryOut \/ CarryOutLate \/ QQMessage \/ \E id \in QQIds : QQRecall(id)
  <2>1. PICK c : Executed(c) /\ ((CarryOut /\ c = call)
                                 \/ (call' = call /\ (missed \/ c.op \in {"send", "remove"})))
    BY <1>1, ExecutedBy
  <2>2. ~missed
    BY <2>1 DEF Executed
  <2>3. CASE CarryOut /\ c = call
    <3>1. call \in Calls /\ call'.op = call.op /\ (call.op = "send" => call'.id = Len(chat) + 1)
      BY <1>0, <2>3, TypeFacts DEF CarryOut, NoCall, Calls
    <3> QED
      BY <2>1, <2>3, <3>1, ExecutedFacts DEF NewIsUnliked
  <2>4. CASE call' = call /\ c.op \in {"send", "remove"}
    <3>1. \A id \in 1..Len(chat) : chat'[id].like <=> chat[id].like
      BY <2>1, <2>4, ExecutedFacts
    <3>2. call.op = "send" /\ call.stage = "done" => call.id \in 1..Len(chat)
      BY DEF IInv, OwnIds
    <3> QED
      BY <2>4, <3>1, <3>2 DEF NewIsUnliked
  <2> QED
    BY <2>1, <2>2, <2>3, <2>4
<1>2. CASE chat' = chat /\ (call' = call \/ call' = NoCall \/ call'.stage # "done")
  BY <1>2 DEF NewIsUnliked, NoCall
<1>3. CASE Refuse
  <2>1. call \in Calls /\ chat' = chat /\ call'.stage = "refused"
    BY <1>0, <1>3, TypeFacts DEF Refuse, NoCall, Calls
  <2> QED
    BY <1>2, <2>1
<1>4. ASSUME NEW m \in Msgs, Type(m) \/ Redact(m) \/ React(m) \/ Unreact(m)
      PROVE  chat' = chat /\ call' = call
  BY <1>4 DEF Type, Redact, React, Unreact, Ask
<1> QED
  BY <1>1, <1>2, <1>3, <1>4
  DEF Next, SendFail, SendCall, ChangeOffline, ChangeUnknown, ChangeCall, SessionChange, SendReturn,
      ChangeReturn, CallError, ReadEvent, RemoteMessage, RemoteRecall

(* Without a missed answer, no step forgets a like. *)
LEMMA LikesWaitKept ==
  ASSUME IInv, SendsFirst, ChangesAreKnown, LastLike, LikesWait, Next, ~missed'
  PROVE  LikesWait'
<1>0. TypeOK
  BY DEF IInv
<1>a. NewIsUnliked /\ \A m \in Msgs : NoLikes(m) => LikeOf(m)
  BY LikesWaitParts
<1>b. NewIsUnliked'
  BY <1>a, NewIsUnlikedKept
<1> DEFINE Goal == \A m \in Msgs : NoLikes(m)' => LikeOf(m)'
<1>c. SUFFICES Goal
  BY <1>b DEF LikesWait, NewIsUnliked, NoLikes, LikeOf
<1>1. CASE CarryOut \/ CarryOutLate \/ QQMessage \/ \E id \in QQIds : QQRecall(id)
  <2>1. PICK c : Executed(c) /\ ((CarryOut /\ c = call)
                                 \/ (call' = call /\ (missed \/ c.op \in {"send", "remove"})))
    BY <1>1, ExecutedBy
  <2>2. UNCHANGED <<queue, db, liked>> /\ ~missed
    BY <2>1 DEF Executed
  <2>3. SUFFICES ASSUME NEW m \in Msgs, NoLikes(m), LikeOf(m) PROVE LikeOf(m)'
    BY <1>a, <2>2 DEF NoLikes
  <2>4. CASE CarryOut /\ c = call
    <3>1. /\ call \in Calls /\ call.stage = "sent"
          /\ call'.op = call.op /\ call'.m = call.m /\ call'.stage = "done"
      BY <1>0, <2>4, TypeFacts DEF CarryOut, NoCall, Calls
    <3>2. BeingSent(m)' <=> BeingSent(m)
      BY <2>2, <3>1 DEF BeingSent
    <3>3. ~Unfinished("like", m)' /\ ~Unfinished("unlike", m)'
      BY <3>1 DEF Unfinished
    <3>4. ASSUME db[m] # None PROVE chat'[ParseMessageID(db[m])].like <=> m \in liked
      <4>1. ParseMessageID(db[m]) \in 1..Len(chat)
        BY <3>4, IdForms
      <4>2. CASE call.op \in {"like", "unlike"} /\ call.m = m
        <5>1. call.id = ParseMessageID(db[m])
          BY <4>2 DEF ChangesAreKnown, ChatOps
        <5>2. call.op = "like" <=> m \in liked
          BY <2>3, <3>1, <4>2 DEF LikeOf, Unfinished
        <5> QED
          BY <2>1, <2>4, <4>2, <5>1, <5>2, ExecutedFacts
      <4>3. CASE call.op \in {"like", "unlike"} /\ call.m # m
        <5>1. call.m \in Msgs /\ db[call.m] # None /\ call.id = ParseMessageID(db[call.m])
          BY <3>1, <4>3 DEF ChangesAreKnown, ChatOps, Calls
        <5>2. call.id # ParseMessageID(db[m])
          BY <3>4, <4>3, <5>1, IdForms
        <5>3. chat'[ParseMessageID(db[m])].like <=> chat[ParseMessageID(db[m])].like
          BY <2>1, <2>4, <4>1, <5>2, ExecutedFacts
        <5> QED
          BY <2>3, <3>4, <4>3, <5>3 DEF LikeOf, Unfinished
      <4>4. CASE call.op \notin {"like", "unlike"}
        <5>1. chat'[ParseMessageID(db[m])].like <=> chat[ParseMessageID(db[m])].like
          BY <2>1, <2>4, <4>1, <4>4, ExecutedFacts
        <5> QED
          BY <2>3, <3>4, <4>4, <5>1 DEF LikeOf, Unfinished
      <4> QED
        BY <4>2, <4>3, <4>4
    <3> QED
      BY <2>2, <2>3, <3>2, <3>3, <3>4 DEF LikeOf
  <2>5. CASE call' = call /\ c.op \in {"send", "remove"}
    <3>1. db[m] # None => (chat'[ParseMessageID(db[m])].like <=> chat[ParseMessageID(db[m])].like)
      BY <2>1, <2>5, IdForms, ExecutedFacts
    <3> QED
      BY <2>2, <2>3, <2>5, <3>1 DEF LikeOf, Unfinished, BeingSent
  <2> QED
    BY <2>1, <2>2, <2>4, <2>5
<1>2. ASSUME NEW e \in MatrixEvents \cup QQEvents(Len(chat)), queue' = Append(queue, e),
             UNCHANGED <<chat, call, db>>,
             \A m \in Msgs : ~Likes(e, m) => (m \in liked' <=> m \in liked),
             \A m \in Msgs : e = Sending(m) => m \notin liked
      PROVE  Goal
  <2>1. Items(queue') = Items(queue) \cup {e}
    BY <1>0, <1>2, QueueAppend
  <2>2. ASSUME NEW m \in Msgs, NoLikes(m)' PROVE LikeOf(m)'
    <3>1. NoLikes(m) /\ ~Likes(e, m)
      BY <2>1, <2>2 DEF NoLikes
    <3>2. BeingSent(m)' => BeingSent(m) \/ e = Sending(m)
      BY <1>2, <2>1 DEF BeingSent
    <3>3. LikeOf(m)
      BY <1>a, <3>1
    <3>4. /\ Unfinished("like", m)' <=> Unfinished("like", m)
          /\ Unfinished("unlike", m)' <=> Unfinished("unlike", m)
      BY <1>2 DEF Unfinished
    <3>5. (m \in liked' <=> m \in liked) /\ (e = Sending(m) => m \notin liked)
      BY <1>2, <3>1
    <3> QED
      BY <1>2, <3>2, <3>3, <3>4, <3>5 DEF LikeOf
  <2> QED
    BY <2>2
<1>3. ASSUME NEW x \in Msgs, Type(x) PROVE Goal
  <2>1. queue' = Append(queue, Sending(x)) /\ x \notin typed /\ UNCHANGED <<chat, call, db, liked>>
    BY <1>3 DEF Type, Sending
  <2>2. Sending(x) \in MatrixEvents /\ x \notin liked
    BY <1>0, <2>1 DEF Sending, MatrixEvents, TypeOK
  <2>3. \A m : Sending(x) = Sending(m) => m = x
    BY EventForms
  <2> QED
    BY <1>2, <2>1, <2>2, <2>3
<1>4. ASSUME NEW x \in Msgs, Redact(x) PROVE Goal
  <2>1. queue' = Append(queue, Removal(x)) /\ UNCHANGED <<chat, call, db, liked>>
    BY <1>4 DEF Redact, Ask, Removal
  <2>2. Removal(x) \in MatrixEvents /\ \A m : Removal(x) # Sending(m)
    BY DEF Removal, MatrixEvents, ChatOps, Sending
  <2> QED
    BY <1>2, <2>1, <2>2
<1>5. ASSUME NEW x \in Msgs, React(x) \/ Unreact(x) PROVE Goal
  <2>1. PICK op \in {"like", "unlike"} : queue' = Append(queue, [op |-> op, m |-> x])
    BY <1>5 DEF React, Unreact, Ask
  <2>2. UNCHANGED <<chat, call, db>> /\ \A m : m # x => (m \in liked' <=> m \in liked)
    BY <1>5 DEF React, Unreact, Ask
  <2> DEFINE e == [op |-> op, m |-> x]
  <2>3. e \in MatrixEvents /\ (\A m : e # Sending(m)) /\ Likes(e, x)
    BY DEF MatrixEvents, ChatOps, Sending, Likes
  <2> HIDE DEF e
  <2> QED
    BY <1>2, <2>1, <2>2, <2>3 DEF e
<1>6. CASE ReadEvent
  <2>1. wire # <<>> /\ queue' = Append(queue, Head(wire)) /\ UNCHANGED <<chat, call, db, liked>>
    BY <1>6 DEF ReadEvent, room
  <2>2. Head(wire) \in QQEvents(Len(chat))
    BY <1>0, <2>1, WireHead
  <2> QED
    BY <1>2, <2>1, <2>2, EventForms
<1>7. CASE SendFail \/ SendCall \/ RemoteMessage \/ RemoteRecall
  <2>1. PICK kinds \in {{"send"}, {"message"}, {"recall"}} : Handling(kinds) /\ queue' = Tail(queue)
    BY <1>7 DEF SendFail, SendCall, RemoteMessage, RemoteRecall
  <2>2. UNCHANGED <<chat, db, liked>>
    BY <1>7 DEF SendFail, SendCall, RemoteMessage, RemoteRecall, room
  <2>3. Items(queue) = Items(queue') \cup {Event}
    BY <1>0, <2>1, QueueTail
  <2>4. \A m : ~Likes(Event, m)
    BY <2>1 DEF Handling, Likes
  <2>5. call = NoCall
    BY <2>1 DEF Handling
  <2>6. \A m : ~Unfinished("like", m) /\ ~Unfinished("unlike", m)
    BY <2>5 DEF Unfinished, NoCall
  <2>7. call' = call \/ (Event = Sending(call'.m) /\ call'.op = "send")
    <3>1. CASE SendCall
      <4>1. Event \in MatrixEvents /\ Event.op = "send"
        BY <1>0, <2>1, <3>1, HandleFacts DEF SendCall, Handling
      <4> QED
        BY <3>1, <4>1, EventForms DEF SendCall
    <3> QED
      BY <1>7, <3>1 DEF SendFail, RemoteMessage, RemoteRecall
  <2>8. \A m : BeingSent(m)' => BeingSent(m)
    BY <2>3, <2>7 DEF BeingSent
  <2>9. \A m : ~Unfinished("like", m)' /\ ~Unfinished("unlike", m)'
    BY <2>6, <2>7 DEF Unfinished
  <2> QED
    BY <1>a, <2>2, <2>3, <2>4, <2>6, <2>8, <2>9 DEF LikeOf, NoLikes
<1>8. CASE ChangeUnknown \/ ChangeCall
  <2>1. Handling(ChatOps) /\ queue' = Tail(queue) /\ UNCHANGED <<chat, db, liked>>
    BY <1>8 DEF ChangeUnknown, ChangeCall, room
  <2>2. Items(queue) = Items(queue') \cup {Event}
    BY <1>0, <2>1, QueueTail
  <2>3. Event \in MatrixEvents /\ Event.m \in Msgs /\ About(Event, Event.m) /\ Event.op \in ChatOps
    BY <1>0, <2>1, HandleFacts DEF Handling, About
  <2>4. Sending(Event.m) \notin Items(queue')
    BY <1>0, <2>1, <2>3, SentAlready
  <2>5. call = NoCall /\ call.op \notin ChatOps /\ call.op # "send"
    BY <2>1 DEF Handling, NoCall, ChatOps
  <2>6. call'.op # "send"
    BY <1>8, <2>3, <2>5 DEF ChangeUnknown, ChangeCall, ChatOps
  <2>7. ASSUME NEW m \in Msgs, NoLikes(m)' PROVE LikeOf(m)'
    <3>1. BeingSent(m)' => BeingSent(m) /\ m # Event.m
      BY <2>2, <2>4, <2>6 DEF BeingSent
    <3>2. ~Unfinished("like", m) /\ ~Unfinished("unlike", m)
      BY <2>5 DEF Unfinished, ChatOps
    <3>3. CASE ~Likes(Event, m)
      <4>1. LikeOf(m)
        BY <1>a, <2>2, <2>7, <3>3 DEF NoLikes
      <4>2. ~Unfinished("like", m)' /\ ~Unfinished("unlike", m)'
        BY <1>8, <2>5, <3>3 DEF ChangeUnknown, ChangeCall, Unfinished, Likes, ChatOps
      <4> QED
        BY <2>1, <3>1, <3>2, <4>1, <4>2 DEF LikeOf
    <3>4. CASE Likes(Event, m)
      <4>1. m = Event.m /\ Event.op \in {"like", "unlike"}
        BY <3>4 DEF Likes
      <4>2. CASE ChangeUnknown
        <5>1. db[m] = None /\ call' = call
          BY <4>1, <4>2 DEF ChangeUnknown
        <5>2. ~Unfinished("like", m)' /\ ~Unfinished("unlike", m)'
          BY <3>2, <5>1 DEF Unfinished
        <5> QED
          BY <2>1, <3>1, <4>1, <5>1, <5>2 DEF LikeOf
      <4>3. CASE ChangeCall
        <5>1. Event.op = "like" <=> m \in liked
          <6>1. Event = queue[1] /\ 1 \in DOMAIN queue
            BY <1>0, <2>1, QueueTail
          <6>2. \A j \in DOMAIN queue : Likes(queue[j], m) => j <= 1
            <7> SUFFICES ASSUME NEW j \in DOMAIN queue, Likes(queue[j], m), j # 1 PROVE FALSE
              BY <1>0, <2>1, QueueTail
            <7>1. queue[j] \in Items(queue')
              BY <1>0, <2>1, QueueTail DEF Items
            <7> QED
              BY <2>7, <7>1 DEF NoLikes
          <6> QED
            BY <3>4, <6>1, <6>2 DEF LastLike
        <5>2. call'.op = Event.op /\ call'.m = m /\ call'.stage # "done"
          BY <4>1, <4>3 DEF ChangeCall
        <5>3. Unfinished("like", m)' <=> m \in liked
          BY <4>1, <5>1, <5>2 DEF Unfinished
        <5>4. Unfinished("unlike", m)' <=> m \notin liked
          BY <4>1, <5>1, <5>2 DEF Unfinished
        <5> QED
          BY <2>1, <3>1, <4>1, <5>3, <5>4 DEF LikeOf
      <4> QED
        BY <1>8, <4>2, <4>3
    <3> QED
      BY <3>3, <3>4
  <2> QED
    BY <2>7
<1>9. CASE SendReturn
  <2>1. /\ call.op = "send" /\ call.stage = "done" /\ UNCHANGED <<queue, chat, liked>>
        /\ call' = NoCall
        /\ \A m \in Msgs : m # call.m => db'[m] = db[m]
        /\ \A m \in Msgs : m = call.m => db'[m] = MakeMessageID(call.id)
    BY <1>0, <1>9 DEF SendReturn, room, TypeOK
  <2>2. ASSUME NEW m \in Msgs, NoLikes(m)' PROVE LikeOf(m)'
    <3>1. BeingSent(m)' => BeingSent(m)
      BY <2>1 DEF BeingSent, NoCall
    <3>2. /\ ~Unfinished("like", m) /\ ~Unfinished("unlike", m)
          /\ ~Unfinished("like", m)' /\ ~Unfinished("unlike", m)'
      BY <2>1 DEF Unfinished, NoCall
    <3>3. LikeOf(m)
      BY <1>a, <2>1, <2>2 DEF NoLikes
    <3>4. CASE m = call.m
      <4>1. m \notin liked
        BY <2>1, <3>3, <3>4 DEF LikeOf, BeingSent
      <4>2. ~chat[ParseMessageID(db'[m])].like
        BY <1>a, <2>1, <3>4, IdForms DEF NewIsUnliked
      <4> QED
        BY <2>1, <3>2, <4>1, <4>2 DEF LikeOf
    <3>5. CASE m # call.m
      BY <2>1, <3>1, <3>2, <3>3, <3>5 DEF LikeOf
    <3> QED
      BY <3>4, <3>5
  <2> QED
    BY <2>2
<1>10. ASSUME UNCHANGED <<queue, chat, db, liked>>,
              \A m : Unfinished("like", m)' <=> Unfinished("like", m),
              \A m : Unfinished("unlike", m)' <=> Unfinished("unlike", m),
              \A m : BeingSent(m)' => BeingSent(m)
       PROVE  Goal
  BY <1>10, <1>a DEF LikeOf, NoLikes
<1>11. CASE SessionChange
  <2>1. UNCHANGED <<queue, chat, db, liked, call>>
    BY <1>11 DEF SessionChange, room
  <2> QED
    BY <1>10, <2>1 DEF Unfinished, BeingSent
<1>12. CASE Refuse
  <2>1. UNCHANGED <<queue, chat, db, liked>>
    BY <1>12 DEF Refuse, room
  <2>2. call \in Calls /\ call'.op = call.op /\ call'.m = call.m /\ call'.stage = "refused"
        /\ call.stage = "sent"
    BY <1>0, <1>12, TypeFacts DEF Refuse, NoCall, Calls
  <2> QED
    BY <1>10, <2>1, <2>2 DEF Unfinished, BeingSent
<1>13. CASE ChangeReturn \/ CallError
  <2>1. UNCHANGED <<queue, chat, db, liked>> /\ call' = NoCall
    BY <1>13 DEF ChangeReturn, CallError, room
  <2>2. call.op \in ChatOps => call.stage = "done"
    BY <1>13 DEF ChangeReturn, CallError
  <2> QED
    BY <1>10, <2>1, <2>2 DEF Unfinished, BeingSent, NoCall, ChatOps
<1>14. ~ChangeOffline
  BY DEF ChangeOffline
<1> QED
  BY <1>1, <1>3, <1>4, <1>5, <1>6, <1>7, <1>8, <1>9, <1>11, <1>12, <1>13, <1>14 DEF Next

-----------------------------------------------------------------------------

(* Nothing is under way at the start. *)
LEMMA InitSync == Init => Sync
<1> SUFFICES ASSUME Init PROVE Sync
  OBVIOUS
<1>1. /\ queue = <<>> /\ wire = <<>> /\ chat = <<>> /\ call = NoCall /\ late = {} /\ gone = {}
      /\ recalled = {} /\ \A m \in Msgs : db[m] = None
  BY DEF Init
<1>2. /\ Items(queue) = {} /\ DOMAIN queue = {} /\ DOMAIN wire = {} /\ 1..Len(chat) = {}
      /\ \A m \in Msgs : call.m # m
      /\ call.op = "none"
  <2>1. DOMAIN queue = {} /\ DOMAIN wire = {} /\ 1..Len(chat) = {}
    BY <1>1
  <2>2. Items(queue) = {}
    BY <2>1 DEF Items
  <2>3. call.m = None /\ call.op = "none"
    BY <1>1 DEF NoCall
  <2> QED
    BY <2>1, <2>2, <2>3, MatrixPortalAssumption
<1>3. SendsFirst /\ ChangesAreKnown
  BY <1>1, <1>2 DEF SendsFirst, ChangesAreKnown, ChatOps
<1>4. RecallsAreTrue /\ AllReported /\ RemovalsWait /\ LastLike
  BY <1>1, <1>2 DEF RecallsAreTrue, AllReported, RemovalsWait, LastLike
<1>5. LikesWait
  BY <1>1, <1>2 DEF LikesWait, Unfinished, BeingSent
<1> QED
  BY <1>3, <1>4, <1>5 DEF Sync

(* Every step keeps account of what has yet to reach the other side. *)
LEMMA NextSync == IInv /\ Sync /\ [Next]_vars => Sync'
<1> SUFFICES ASSUME IInv, Sync, [Next]_vars PROVE Sync'
  OBVIOUS
<1>1. CASE UNCHANGED vars
  BY <1>1 DEF vars, Sync, SendsFirst, ChangesAreKnown, RecallsAreTrue, AllReported, RemovalsWait,
     LastLike, LikesWait, Unfinished, BeingSent, Known
<1>2. CASE Next
  <2>1. (lossy => lossy') /\ (missed => missed')
    <3>1. ASSUME NEW m \in Msgs, Type(m) \/ Redact(m) \/ React(m) \/ Unreact(m)
          PROVE  UNCHANGED <<lossy, missed>>
      BY <3>1 DEF Type, Redact, React, Unreact, Ask, history
    <3>2. ASSUME SendFail \/ SendCall \/ ChangeUnknown \/ ChangeCall \/ CarryOut \/ CarryOutLate
               \/ Refuse \/ QQMessage \/ (\E id \in QQIds : QQRecall(id)) \/ SendReturn
               \/ ChangeReturn \/ ReadEvent \/ RemoteMessage \/ RemoteRecall
          PROVE UNCHANGED <<lossy, missed>>
      BY <3>2 DEF SendFail, SendCall, ChangeUnknown, ChangeCall, CarryOut, CarryOutLate, Refuse,
         QQMessage, QQRecall, SendReturn, ChangeReturn, ReadEvent, RemoteMessage, RemoteRecall,
         history
    <3>3. CASE ChangeOffline \/ CallError \/ SessionChange
      <4>1. CASE ChangeOffline
        BY <4>1 DEF ChangeOffline
      <4>2. CASE CallError
        <5>1. missed' = (missed \/ call.op \in ChatOps) /\ lossy' = lossy
          BY <4>2 DEF CallError
        <5> QED
          BY <5>1, Zenon
      <4>3. CASE SessionChange
        BY <4>3, Zenon DEF SessionChange
      <4> QED
        BY <3>3, <4>1, <4>2, <4>3
    <3> QED
      BY <1>2, <3>1, <3>2, <3>3 DEF Next
  <2>2. SendsFirst' /\ ChangesAreKnown' /\ RecallsAreTrue' /\ LastLike'
    BY <1>2, SendsFirstKept, ChangesAreKnownKept, RecallsAreTrueKept, LastLikeKept DEF Sync
  <2>3. ~lossy' => AllReported'
    BY <1>2, <2>1, AllReportedKept DEF Sync
  <2>4. ~missed' => RemovalsWait'
    BY <1>2, <2>1, RemovalsWaitKept DEF Sync
  <2>5. ~missed' => LikesWait'
    BY <1>2, <2>1, LikesWaitKept DEF Sync
  <2> QED
    BY <2>2, <2>3, <2>4, <2>5 DEF Sync
<1> QED
  BY <1>1, <1>2

(* In every state room and chat differ only by what is under way or was lost. *)
THEOREM SyncInvariance == Spec => [](IInv /\ Sync)
BY InitIInv, NextIInv, InitSync, NextSync, PTL DEF Spec

(* Once nothing is under way, with no loss and no failed removal, the room *)
(* shows just the messages that are in the QQ chat.                        *)
THEOREM RoomInStep == Spec => []InStep
<1>1. ASSUME IInv, Sync, Settled, ~missed
      PROVE  ParsedIDs(Shown \ recalled) = {id \in DOMAIN chat : chat[id].there}
  <2>1. /\ Items(queue) = {} /\ Items(wire) = {} /\ call = NoCall /\ AllReported
        /\ RemovalsWait /\ RecallsAreTrue /\ DOMAIN chat = 1..Len(chat)
    BY <1>1, TypeFacts DEF Settled, Items, Sync, IInv
  <2>2. ASSUME NEW id \in DOMAIN chat, chat[id].there
        PROVE  id \in ParsedIDs(Shown \ recalled)
    <3>1. MakeMessageID(id) \in Known /\ MakeMessageID(id) \notin recalled
      BY <2>1, <2>2 DEF AllReported, RecallsAreTrue
    <3>2. MakeMessageID(id) \in Shown
      <4>1. CASE MakeMessageID(id) \in copies
        BY <4>1 DEF Shown
      <4>2. ASSUME NEW m \in Msgs, db[m] # None, db[m] = MakeMessageID(id)
            PROVE  MakeMessageID(id) \in Shown
        <5>1. ParseMessageID(db[m]) = id
          BY <1>1, <4>2, IdForms
        <5>2. ~Unfinished("remove", m)
          BY <2>1 DEF Unfinished, NoCall
        <5>3. m \notin gone
          BY <2>1, <2>2, <4>2, <5>1, <5>2 DEF RemovalsWait
        <5> QED
          BY <4>2, <5>3 DEF Shown, Kept
      <4> QED
        BY <3>1, <4>1, <4>2 DEF Known
    <3>3. id = ParseMessageID(MakeMessageID(id))
      BY <1>1, IdForms
    <3> QED
      BY <3>1, <3>2, <3>3 DEF ParsedIDs
  <2>3. ASSUME NEW mid \in Shown \ recalled
        PROVE  ParseMessageID(mid) \in DOMAIN chat /\ chat[ParseMessageID(mid)].there
    <3>1. mid \in {Chat} \X (1..Len(chat))
      BY <1>1, <2>3 DEF IInv, OwnIds, Shown, Kept
    <3>2. PICK id \in 1..Len(chat) : mid = MakeMessageID(id)
      BY <3>1 DEF MakeMessageID
    <3>3. ParseMessageID(mid) = id
      BY <1>1, <3>2, IdForms
    <3>4. chat[id].there
      BY <2>1, <2>3, <3>2 DEF AllReported
    <3> QED
      BY <2>1, <3>3, <3>4
  <2> QED
    BY <2>2, <2>3 DEF ParsedIDs
<1>2. IInv /\ Sync => InStep
  BY <1>1 DEF InStep
<1> QED
  BY <1>2, SyncInvariance, PTL

(* ... and QQ has the bridge's like on just the messages with a reaction.  *)
THEOREM ReactionsInStep == Spec => []LikesInStep
<1>1. ASSUME IInv, Sync, Settled, ~missed, NEW m \in Msgs, NEW id \in ParsedIDs(Kept(m))
      PROVE  chat[id].like <=> m \in liked
  <2>1. db[m] # None /\ id = ParseMessageID(db[m])
    BY <1>1 DEF ParsedIDs, Kept
  <2>2. Items(queue) = {} /\ LikesWait
    BY <1>1 DEF Settled, Items, Sync
  <2>3. ~Unfinished("like", m) /\ ~Unfinished("unlike", m)
    BY <1>1 DEF Settled, Unfinished, NoCall
  <2> QED
    BY <2>1, <2>2, <2>3 DEF LikesWait
<1>2. IInv /\ Sync => LikesInStep
  BY <1>1 DEF LikesInStep
<1> QED
  BY <1>2, SyncInvariance, PTL
=============================================================================
