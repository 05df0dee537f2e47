---------------------------- MODULE Backfill_proof ----------------------------
(***************************************************************************)
(* Theorems about Backfill, for a chat of any length, any messages without *)
(* an id and pages of any size: types, one id per message, and that the    *)
(* history is complete when the backfill is over.                          *)
(***************************************************************************)
EXTENDS Backfill, FiniteSetTheorems, WellFoundedInduction, TLAPS

-----------------------------------------------------------------------------
(* The inductive invariant, in named parts. *)

(* The room has messages of the chat only, under their message_id.         *)
RoomIsOfChat == \A mid \in room : \E i \in 1..newest : mid = MakeMessageID(i)

(* Until the backfill starts, nothing of the history is in the room.       *)
NothingBefore ==
  phase = "idle" =>
    /\ cursor = NoId /\ anchor = NoAnchor
    /\ \A mid \in room : \E i \in (Before + 1)..newest : mid = MakeMessageID(i)

(* So the anchor is a message that has come since.                         *)
AnchorIsNew == anchor = NoAnchor \/ \E i \in (Before + 1)..newest : anchor = MakeMessageID(i)

(* From the cursor on the history is there, but for what has no id.        *)
Covered(i) == Bridged(i) \/ i \in nameless

CursorCovers ==
  /\ cursor \in 0..newest
  /\ cursor # NoId => \A i \in cursor..Before : Covered(i)

(* The call goes on from there, for a page of two or more.                 *)
AskedIsNext ==
  phase = "asked" => asked.count \in Nat \ {0, 1} /\ asked.seq = MessageSeq

IInv ==
  /\ TypeOK
  /\ RoomIsOfChat
  /\ NothingBefore
  /\ AnchorIsNew
  /\ CursorCovers
  /\ AskedIsNext
  /\ HistoryIsComplete

-----------------------------------------------------------------------------
(* Pages. *)

(* A set of numbers that is not empty has a least one. *)
LEMMA NatMin == ASSUME NEW T \in SUBSET Nat, T # {} PROVE \E x \in T : \A y \in T : x <= y
<1> DEFINE R == {ss \in Nat \X Nat : ss[1] < ss[2]}
<1>1. R = OpToRel(<, Nat)
  BY DEF OpToRel
<1>2. IsWellFoundedOn(R, Nat)
  BY <1>1, NatLessThanWellFounded
<1> HIDE DEF R
<1>3. PICK x \in T : \A y \in T : ~ (<<y, x>> \in R)
  BY <1>2, WFMin
<1>4. \A y \in T : ~(y < x)
  BY <1>3 DEF R
<1> QED
  BY <1>4

(* A message's number can be read back from its id. *)
LEMMA IDFacts ==
  /\ \A i, j : MakeMessageID(i) = MakeMessageID(j) => i = j
  /\ \A i : ParseMessageID(MakeMessageID(i)) = i
BY DEF MakeMessageID, ParseMessageID

(* Every message has one id, its message_id, or none. *)
LEMMA DetailFacts ==
  ASSUME NEW i \in Nat \ {0}
  PROVE  /\ Detail(i).time = i
         /\ i \notin nameless => BestMessageID(Detail(i)) = i /\ BestMessageSeq(Detail(i)) = i
         /\ i \in nameless => BestMessageID(Detail(i)) = NoId /\ BestMessageSeq(Detail(i)) = NoId
BY DEF Detail, BestMessageID, BestMessageSeq, NoId

(* A page is full, or it begins with the first message of the chat.        *)
LEMMA PageFacts ==
  ASSUME NEW upTo \in Nat, asked.count \in Nat \ {0}
  PROVE  \E first \in 1..(upTo + 1) :
           /\ DOMAIN Page(upTo) = 1..(upTo + 1 - first)
           /\ Len(Page(upTo)) = upTo + 1 - first
           /\ \A k \in 1..(upTo + 1 - first) : Page(upTo)[k] = Detail(first + k - 1)
           /\ first > 1 => upTo + 1 - first = asked.count
           /\ upTo + 1 - first <= asked.count
<1> DEFINE first == IF upTo > asked.count THEN upTo - asked.count + 1 ELSE 1
           n == upTo + 1 - first
<1>1. first \in 1..(upTo + 1) /\ n \in Nat /\ (first > 1 => n = asked.count)
      /\ n <= asked.count
  OBVIOUS
<1>2. Page(upTo) = [k \in 1..n |-> Detail(first + k - 1)]
  BY DEF Page
<1> HIDE DEF first, n
<1>3. DOMAIN Page(upTo) = 1..n /\ \A k \in 1..n : Page(upTo)[k] = Detail(first + k - 1)
  BY <1>2
<1>4. PICK S : \A k \in 1..n : Detail(first + k - 1) \in S
  <2> DEFINE T == {Detail(first + k - 1) : k \in 1..n}
  <2>1. \A k \in 1..n : Detail(first + k - 1) \in T
    OBVIOUS
  <2> QED
    BY <2>1
<1>5. Len(Page(upTo)) = n
  <2>1. Page(upTo) \in [1..n -> S]
    BY <1>2, <1>4
  <2>2. Page(upTo) \in Seq(S)
    BY <1>1, <2>1
  <2> QED
    BY <1>1, <1>3, <2>2
<1> QED
  BY <1>1, <1>3, <1>5 DEF n

(* An answer has the messages from first to upTo, in either order; sorted  *)
(* it begins with the first.                                               *)
LEMMA AnswerFacts ==
  ASSUME NEW details \in Answers, asked.count \in Nat \ {0}, asked.seq \in Nat, newest \in Nat
  PROVE  \E upTo \in Latest, first \in Nat \ {0} :
           /\ upTo \in Nat /\ first <= upTo + 1
           /\ Elements(details) = {Detail(i) : i \in first..upTo}
           /\ first > 1 => upTo + 1 - first = asked.count
           /\ upTo + 1 - first <= asked.count
           /\ details = <<>> <=> upTo < first
           /\ first <= upTo => SortByTime(details)[1] = Detail(first)
<1>1. PICK upTo \in Latest :
        \/ details = Page(upTo)
        \/ details = [k \in DOMAIN Page(upTo) |-> Page(upTo)[Len(Page(upTo)) + 1 - k]]
  BY DEF Answers
<1>2. CASE upTo \notin Nat
  <2>1. asked.seq = 0 \/ asked.seq # 0
    OBVIOUS
  <2> QED
    BY <1>2, <2>1 DEF Latest, NoId
<1>3. CASE upTo \in Nat
  <2>1. PICK first \in 1..(upTo + 1) :
          /\ DOMAIN Page(upTo) = 1..(upTo + 1 - first)
          /\ Len(Page(upTo)) = upTo + 1 - first
          /\ \A k \in 1..(upTo + 1 - first) : Page(upTo)[k] = Detail(first + k - 1)
          /\ first > 1 => upTo + 1 - first = asked.count
          /\ upTo + 1 - first <= asked.count
    BY <1>3, PageFacts
  <2> DEFINE n == upTo + 1 - first
             p == Page(upTo)
             E == {Detail(i) : i \in first..upTo}
  <2>2. n \in Nat /\ DOMAIN p = 1..n /\ Len(p) = n /\ \A k \in 1..n : p[k] = Detail(first + k - 1)
    BY <1>3, <2>1
  <2>3. /\ \A k \in 1..n : first + k - 1 \in first..upTo
        /\ \A i \in first..upTo : i + 1 - first \in 1..n /\ first + (i + 1 - first) - 1 = i
    BY <1>3
  <2> HIDE DEF n
  <2>4. Elements(p) = E
    BY <2>2, <2>3 DEF Elements
  <2>5. DOMAIN details = 1..n /\ Elements(details) = E
    <3>1. CASE details = p
      BY <2>2, <2>4, <3>1
    <3>2. CASE details = [k \in DOMAIN p |-> p[Len(p) + 1 - k]]
      <4>1. /\ DOMAIN details = 1..n
            /\ \A k \in 1..n : details[k] = p[n + 1 - k] /\ n + 1 - k \in 1..n
            /\ \A k \in 1..n : n + 1 - k \in 1..n /\ n + 1 - (n + 1 - k) = k
        BY <2>2, <3>2
      <4>2. Elements(details) = Elements(p)
        <5>1. \A k \in 1..n : details[k] \in Elements(p)
          BY <2>2, <4>1 DEF Elements
        <5>2. \A k \in 1..n : details[n + 1 - k] = p[k]
          BY <4>1
        <5>3. \A k \in 1..n : p[k] \in Elements(details)
          BY <4>1, <5>2 DEF Elements
        <5> QED
          BY <2>2, <4>1, <5>1, <5>3 DEF Elements
      <4> QED
        BY <2>4, <4>1, <4>2
    <3> QED
      BY <1>1, <3>1, <3>2
  <2>6. details = <<>> <=> upTo < first
    <3>1. CASE n = 0
      <4>1. DOMAIN details = {}
        BY <2>5, <3>1
      <4>2. details = <<>>
        BY <1>1, <2>2, <3>1, <4>1
      <4> QED
        BY <1>3, <3>1, <4>2 DEF n
    <3>2. CASE n # 0
      <4>1. 1 \in DOMAIN details /\ DOMAIN <<>> = {}
        BY <2>2, <2>5, <3>2
      <4> QED
        BY <1>3, <2>2, <3>2, <4>1 DEF n
    <3> QED
      BY <3>1, <3>2
  <2>7. ASSUME first <= upTo PROVE SortByTime(details)[1] = Detail(first)
    <3> DEFINE Sorted(s) == /\ Elements(s) = Elements(details)
                            /\ \A j, k \in DOMAIN s : j < k => s[j].time < s[k].time
               s == SortByTime(details)
    <3>1. p \in [DOMAIN details -> Elements(details)]
      <4>1. p = [k \in 1..n |-> p[k]]
        BY <2>2 DEF Page, n
      <4>2. \A k \in 1..n : p[k] \in Elements(p)
        BY <2>2 DEF Elements
      <4> QED
        BY <2>4, <2>5, <4>1, <4>2
    <3>2. Sorted(p)
      <4>1. \A k \in 1..n : p[k].time = first + k - 1
        BY <2>2, DetailFacts
      <4> QED
        BY <2>2, <2>4, <2>5, <4>1
    <3>3. s \in [DOMAIN details -> Elements(details)] /\ Sorted(s)
      BY <3>1, <3>2 DEF SortByTime
    <3> HIDE DEF s
    <3>4. DOMAIN s = 1..n /\ 1 \in 1..n
      BY <1>3, <2>5, <2>7, <3>3 DEF n
    <3>5. PICK k \in 1..n : s[k] = Detail(first)
      <4>1. Detail(first) \in Elements(s)
        BY <1>3, <2>5, <2>7, <3>3
      <4> QED
        BY <3>4, <4>1 DEF Elements
    <3>6. PICK i \in first..upTo : s[1] = Detail(i)
      BY <2>5, <3>3, <3>4
    <3>7. s[k].time = first /\ s[1].time = i /\ first <= i
      BY <1>3, <3>5, <3>6, DetailFacts
    <3>8. k = 1
      <4>1. 1 < k => s[1].time < s[k].time
        BY <3>3, <3>4
      <4> QED
        BY <2>2, <3>7, <4>1
    <3> QED
      BY <3>5, <3>8 DEF s
  <2>8. first \in Nat \ {0} /\ first <= upTo + 1
    BY <1>3
  <2> QED
    BY <1>1, <1>3, <2>1, <2>5, <2>6, <2>7, <2>8
<1> QED
  BY <1>2, <1>3

(* The messages of a page are as many as their numbers. *)
LEMMA PageSizes ==
  ASSUME NEW first \in Nat \ {0}, NEW upTo \in Nat, first <= upTo + 1
  PROVE  /\ IsFiniteSet({Detail(i) : i \in first..upTo})
         /\ Cardinality({Detail(i) : i \in first..upTo}) = upTo + 1 - first
<1> DEFINE E == {Detail(i) : i \in first..upTo}
           f == [i \in first..upTo |-> Detail(i)]
<1>1. f \in Bijection(first..upTo, E)
  <2>1. f \in [first..upTo -> E] /\ \A d \in E : \E i \in first..upTo : f[i] = d
    OBVIOUS
  <2>2. \A i, j \in first..upTo : f[i] = f[j] => i = j
    BY DetailFacts
  <2> QED
    BY <2>1, <2>2 DEF Bijection, Injection, Surjection, IsInjective
<1>2. IsFiniteSet(first..upTo) /\ Cardinality(first..upTo) = upTo + 1 - first
  <2>1. /\ IsFiniteSet(first..upTo)
        /\ Cardinality(first..upTo) = IF first > upTo THEN 0 ELSE upTo - first + 1
    BY FS_Interval
  <2> QED
    BY <2>1
<1>3. IsFiniteSet(E) /\ Cardinality(E) = Cardinality(first..upTo)
  <2> HIDE DEF f, E
  <2> QED
    BY <1>1, <1>2, FS_Bijection DEF ExistsBijection
<1> QED
  BY <1>2, <1>3

(* A page that is full of messages has one without an id, or as many       *)
(* messages as were asked for.                                             *)
LEMMA ShortPage ==
  ASSUME NEW details, NEW first \in Nat \ {0}, NEW upTo \in Nat, first <= upTo + 1,
         Elements(details) = {Detail(i) : i \in first..upTo},
         upTo + 1 - first = asked.count, ~HasMore(HistoryToBackfill(details))
  PROVE  \E i \in first..upTo : i \in nameless
<1> SUFFICES ASSUME \A i \in first..upTo : i \notin nameless
             PROVE  Cardinality(HistoryToBackfill(details)) = asked.count
  <2>1. asked.count \in Nat
    OBVIOUS
  <2> QED
    BY <2>1 DEF HasMore
<1>1. \A i \in first..upTo : BestMessageID(Detail(i)) # NoId
  BY DetailFacts DEF NoId
<1>2. HistoryToBackfill(details) = {Detail(i) : i \in first..upTo}
  BY <1>1 DEF HistoryToBackfill
<1> QED
  BY <1>2, PageSizes

(* A page that is not the last one is full, of messages with ids.          *)
LEMMA FullPage ==
  ASSUME NEW details, NEW first \in Nat \ {0}, NEW upTo \in Nat, first <= upTo + 1,
         Elements(details) = {Detail(i) : i \in first..upTo},
         asked.count \in Nat, upTo + 1 - first <= asked.count,
         HasMore(HistoryToBackfill(details))
  PROVE  upTo + 1 - first = asked.count /\ \A i \in first..upTo : i \notin nameless
<1> DEFINE E == {Detail(i) : i \in first..upTo}
           messages == HistoryToBackfill(details)
<1>1. IsFiniteSet(E) /\ Cardinality(E) = upTo + 1 - first
  BY PageSizes
<1>2. messages \in SUBSET E /\ \A d \in messages : BestMessageID(d) # NoId
  BY DEF HistoryToBackfill
<1>3. Cardinality(messages) >= asked.count
  BY DEF HasMore
<1>4. /\ Cardinality(messages) \in Nat /\ Cardinality(messages) <= Cardinality(E)
      /\ Cardinality(E) = Cardinality(messages) => E = messages
  <2> HIDE DEF E, messages
  <2> QED
    BY <1>1, <1>2, FS_Subset, FS_CardinalityType
<1>5. upTo + 1 - first = asked.count /\ E = messages
  BY <1>1, <1>3, <1>4
<1>6. ASSUME NEW i \in first..upTo PROVE i \notin nameless
  BY <1>2, <1>5, DetailFacts
<1> QED
  BY <1>5, <1>6

-----------------------------------------------------------------------------
(* The theorems. *)

(* A chat of which the room has nothing yet. *)
THEOREM InitIInv == Init => IInv
<1> SUFFICES ASSUME Init PROVE IInv
  OBVIOUS
<1>1. TypeOK
  BY BackfillAssumption DEF Init, TypeOK, NoCall, NoId
<1>2. RoomIsOfChat /\ NothingBefore /\ AnchorIsNew /\ AskedIsNext /\ HistoryIsComplete
  BY DEF Init, RoomIsOfChat, NothingBefore, AnchorIsNew, AskedIsNext, HistoryIsComplete
<1>3. CursorCovers
  BY BackfillAssumption DEF Init, CursorCovers, NoId
<1> QED
  BY <1>1, <1>2, <1>3 DEF IInv

(* What is in the room stays there, so what it covers it goes on covering. *)
LEMMA RoomGrows ==
  ASSUME room \subseteq room', nameless' = nameless
  PROVE  /\ \A i : Covered(i) => Covered(i)'
         /\ HistoryIsComplete /\ phase' = phase => HistoryIsComplete'
BY DEF Covered, Bridged, HistoryIsComplete, MakeMessageID

(* The page under way goes up to where the room has everything. *)
LEMMA PageJoins ==
  ASSUME IInv, phase = "asked", NEW upTo \in Latest
  PROVE  upTo \in 0..newest /\ \A i \in (upTo + 1)..Before : Covered(i)
<1>1. asked.seq = MessageSeq /\ newest \in Nat /\ Before \in Nat /\ Before <= newest
      /\ cursor \in 0..newest
  BY BackfillAssumption DEF IInv, AskedIsNext, TypeOK, CursorCovers
<1>2. CASE cursor # NoId
  <2>1. upTo \in {cursor - 1, cursor} /\ cursor # 0
    BY <1>1, <1>2 DEF Latest, MessageSeq, NoId
  <2>2. \A i \in cursor..Before : Covered(i)
    BY <1>2 DEF IInv, CursorCovers
  <2> QED
    BY <1>1, <2>1, <2>2
<1>3. CASE cursor = NoId
  <2>1. asked.seq = ParseMessageID(anchor)
    BY <1>1, <1>3 DEF MessageSeq
  <2>2. CASE anchor = NoAnchor
    <3>1. asked.seq = NoId
      BY <2>1, <2>2, IDFacts DEF NoAnchor
    <3>2. upTo = newest
      BY <3>1 DEF Latest
    <3> QED
      BY <1>1, <3>2
  <2>3. CASE anchor # NoAnchor
    <3>1. PICK i \in (Before + 1)..newest : anchor = MakeMessageID(i)
      BY <2>3 DEF IInv, AnchorIsNew
    <3>2. upTo \in {i - 1, i}
      BY <1>1, <2>1, <3>1, IDFacts DEF Latest, NoId
    <3> QED
      BY <1>1, <3>2
  <2> QED
    BY <2>2, <2>3
<1> QED
  BY <1>2, <1>3

(* A page comes, and is added to the room. *)
LEMMA FetchDoneKeeps ==
  ASSUME IInv, NEW details \in Answers, FetchDone(details)
  PROVE  IInv'
<1>0. /\ phase = "asked" /\ up' = up /\ nameless' = nameless /\ newest' = newest
      /\ anchor' = anchor /\ asked' = NoCall
      /\ room' = room \cup {MakeMessageID(BestMessageID(d)) : d \in HistoryToBackfill(details)}
      /\ cursor' = NextCursor(details)
      /\ phase' = IF HasMore(HistoryToBackfill(details)) THEN "fetch" ELSE "done"
  BY DEF FetchDone
<1>1. /\ asked.count \in Nat \ {0} /\ asked.seq \in Nat /\ newest \in Nat /\ newest <= MaxChat
      /\ MaxChat \in Nat /\ Before \in Nat /\ Before <= newest /\ nameless \subseteq 1..Before
  BY <1>0, BackfillAssumption DEF IInv, AskedIsNext, TypeOK
<1>2. PICK upTo \in Latest, first \in Nat \ {0} :
        /\ upTo \in Nat /\ first <= upTo + 1
        /\ Elements(details) = {Detail(i) : i \in first..upTo}
        /\ first > 1 => upTo + 1 - first = asked.count
        /\ details = <<>> <=> upTo < first
        /\ first <= upTo => SortByTime(details)[1] = Detail(first)
  BY <1>1, AnswerFacts
<1>3. upTo \in 0..newest /\ \A i \in (upTo + 1)..Before : Covered(i)
  BY <1>0, PageJoins
<1>4. \A i \in first..upTo : /\ i \in Nat \ {0}
                             /\ i \notin nameless => BestMessageID(Detail(i)) = i /\ i # NoId
                             /\ i \in nameless => BestMessageID(Detail(i)) = NoId
  BY <1>2, DetailFacts DEF NoId
<1>5. room' = room \cup {MakeMessageID(i) : i \in (first..upTo) \ nameless}
  <2>1. HistoryToBackfill(details) = {Detail(i) : i \in (first..upTo) \ nameless}
    BY <1>2, <1>4 DEF HistoryToBackfill
  <2> QED
    BY <1>0, <1>4, <2>1
<1>6. \A i : Covered(i) => Covered(i)'
  BY <1>0, <1>5, RoomGrows
<1>7. \A i \in first..Before : Covered(i)'
  <2>1. ASSUME NEW i \in first..Before PROVE Covered(i)'
    <3>1. CASE i <= upTo
      BY <1>0, <1>2, <1>5, <3>1 DEF Covered, Bridged, MakeMessageID
    <3>2. CASE i > upTo
      BY <1>1, <1>2, <1>3, <1>6, <3>2
    <3> QED
      BY <1>1, <1>2, <3>1, <3>2
  <2> QED
    BY <2>1
<1>8. cursor' \in {NoId, first} /\ (cursor' = first => first <= upTo)
  <2>1. CASE details = <<>>
    BY <1>0, <1>2, <2>1 DEF NextCursor, NoId
  <2>2. CASE details # <<>>
    <3>1. first <= upTo /\ cursor' = BestMessageSeq(Detail(first))
      BY <1>0, <1>2, <2>2 DEF NextCursor
    <3> QED
      BY <3>1, DetailFacts
  <2> QED
    BY <2>1, <2>2
<1>9. \A i \in first..upTo : i \in 1..newest /\ i \in 1..(2 * MaxChat)
  BY <1>1, <1>2, <1>3
<1>10. RoomIsOfChat'
  BY <1>0, <1>5, <1>9 DEF IInv, RoomIsOfChat, MakeMessageID
<1>11. CursorCovers'
  BY <1>0, <1>1, <1>2, <1>3, <1>7, <1>8 DEF CursorCovers, NoId
<1>12. TypeOK'
  <2>1. room' \subseteq IDs
    BY <1>5, <1>9 DEF IInv, TypeOK, IDs, MakeMessageID
  <2>2. cursor' \in 0..MaxChat /\ phase' \in {"fetch", "done"}
    BY <1>0, <1>1, <1>2, <1>3, <1>8 DEF NoId
  <2>3. asked' \in [seq: 0..MaxChat, count: 0..Limit]
    BY <1>0, <1>1, BackfillAssumption DEF NoCall, NoId
  <2> QED
    BY <1>0, <2>1, <2>2, <2>3 DEF IInv, TypeOK
<1>13. NothingBefore' /\ AnchorIsNew' /\ AskedIsNext'
  BY <1>0 DEF IInv, NothingBefore, AnchorIsNew, AskedIsNext, NoAnchor, MakeMessageID
<1>14. HistoryIsComplete'
  <2>1. ASSUME phase' = "done", NEW i \in 1..Before, ~Bridged(i)'
        PROVE  \E n \in nameless : i <= n
    <3>1. ~HasMore(HistoryToBackfill(details))
      BY <1>0, <2>1
    <3>2. CASE i \in first..Before
      <4>1. i \in nameless
        BY <1>0, <1>7, <2>1, <3>2 DEF Covered
      <4> QED
        BY <2>1, <4>1
    <3>3. CASE i \notin first..Before
      <4>1. i < first /\ first > 1
        BY <1>1, <1>2, <2>1, <3>3
      <4>2. PICK n \in first..upTo : n \in nameless
        BY <1>2, <3>1, <4>1, ShortPage
      <4> QED
        BY <1>2, <2>1, <4>1, <4>2
    <3> QED
      BY <3>2, <3>3
  <2> QED
    BY <1>0, <2>1 DEF HistoryIsComplete
<1> QED
  BY <1>10, <1>11, <1>12, <1>13, <1>14 DEF IInv

(* Every step keeps the invariant. *)
THEOREM NextIInv == IInv /\ [Next]_vars => IInv'
<1> SUFFICES ASSUME IInv, [Next]_vars PROVE IInv'
  OBVIOUS
<1>0. /\ TypeOK /\ newest \in Nat /\ newest <= MaxChat /\ Before <= newest
      /\ MaxChat \in Nat /\ Before \in Nat
  BY BackfillAssumption DEF IInv, TypeOK
<1>1. CASE SessionChange
  BY <1>1 DEF SessionChange, IInv, TypeOK, RoomIsOfChat, NothingBefore, AnchorIsNew, CursorCovers,
              Covered, Bridged, AskedIsNext, MessageSeq, HistoryIsComplete, IDs, NoAnchor, MakeMessageID
<1>2. CASE Message
  <2>1. /\ newest < MaxChat /\ newest' = newest + 1
        /\ room' = (IF up THEN room \cup {MakeMessageID(newest + 1)} ELSE room)
        /\ UNCHANGED <<nameless, up, phase, anchor, cursor, asked>>
    BY <1>2 DEF Message
  <2>2. PICK new \in Nat : new = newest + 1
    BY <1>0
  <2>3. room' \in {room, room \cup {MakeMessageID(new)}} /\ newest' = new
    BY <2>1, <2>2
  <2>4. \A i : Covered(i) => Covered(i)'
    BY <2>1, <2>3, RoomGrows
  <2>5. HistoryIsComplete'
    BY <2>1, <2>3, RoomGrows DEF IInv
  <2>6. new \in 1..newest' /\ new \in (Before + 1)..newest' /\ new \in 1..(2 * MaxChat)
        /\ (1..newest) \subseteq 1..newest'
        /\ (Before + 1)..newest \subseteq (Before + 1)..newest'
    BY <1>0, <2>1, <2>2
  <2>7. RoomIsOfChat'
    <3>1. ASSUME NEW mid \in room' PROVE \E i \in 1..newest' : mid = MakeMessageID(i)
      <4>1. CASE mid \in room
        BY <2>6, <4>1 DEF IInv, RoomIsOfChat
      <4>2. CASE mid = MakeMessageID(new)
        BY <2>6, <4>2
      <4> QED
        BY <2>3, <4>1, <4>2
    <3> QED
      BY <3>1 DEF RoomIsOfChat, MakeMessageID
  <2>8. NothingBefore'
    <3>1. ASSUME phase = "idle", NEW mid \in room'
          PROVE  \E i \in (Before + 1)..newest' : mid = MakeMessageID(i)
      <4>1. CASE mid \in room
        BY <2>6, <3>1, <4>1 DEF IInv, NothingBefore
      <4>2. CASE mid = MakeMessageID(new)
        BY <2>6, <4>2
      <4> QED
        BY <2>3, <4>1, <4>2
    <3> QED
      BY <2>1, <3>1 DEF IInv, NothingBefore, MakeMessageID, NoAnchor
  <2>9. AnchorIsNew'
    BY <2>1, <2>6 DEF IInv, AnchorIsNew, NoAnchor, MakeMessageID
  <2>10. CursorCovers'
    BY <1>0, <2>1, <2>4 DEF IInv, CursorCovers
  <2>11. TypeOK' /\ AskedIsNext'
    <3>1. room' \subseteq IDs /\ newest' \in Before..MaxChat
      BY <1>0, <2>1, <2>2, <2>3, <2>6 DEF TypeOK, IDs, MakeMessageID
    <3> QED
      BY <1>0, <2>1, <3>1 DEF IInv, TypeOK, AskedIsNext, MessageSeq, NoAnchor, MakeMessageID, IDs
  <2> QED
    BY <2>5, <2>7, <2>8, <2>9, <2>10, <2>11 DEF IInv
<1>3. CASE Start
  <2>1. /\ phase = "idle" /\ phase' = "fetch" /\ UNCHANGED <<nameless, up, newest, room, cursor, asked>>
        /\ cursor = NoId
    BY <1>3 DEF Start, IInv, NothingBefore
  <2>2. anchor' = NoAnchor \/ anchor' \in room
    <3>1. CASE room # {}
      <4> DEFINE Oldest(mid) == \A other \in room : ParseMessageID(mid) <= ParseMessageID(other)
                 T == {ParseMessageID(mid) : mid \in room}
      <4>1. T \in SUBSET Nat /\ T # {}
        BY <3>1, IDFacts DEF IInv, RoomIsOfChat
      <4>2. PICK x \in T : \A y \in T : x <= y
        BY <4>1, NatMin
      <4>3. \E mid \in room : Oldest(mid)
        BY <4>2
      <4>4. anchor' = CHOOSE mid \in room : Oldest(mid)
        BY <1>3, <3>1 DEF Start
      <4> HIDE DEF Oldest
      <4> QED
        BY <4>3, <4>4
    <3>2. CASE room = {}
      BY <1>3, <3>2 DEF Start
    <3> QED
      BY <3>1, <3>2
  <2>3. AnchorIsNew'
    BY <2>1, <2>2 DEF IInv, NothingBefore, AnchorIsNew, NoAnchor, MakeMessageID
  <2>4. TypeOK'
    BY <1>0, <2>1, <2>2 DEF TypeOK, NoAnchor, MakeMessageID, IDs
  <2> QED
    BY <2>1, <2>3, <2>4 DEF IInv, RoomIsOfChat, NothingBefore, CursorCovers, Covered, Bridged,
                            AskedIsNext, HistoryIsComplete, MakeMessageID
<1>4. ASSUME NEW count \in Counts, FetchCall(count) PROVE IInv'
  <2>1. /\ phase' = "asked" /\ asked' = [seq |-> MessageSeq, count |-> PageSize(count)]
        /\ phase = "fetch" /\ UNCHANGED <<nameless, up, newest, room, anchor, cursor>>
    BY <1>4 DEF FetchCall
  <2>2. PageSize(count) \in Nat \ {0, 1} /\ PageSize(count) <= Limit /\ Limit \in Nat
    BY BackfillAssumption DEF PageSize
  <2>3. MessageSeq \in 0..MaxChat
    <3>1. anchor = NoAnchor \/ \E i \in 1..newest : anchor = MakeMessageID(i)
      BY <1>0 DEF IInv, AnchorIsNew
    <3>2. ParseMessageID(anchor) \in 0..MaxChat
      BY <1>0, <3>1, IDFacts DEF NoAnchor, NoId
    <3> QED
      BY <1>0, <3>2 DEF MessageSeq, TypeOK
  <2>4. asked'.count = PageSize(count) /\ asked'.seq = MessageSeq /\ MessageSeq' = MessageSeq
    BY <2>1 DEF MessageSeq, ParseMessageID
  <2>5. TypeOK'
    <3>1. asked' \in [seq: 0..MaxChat, count: 0..Limit] /\ asked'.count # 0
      BY <2>1, <2>2, <2>3, <2>4
    <3> QED
      BY <1>0, <2>1, <3>1 DEF TypeOK, NoAnchor, MakeMessageID, IDs
  <2>6. AskedIsNext'
    BY <2>2, <2>4 DEF AskedIsNext
  <2> QED
    BY <2>1, <2>5, <2>6 DEF IInv, RoomIsOfChat, NothingBefore, AnchorIsNew, CursorCovers, Covered,
                            Bridged, HistoryIsComplete, MakeMessageID, NoAnchor
<1>5. ASSUME NEW details \in Answers, FetchDone(details) PROVE IInv'
  BY <1>5, FetchDoneKeeps
<1>6. CASE FetchFail
  <2>1. /\ phase' = "fetch" /\ phase = "asked" /\ asked' = NoCall
        /\ UNCHANGED <<nameless, up, newest, room, anchor, cursor>>
    BY <1>6 DEF FetchFail
  <2>2. TypeOK'
    BY <1>0, <2>1, BackfillAssumption DEF TypeOK, NoCall, NoId, NoAnchor, MakeMessageID, IDs
  <2> QED
    BY <2>1, <2>2 DEF IInv, RoomIsOfChat, NothingBefore, AnchorIsNew, CursorCovers, Covered,
                      Bridged, AskedIsNext, HistoryIsComplete, MakeMessageID, NoAnchor
<1>7. CASE UNCHANGED vars
  BY <1>7 DEF vars, IInv, TypeOK, RoomIsOfChat, NothingBefore, AnchorIsNew, CursorCovers,
              Covered, Bridged, AskedIsNext, MessageSeq, HistoryIsComplete, IDs, NoAnchor, MakeMessageID
<1> QED
  BY <1>1, <1>2, <1>3, <1>4, <1>5, <1>6, <1>7 DEF Next

(* In every state the cursor leads on from what the room has.              *)
THEOREM Invariance == Spec => []IInv
BY InitIInv, NextIInv, PTL DEF Spec

(* The variables keep their types, and no page is larger than the limit.   *)
THEOREM TypeCorrect == Spec => []TypeOK
<1>1. IInv => TypeOK
  BY DEF IInv
<1> QED
  BY <1>1, Invariance, PTL

(* No message of the chat has two ids in the room.                         *)
THEOREM IDsAreUnique == Spec => []OneIDPerMessage
<1>1. ASSUME IInv, NEW mid \in room PROVE ParseMessageID(mid) \in 1..MaxChat
  <2>1. PICK i \in 1..newest : mid = MakeMessageID(i)
    BY <1>1 DEF IInv, RoomIsOfChat
  <2>2. newest \in Nat /\ newest <= MaxChat /\ MaxChat \in Nat
    BY <1>1, BackfillAssumption DEF IInv, TypeOK
  <2> QED
    BY <2>1, <2>2, IDFacts
<1>2. IInv => OneIDPerMessage
  BY <1>1 DEF OneIDPerMessage
<1> QED
  BY <1>2, Invariance, PTL

(* When the backfill is over, no message before its anchor is missing, but *)
(* for those up to one without an id.                                      *)
THEOREM NothingIsSkipped == Spec => []HistoryIsComplete
<1>1. IInv => HistoryIsComplete
  BY DEF IInv
<1> QED
  BY <1>1, Invariance, PTL

(* A page that is not the last takes the cursor further back.              *)
PagesGoBack ==
  [][\A details \in Answers :
       FetchDone(details) /\ phase' = "fetch" =>
         /\ cursor' # NoId
         /\ MessageSeq # NoId => cursor' < MessageSeq]_vars

(* A page that is not the last is full, so it begins before what it was    *)
(* asked from; the sort makes its first message the cursor.  So the cursor *)
(* goes back with each page, and the backfill is over after finitely many. *)
THEOREM CursorGoesBack == Spec => PagesGoBack
<1>1. ASSUME IInv, NEW details \in Answers, FetchDone(details), phase' = "fetch"
      PROVE  cursor' # NoId /\ (MessageSeq # NoId => cursor' < MessageSeq)
  <2>1. /\ phase = "asked" /\ HasMore(HistoryToBackfill(details))
        /\ cursor' = NextCursor(details)
    BY <1>1 DEF FetchDone
  <2>2. /\ asked.count \in Nat \ {0, 1} /\ asked.seq \in Nat /\ newest \in Nat
        /\ asked.seq = MessageSeq
    BY <1>1, <2>1, BackfillAssumption DEF IInv, AskedIsNext, TypeOK
  <2>3. PICK upTo \in Latest, first \in Nat \ {0} :
          /\ upTo \in Nat /\ first <= upTo + 1
          /\ Elements(details) = {Detail(i) : i \in first..upTo}
          /\ upTo + 1 - first <= asked.count
          /\ details = <<>> <=> upTo < first
          /\ first <= upTo => SortByTime(details)[1] = Detail(first)
    BY <2>2, AnswerFacts
  <2>4. upTo + 1 - first = asked.count /\ \A i \in first..upTo : i \notin nameless
    BY <2>1, <2>2, <2>3, FullPage
  <2>5. first < upTo
    BY <2>2, <2>3, <2>4
  <2>6. cursor' = first
    BY <2>1, <2>3, <2>4, <2>5, DetailFacts DEF NextCursor
  <2>7. MessageSeq # NoId => upTo <= MessageSeq
    BY <2>2, <2>3 DEF Latest
  <2> QED
    BY <2>2, <2>3, <2>5, <2>6, <2>7 DEF NoId
<1>2. IInv /\ [Next]_vars =>
        [\A details \in Answers :
           FetchDone(details) /\ phase' = "fetch" =>
             /\ cursor' # NoId
             /\ MessageSeq # NoId => cursor' < MessageSeq]_vars
  BY <1>1
<1> QED
  BY <1>2, Invariance, PTL DEF Spec, PagesGoBack
=============================================================================
