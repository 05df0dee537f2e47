-------------------------- MODULE Conversion_proof --------------------------
(***************************************************************************)
(* Theorems about Conversion, for any users, texts and messages: types,    *)
(* that texts arrive as they were typed, that nothing of a message is left *)
(* out, and that its parts are kept apart.                                 *)
(***************************************************************************)
EXTENDS Conversion, FiniteSetTheorems, WellFoundedInduction, TLAPS

-----------------------------------------------------------------------------
(* The inductive invariant, in named parts. *)

(* What is in QQ is what was made of the content, or a message from there. *)
SegsAreOfContent ==
  at \in {"sent", "shown"} =>
    \/ /\ content # None /\ content.type # "unsupported" /\ Replyable(content.reply)
       /\ segs = WithReply(content.reply, ToQQ(content))
    \/ content = None /\ segs \in Messages

(* What is shown is made of it, whatever fails and whoever is unknown. *)
EnvsOf(ss) == [fails: SUBSET (DOMAIN ss), nodes: 0..2, missing: SUBSET Users]
ShownIsOfSegs ==
  IF at = "shown" THEN \E env \in EnvsOf(segs) : env.missing = unknown /\ shown = ToMatrix(segs, env)
  ELSE shown = [parts |-> <<>>, reply |-> None]

(* Before it is typed, there is no content. *)
NoContentYet == (at = "start" => content = None) /\ (at = "typed" => content # None)

IInv ==
  /\ TypeOK
  /\ NoContentYet
  /\ SegsAreOfContent
  /\ ShownIsOfSegs

-----------------------------------------------------------------------------
(* Places, tokens and segments. *)

(* A set of numbers that is not empty has a first one. *)
LEMMA FirstFacts ==
  ASSUME NEW T \in SUBSET Nat, T # {}
  PROVE  First(T) \in T /\ \A j \in T : First(T) <= j
<1> DEFINE R == {ss \in Nat \X Nat : ss[1] < ss[2]}
<1>1. R = OpToRel(<, Nat)
  BY DEF OpToRel
<1>2. IsWellFoundedOn(R, Nat)
  BY <1>1, NatLessThanWellFounded
<1> HIDE DEF R
<1>3. PICK x \in T : \A y \in T : ~ (<<y, x>> \in R)
  BY <1>2, WFMin
<1>4. \A y \in T : ~(y < x)
  BY <1>3 DEF R
<1>5. \A y \in T : x <= y
  BY <1>4
<1> QED
  BY <1>5 DEF First

(* The fields of each type of segment. *)
LEMMA SegmentFacts ==
  ASSUME NEW s \in Segments
  PROVE  /\ s.type = "text" => s.text \in Texts \cup Names
         /\ s.type = "at" => /\ s.id \in Users \cup {"all", None}
                             /\ s.num = s.id \/ <<s.id, s.num>> \in Begin
                             /\ s.id \in Users => s.num \in Users
         /\ s.type = "reply" => s.id \in MsgIDs
<1>1. CASE \E tok \in Texts \cup Names : s = Text(tok)
  BY <1>1 DEF Text
<1>2. CASE \E x \in Users \cup {"all", None} : s = At(x, x)
  BY <1>2 DEF At
<1>3. CASE \E p \in Begin : s = At(p[1], p[2])
  <2>1. PICK p \in Begin : s = At(p[1], p[2])
    BY <1>3
  <2>2. p = <<p[1], p[2]>> /\ p[1] \in Users /\ p[2] \in Users
    <3>1. Begin \subseteq Users \X Users
      BY ConversionAssumption
    <3> QED
      BY <3>1
  <2>3. s.type = "at" /\ s.id = p[1] /\ s.num = p[2]
    BY <2>1 DEF At
  <2> QED
    BY <2>2, <2>3
<1>4. CASE \E id \in MsgIDs : s = Reply(id)
  BY <1>4 DEF Reply
<1>5. CASE \E type \in MediaTypes, url \in BOOLEAN : s = Media(type, url)
  BY <1>5 DEF Media, MediaTypes
<1>6. CASE \E type \in AppTypes \cup {"location", "face"} : s = Card(type)
  <2>1. PICK type \in AppTypes \cup {"location", "face"} : s = Card(type)
    BY <1>6
  <2>2. s.type = type
    BY <2>1 DEF Card
  <2> QED
    BY <2>2 DEF AppTypes
<1> QED
  BY <1>1, <1>2, <1>3, <1>4, <1>5, <1>6 DEF Segments

(* What each segment shows as a text is a token. *)
LEMMA TokenFacts ==
  ASSUME NEW s \in Segments
  PROVE  /\ s.type = "at" /\ s.id \notin {None, "all"} =>
              TokenOf(s) = AtText(s.num) /\ s.id \in Users
         /\ TokenOf(s).t = "at" => TokenOf(s) = AtText(TokenOf(s).x)
         /\ s.type = "reply" => TokenOf(s) = Blank
         /\ s.type \notin {"text", "at", "reply"} => TokenOf(s) = Label(s.type)
<1>1. s.type = "at" /\ s.id \notin {None, "all"} => TokenOf(s) = AtText(s.num) /\ s.id \in Users
  BY SegmentFacts DEF TokenOf
<1>2. CASE s.type = "text"
  BY <1>2, SegmentFacts DEF TokenOf, Texts, Names, AtText, Token
<1>3. CASE s.type = "at"
  BY <1>1, <1>3 DEF TokenOf, AtText, Token, Blank
<1>4. CASE s.type = "reply"
  BY <1>4 DEF TokenOf, Blank, Token
<1>5. CASE s.type \notin {"text", "at", "reply"}
  BY <1>5 DEF TokenOf, Label, Token
<1> QED
  BY <1>1, <1>2, <1>3, <1>4, <1>5

(* What may be typed in Matrix, token by token. *)
LEMMA BodyFacts ==
  ASSUME NEW c \in Contents, NEW i \in DOMAIN c.body
  PROVE  \/ /\ c.body[i] \in Texts
            /\ c.body[i].t = "at" => c.body[i] = AtText(c.body[i].x)
            /\ c.body[i].t # "pill" /\ i \notin Mentions(c)
            /\ ParseText(c)[i] = c.body[i]
         \/ /\ c.body[i] = Pill(c.body[i].x) /\ c.body[i].x \in Users
            /\ i \in Mentions(c) => ParseText(c)[i] = AtText(c.body[i].x)
            /\ i \notin Mentions(c) => ParseText(c)[i] = Name(c.body[i].x)
<1>1. c.body[i] \in Texts \cup Pills
  <2>1. c.body \in Seq(Texts \cup Pills)
    BY ConversionAssumption
  <2> QED
    BY <2>1
<1>2. CASE c.body[i] \in Texts
  BY <1>2 DEF Texts, Mentions, Mentionable, ParseText, AtText, Token
<1>3. CASE c.body[i] \in Pills
  BY <1>3 DEF Pills, Mentions, Mentionable, ParseText, Pill, Token
<1> QED
  BY <1>1, <1>2, <1>3

(* The people mentioned are users, and their places in the text numbers. *)
LEMMA MentionsFacts ==
  ASSUME NEW c \in Contents
  PROVE  /\ c.body \in Seq(Texts \cup Pills)
         /\ Mentions(c) \subseteq DOMAIN c.body /\ Mentions(c) \subseteq Nat
         /\ \A i \in Mentions(c) : c.body[i].x \in Users
<1>1. c.body \in Seq(Texts \cup Pills)
  BY ConversionAssumption
<1>2. DOMAIN c.body \subseteq Nat
  BY <1>1
<1> QED
  BY <1>1, <1>2 DEF Mentions, Mentionable

(* A token that is sent is text, or a mention of someone who is mentioned  *)
(* in the text and whose number the token begins with.                     *)
LEMMA SplitFacts ==
  ASSUME NEW c \in Contents, NEW tok \in Texts \cup Names
  PROVE  /\ Split(c, tok) \in Segments
         /\ \/ Split(c, tok) = Text(tok)
            \/ c.room /\ Split(c, tok) = At("all", "all")
            \/ \E f \in Mentions(c) : /\ tok.t = "at" /\ Starts(c.body[f].x, tok.x)
                                     /\ Split(c, tok) = At(c.body[f].x, tok.x)
         /\ (\E f \in Mentions(c) : tok.t = "at" /\ Starts(c.body[f].x, tok.x)) =>
              \E f \in Mentions(c) : /\ Starts(c.body[f].x, tok.x)
                                    /\ Split(c, tok) = At(c.body[f].x, tok.x)
<1> DEFINE fits == {i \in Mentions(c) : tok.t = "at" /\ Starts(c.body[i].x, tok.x)}
<1>1. CASE fits # {}
  <2>1. First(fits) \in fits
    BY <1>1, FirstFacts, MentionsFacts
  <2>2. Split(c, tok) = At(c.body[First(fits)].x, tok.x)
    BY <1>1 DEF Split
  <2>3. PICK f \in Mentions(c) :
          /\ tok.t = "at" /\ Starts(c.body[f].x, tok.x) /\ Split(c, tok) = At(c.body[f].x, tok.x)
    BY <2>1, <2>2
  <2>4. c.body[f].x \in Users
    BY MentionsFacts
  <2>5. At(c.body[f].x, tok.x) \in Segments
    <3>1. CASE c.body[f].x = tok.x
      BY <2>4, <3>1 DEF Segments
    <3>2. CASE <<c.body[f].x, tok.x>> \in Begin
      <4>1. \A p \in Begin : At(p[1], p[2]) \in Segments
        BY DEF Segments
      <4> QED
        BY <3>2, <4>1
    <3> QED
      BY <2>3, <3>1, <3>2 DEF Starts
  <2> QED
    BY <2>3, <2>5
<1>2. CASE fits = {}
  <2>1. Split(c, tok) = IF c.room /\ tok = AtText("all") THEN At("all", "all") ELSE Text(tok)
    BY <1>2 DEF Split
  <2>2. At("all", "all") \in Segments /\ Text(tok) \in Segments
    BY DEF Segments
  <2> QED
    BY <1>2, <2>1, <2>2
<1> QED
  BY <1>1, <1>2

(* What is parsed are texts and names, and what is sent are segments. *)
LEMMA TextSegmentsFacts ==
  ASSUME NEW c \in Contents
  PROVE  /\ \A i \in DOMAIN c.body : ParseText(c)[i] \in Texts \cup Names
         /\ TextSegments(c) \in Seq(Segments)
         /\ Len(TextSegments(c)) = Len(c.body)
         /\ \A i \in DOMAIN c.body : TextSegments(c)[i] = Split(c, ParseText(c)[i])
<1>1. ASSUME NEW i \in DOMAIN c.body PROVE ParseText(c)[i] \in Texts \cup Names
  <2>1. CASE c.body[i] \in Texts /\ ParseText(c)[i] = c.body[i]
    BY <2>1
  <2>2. CASE c.body[i].x \in Users /\ ParseText(c)[i] \in {AtText(c.body[i].x), Name(c.body[i].x)}
    BY <2>2 DEF Texts, Names, AtText, Name, Token
  <2> QED
    BY <1>1, <2>1, <2>2, BodyFacts
<1>2. c.body \in Seq(Texts \cup Pills) /\ DOMAIN c.body = 1..Len(c.body) /\ Len(c.body) \in Nat
  <2>1. c.body \in Seq(Texts \cup Pills)
    BY MentionsFacts
  <2> QED
    BY <2>1
<1>3. TextSegments(c) = [i \in 1..Len(c.body) |-> Split(c, ParseText(c)[i])]
  BY <1>2 DEF TextSegments
<1>4. \A i \in 1..Len(c.body) : Split(c, ParseText(c)[i]) \in Segments
  BY <1>1, <1>2, SplitFacts
<1>5. TextSegments(c) \in Seq(Segments) /\ Len(TextSegments(c)) = Len(c.body)
  BY <1>2, <1>3, <1>4
<1> QED
  BY <1>1, <1>2, <1>3, <1>5

(* What is sent. *)
LEMMA ToQQFacts ==
  ASSUME NEW c \in Contents, c.type # "unsupported"
  PROVE  /\ ToQQ(c) \in Seq(Segments)
         /\ c.type # "text" => Len(ToQQ(c)) = 1
<1>1. CASE c.type = "text"
  BY <1>1, TextSegmentsFacts DEF ToQQ
<1>2. CASE c.type = "location"
  <2>1. Card("location") \in Segments
    BY DEF Segments
  <2> QED
    BY <1>2, <2>1 DEF ToQQ
<1>3. CASE c.type \in {"image", "sticker", "video", "audio", "file"}
  <2>1. SentAs[c.type] \in MediaTypes
    BY <1>3 DEF SentAs, MediaTypes
  <2>2. ASSUME NEW type \in MediaTypes, NEW url \in BOOLEAN PROVE Media(type, url) \in Segments
    BY DEF Segments
  <2>3. ToQQ(c) = <<Media(SentAs[c.type], TRUE)>>
    BY <1>3 DEF ToQQ
  <2>4. PICK s \in Segments : ToQQ(c) = <<s>>
    BY <2>1, <2>2, <2>3, Zenon
  <2> QED
    BY <1>3, <2>4
<1>4. c.type \in {"image", "sticker", "video", "audio", "file", "location", "text", "unsupported"}
  BY ConversionAssumption DEF SentAs
<1> QED
  BY <1>1, <1>2, <1>3, <1>4

(* A reply comes first, and moves the rest one place on. *)
LEMMA WithReplyFacts ==
  ASSUME NEW c \in Contents, NEW ss \in Seq(Segments)
  PROVE  /\ WithReply(c.reply, ss) \in Seq(Segments)
         /\ c.reply = None => WithReply(c.reply, ss) = ss
         /\ c.reply # None =>
              /\ c.reply[2] \in MsgIDs
              /\ Len(WithReply(c.reply, ss)) = Len(ss) + 1
              /\ WithReply(c.reply, ss)[1] = Reply(c.reply[2])
              /\ \A i \in 1..Len(ss) : WithReply(c.reply, ss)[i + 1] = ss[i]
<1>1. CASE c.reply = None
  BY <1>1 DEF WithReply
<1>2. CASE c.reply # None
  <2>1. c.reply \in {Chat, "fake"} \X MsgIDs
    BY <1>2, ConversionAssumption
  <2>2. Reply(c.reply[2]) \in Segments /\ c.reply[2] \in MsgIDs
    BY <2>1 DEF Segments
  <2>3. WithReply(c.reply, ss) = <<Reply(c.reply[2])>> \o ss
    BY <1>2 DEF WithReply
  <2> HIDE DEF Reply
  <2>4. <<Reply(c.reply[2])>> \in Seq(Segments)
    BY <2>2
  <2> QED
    BY <1>2, <2>2, <2>3, <2>4
<1> QED
  BY <1>1, <1>2

-----------------------------------------------------------------------------
(* Parts. *)

PartKinds == {"text", "media", "failure", "location"}
IsPart(p) == p = [id |-> p.id, kind |-> p.kind, body |-> p.body, of |-> p.of]

(* The media of a message are finitely many of its segments. *)
LEMMA MediaOfFacts ==
  ASSUME NEW ss \in Seq(Segments)
  PROVE  /\ DOMAIN ss = 1..Len(ss) /\ Len(ss) \in Nat
         /\ MediaOf(ss) \subseteq 1..Len(ss)
         /\ IsFiniteSet(MediaOf(ss) \cup {Len(ss) + 1})
         /\ IsFiniteSet(MediaOf(ss))
<1>1. DOMAIN ss = 1..Len(ss) /\ Len(ss) \in Nat
  OBVIOUS
<1>2. MediaOf(ss) \subseteq 1..Len(ss)
  BY <1>1 DEF MediaOf
<1>3. IsFiniteSet(1..Len(ss))
  BY <1>1, FS_Interval
<1>4. IsFiniteSet(MediaOf(ss))
  BY <1>2, <1>3, FS_Subset
<1> QED
  BY <1>1, <1>2, <1>4, FS_AddElement

(* A set of at most one element has no two. *)
LEMMA AtMostOne ==
  ASSUME NEW T, IsFiniteSet(T), Cardinality(T) <= 1
  PROVE  \A j, k \in T : j = k
<1>1. Cardinality(T) \in Nat
  BY FS_CardinalityType
<1>2. Cardinality(T) = 0 \/ Cardinality(T) = 1
  BY <1>1
<1>3. CASE Cardinality(T) = 0
  BY <1>3, FS_EmptySet
<1>4. CASE Cardinality(T) = 1
  BY <1>4, FS_Singleton
<1> QED
  BY <1>2, <1>3, <1>4

(* Numbering changes ids only, and afterwards the parts have different     *)
(* ones, if those that have one already do.                                *)
LEMMA NumberedFacts ==
  ASSUME NEW ps, IsFiniteSet(DOMAIN ps), DOMAIN ps \subseteq Nat,
         \A k \in DOMAIN ps : IsPart(ps[k])
  PROVE  /\ DOMAIN Numbered(ps) = DOMAIN ps
         /\ \A k \in DOMAIN ps : /\ Numbered(ps)[k].kind = ps[k].kind
                                 /\ Numbered(ps)[k].body = ps[k].body
                                 /\ Numbered(ps)[k].of = ps[k].of
         /\ (\A k \in DOMAIN ps : ps[k].id = NoPartID \/ ps[k].id = <<"caption", 0>>)
              /\ (\A j, k \in DOMAIN ps : ps[j].id = <<"caption", 0>> /\ ps[k].id = <<"caption", 0>> => j = k)
            => \A j, k \in DOMAIN ps : Numbered(ps)[j].id = Numbered(ps)[k].id => j = k
<1> DEFINE before(k) == Cardinality({j \in DOMAIN ps : j < k})
<1>1. CASE Cardinality(DOMAIN ps) <= 1
  <2>1. Numbered(ps) = ps
    BY <1>1 DEF Numbered
  <2> QED
    BY <1>1, <2>1, AtMostOne
<1>2. CASE ~(Cardinality(DOMAIN ps) <= 1)
  <2>1. Numbered(ps) = [k \in DOMAIN ps |->
                          IF ps[k].id = NoPartID THEN [ps[k] EXCEPT !.id = <<"media", before(k)>>]
                          ELSE ps[k]]
    BY <1>2, Zenon DEF Numbered
  <2>2. ASSUME NEW j \in DOMAIN ps, NEW k \in DOMAIN ps, j < k
        PROVE  before(j) # before(k)
    <3> DEFINE below(i) == {h \in DOMAIN ps : h < i}
    <3>1. below(j) \subseteq below(k) /\ j \in below(k) /\ j \notin below(j)
      BY <2>2
    <3>2. IsFiniteSet(below(k))
      BY FS_Subset
    <3>3. below(j) # below(k)
      BY <3>1
    <3> HIDE DEF below
    <3>4. Cardinality(below(k)) # Cardinality(below(j))
      BY <3>1, <3>2, <3>3, FS_Subset
    <3> QED
      BY <3>4 DEF below
  <2> HIDE DEF before
  <2>3. ASSUME NEW k \in DOMAIN ps
        PROVE  /\ Numbered(ps)[k].kind = ps[k].kind
               /\ Numbered(ps)[k].body = ps[k].body
               /\ Numbered(ps)[k].of = ps[k].of
               /\ Numbered(ps)[k].id = IF ps[k].id = NoPartID THEN <<"media", before(k)>> ELSE ps[k].id
    <3>1. PICK a, b, c, d : ps[k] = [id |-> a, kind |-> b, body |-> c, of |-> d]
      BY DEF IsPart
    <3>2. Numbered(ps)[k] = IF ps[k].id = NoPartID THEN [ps[k] EXCEPT !.id = <<"media", before(k)>>]
                            ELSE ps[k]
      BY <2>1, Zenon
    <3>3. [ps[k] EXCEPT !.id = <<"media", before(k)>>]
            = [id |-> <<"media", before(k)>>, kind |-> b, body |-> c, of |-> d]
      BY <3>1
    <3>4. CASE ps[k].id = NoPartID
      BY <3>1, <3>2, <3>3, <3>4
    <3>5. CASE ps[k].id # NoPartID
      BY <3>2, <3>5
    <3> QED
      BY <3>4, <3>5
  <2>4. ASSUME \A k \in DOMAIN ps : ps[k].id = NoPartID \/ ps[k].id = <<"caption", 0>>,
               \A j, k \in DOMAIN ps : ps[j].id = <<"caption", 0>> /\ ps[k].id = <<"caption", 0>> => j = k,
               NEW j \in DOMAIN ps, NEW k \in DOMAIN ps, Numbered(ps)[j].id = Numbered(ps)[k].id
        PROVE  j = k
    <3>1. j \in Nat /\ k \in Nat
      OBVIOUS
    <3>2. CASE ps[j].id = NoPartID /\ ps[k].id = NoPartID
      <4>1. <<"media", before(j)>> = <<"media", before(k)>>
        BY <2>3, <2>4, <3>2
      <4>2. before(j) = before(k)
        BY <4>1
      <4> QED
        BY <2>2, <3>1, <4>2
    <3>3. CASE ps[j].id # NoPartID /\ ps[k].id # NoPartID
      BY <2>4, <3>3
    <3>4. \A n : <<"media", n>> # <<"caption", 0>>
      OBVIOUS
    <3>5. CASE ps[j].id = NoPartID /\ ps[k].id # NoPartID
      <4>1. Numbered(ps)[j].id = <<"media", before(j)>> /\ Numbered(ps)[k].id = <<"caption", 0>>
        BY <2>3, <2>4, <3>5
      <4> QED
        BY <2>4, <3>4, <4>1
    <3>6. CASE ps[j].id # NoPartID /\ ps[k].id = NoPartID
      <4>1. Numbered(ps)[j].id = <<"caption", 0>> /\ Numbered(ps)[k].id = <<"media", before(k)>>
        BY <2>3, <2>4, <3>6
      <4> QED
        BY <2>4, <3>4, <4>1
    <3> QED
      BY <3>2, <3>3, <3>5, <3>6
  <2> QED
    BY <2>1, <2>3, <2>4
<1> QED
  BY <1>1, <1>2

(* A part for each media segment, as yet without an id and a text. *)
LEMMA ConvertMediaFacts ==
  ASSUME NEW ss, NEW fails, NEW k \in MediaOf(ss)
  PROVE  \E kind \in {"media", "failure"} :
           ConvertMedia(ss, fails)[k] = [id |-> NoPartID, kind |-> kind, body |-> NoText(ss), of |-> k]
<1> DEFINE kind == IF k \in fails THEN "failure" ELSE "media"
<1>1. ConvertMedia(ss, fails)[k] = [Part(kind, NoText(ss)) EXCEPT !.of = k]
  BY DEF ConvertMedia
<1>2. [Part(kind, NoText(ss)) EXCEPT !.of = k]
        = [id |-> NoPartID, kind |-> kind, body |-> NoText(ss), of |-> k]
  BY DEF Part
<1> QED
  BY <1>1, <1>2

(* A message with media has a part for each of them, and one that has the  *)
(* text of all other segments, if there is any.                            *)
LEMMA MediaPartsFacts ==
  ASSUME NEW ss \in Seq(Segments), NEW fails
  PROVE  LET ps == ConvertMediaWithCaption(ss, fails)
         IN  /\ MediaOf(ss) \subseteq DOMAIN ps
             /\ \A k \in DOMAIN ps : /\ ps[k].kind \in PartKinds
                                     /\ ps[k].of \in {0} \cup MediaOf(ss)
                                     /\ ps[k].kind \in {"media", "failure"} <=> ps[k].of # 0
             /\ \A k \in MediaOf(ss) : ps[k].of = k
             /\ Caption(ss) # NoText(ss) => \E k \in DOMAIN ps : ps[k].body = Caption(ss)
             /\ \A j, k \in DOMAIN ps : ps[j].id = ps[k].id => j = k
<1> DEFINE media == ConvertMedia(ss, fails)
           n == Len(ss) + 1
           text == Caption(ss)
           ps == ConvertMediaWithCaption(ss, fails)
           M == MediaOf(ss)
<1>1. /\ M \subseteq Nat \ {0} /\ n \in Nat /\ n \notin M
      /\ IsFiniteSet(M) /\ IsFiniteSet(M \cup {n})
  <2>1. /\ Len(ss) \in Nat /\ M \subseteq 1..Len(ss)
        /\ IsFiniteSet(M) /\ IsFiniteSet(M \cup {n})
    BY MediaOfFacts
  <2> HIDE DEF M
  <2> QED
    BY <2>1
<1>2. DOMAIN media = M
  BY DEF ConvertMedia
<1>3. ASSUME NEW k \in M
      PROVE  \E kind \in {"media", "failure"} :
               media[k] = [id |-> NoPartID, kind |-> kind, body |-> NoText(ss), of |-> k]
  BY ConvertMediaFacts
<1>4. CASE text = NoText(ss)
  <2>1. ps = Numbered(media)
    BY <1>4 DEF ConvertMediaWithCaption
  <2> HIDE DEF media, M, text, ps
  <2>2. ASSUME NEW k \in M
        PROVE  /\ IsPart(media[k]) /\ media[k].id = NoPartID
               /\ media[k].kind \in {"media", "failure"} /\ media[k].of = k
    <3>1. PICK kind \in {"media", "failure"} :
            media[k] = [id |-> NoPartID, kind |-> kind, body |-> NoText(ss), of |-> k]
      BY <1>3
    <3> QED
      BY <3>1 DEF IsPart
  <2>3. /\ DOMAIN ps = M
        /\ \A k \in M : ps[k].kind = media[k].kind /\ ps[k].of = media[k].of
        /\ \A j, k \in M : ps[j].id = ps[k].id => j = k
    <3>1. \A k \in M : media[k].id # <<"caption", 0>>
      BY <2>2 DEF NoPartID
    <3> QED
      BY <1>1, <1>2, <2>1, <2>2, <3>1, NumberedFacts
  <2>4. \A k \in M : k # 0
    BY <1>1
  <2> QED
    BY <1>4, <2>2, <2>3, <2>4 DEF PartKinds, M, text, ps
<1>5. CASE text # NoText(ss) /\ Cardinality(M) = 1
  <2>1. ps = [k \in M |-> [media[k] EXCEPT !.body = text]]
    BY <1>5 DEF ConvertMediaWithCaption
  <2> HIDE DEF media, M, text, ps
  <2>2. \A j, k \in M : j = k
    BY <1>1, <1>5, AtMostOne
  <2>3. ASSUME NEW k \in M
        PROVE  ps[k].kind \in {"media", "failure"} /\ ps[k].of = k /\ ps[k].body = text
    <3>1. PICK kind \in {"media", "failure"} :
            media[k] = [id |-> NoPartID, kind |-> kind, body |-> NoText(ss), of |-> k]
      BY <1>3
    <3>2. ps[k] = [media[k] EXCEPT !.body = text]
      BY <2>1
    <3> QED
      BY <3>1, <3>2
  <2>4. DOMAIN ps = M /\ M # {}
    BY <1>1, <1>5, <2>1, FS_EmptySet
  <2>5. \A k \in M : k # 0
    BY <1>1
  <2> QED
    BY <2>2, <2>3, <2>4, <2>5 DEF PartKinds, M, text, ps
<1>6. CASE text # NoText(ss) /\ Cardinality(M) # 1
  <2> DEFINE caption == [Part("text", text) EXCEPT !.id = <<"caption", 0>>]
             both == [k \in M \cup {n} |-> IF k \in M THEN media[k] ELSE caption]
  <2>1. ps = Numbered(both)
    BY <1>6 DEF ConvertMediaWithCaption
  <2>2. caption = [id |-> <<"caption", 0>>, kind |-> "text", body |-> text, of |-> 0]
    BY DEF Part
  <2>3. DOMAIN both = M \cup {n} /\ both[n] = caption /\ \A k \in M : both[k] = media[k]
    BY <1>1
  <2> HIDE DEF media, M, text, ps, caption, both, n
  <2>4. ASSUME NEW k \in M
        PROVE  /\ IsPart(both[k]) /\ both[k].id = NoPartID
               /\ both[k].kind \in {"media", "failure"} /\ both[k].of = k
    <3>1. PICK kind \in {"media", "failure"} :
            media[k] = [id |-> NoPartID, kind |-> kind, body |-> NoText(ss), of |-> k]
      BY <1>3
    <3>2. both[k] = media[k]
      BY <2>3
    <3> QED
      BY <3>1, <3>2 DEF IsPart
  <2>5. /\ IsPart(both[n]) /\ both[n].id = <<"caption", 0>> /\ both[n].kind = "text"
        /\ both[n].body = text /\ both[n].of = 0
    BY <2>2, <2>3 DEF IsPart
  <2>6. /\ DOMAIN ps = M \cup {n}
        /\ \A k \in M \cup {n} : ps[k].kind = both[k].kind /\ ps[k].body = both[k].body /\ ps[k].of = both[k].of
        /\ \A j, k \in M \cup {n} : ps[j].id = ps[k].id => j = k
    <3>1. \A k \in M : both[k].id # <<"caption", 0>>
      BY <2>4 DEF NoPartID
    <3>2. DOMAIN both \subseteq Nat /\ IsFiniteSet(DOMAIN both)
      BY <1>1, <2>3
    <3>3. \A k \in DOMAIN both :
            IsPart(both[k]) /\ (both[k].id = NoPartID \/ both[k].id = <<"caption", 0>>)
      BY <2>3, <2>4, <2>5
    <3>4. \A j, k \in DOMAIN both :
            both[j].id = <<"caption", 0>> /\ both[k].id = <<"caption", 0>> => j = k
      BY <2>3, <3>1
    <3> QED
      BY <2>1, <2>3, <3>2, <3>3, <3>4, NumberedFacts
  <2>7. \A k \in M : k # 0
    BY <1>1
  <2> QED
    BY <2>4, <2>5, <2>6, <2>7 DEF PartKinds, M, text, ps
<1> QED
  BY <1>4, <1>5, <1>6

(* The parts before mentions are added: ToMatrix's choice. *)
PartsOf(ss, env) ==
  CASE ParseMessageType(ss) = "media"    -> ConvertMediaWithCaption(ss, env.fails)
    [] ParseMessageType(ss) = "app"      -> ConvertApp(ss, env.nodes)
    [] ParseMessageType(ss) = "location" -> ConvertLocation(ss)
    [] OTHER                             -> ConvertText(ss)

(* Adding mentions changes texts only. *)
LEMMA ShownDomain ==
  ASSUME NEW ss, NEW env
  PROVE  /\ DOMAIN ToMatrix(ss, env).parts = DOMAIN PartsOf(ss, env)
         /\ ToMatrix(ss, env).reply = ReplyTo(ss)
         /\ \A k \in DOMAIN PartsOf(ss, env) :
              ToMatrix(ss, env).parts[k] = AddMentions(ss, env.missing, PartsOf(ss, env)[k])
<1> DEFINE ps == PartsOf(ss, env)
<1>1. ToMatrix(ss, env) = [parts |-> [k \in DOMAIN ps |-> AddMentions(ss, env.missing, ps[k])],
                            reply |-> ReplyTo(ss)]
  BY Zenon DEF ToMatrix, PartsOf
<1> HIDE DEF ps
<1> QED
  BY <1>1 DEF ps

(* What it leaves of each part, and what it adds. *)
UsersOf(ss, missing)   == {ss[i].id : i \in Known(ss, missing)}
BodyOf(ss, missing, p) == [i \in DOMAIN ss |-> Named(ss, missing, p.body[i])]

(* The fields of a part with its mentions. *)
LEMMA AddMentionsFacts ==
  ASSUME NEW ss, NEW missing, NEW p
  PROVE  LET q == AddMentions(ss, missing, p)
         IN  /\ q.kind = p.kind /\ q.of = p.of /\ q.id = p.id
             /\ q.body = BodyOf(ss, missing, p)
             /\ q.users = UsersOf(ss, missing)
BY DEF AddMentions, UsersOf, BodyOf

(* Those of a part that is shown. *)
LEMMA ShownFacts ==
  ASSUME NEW ss, NEW env, NEW k \in DOMAIN PartsOf(ss, env)
  PROVE  /\ ToMatrix(ss, env).parts[k].kind = PartsOf(ss, env)[k].kind
         /\ ToMatrix(ss, env).parts[k].of = PartsOf(ss, env)[k].of
         /\ ToMatrix(ss, env).parts[k].id = PartsOf(ss, env)[k].id
         /\ ToMatrix(ss, env).parts[k].body = BodyOf(ss, env.missing, PartsOf(ss, env)[k])
         /\ ToMatrix(ss, env).parts[k].users = UsersOf(ss, env.missing)
BY ShownDomain, AddMentionsFacts

(* A text or a place is one part without a medium. *)
LEMMA OnlyFacts ==
  ASSUME NEW kind, NEW body
  PROVE  /\ DOMAIN Only(Part(kind, body)) = {1}
         /\ Only(Part(kind, body))[1].kind = kind
         /\ Only(Part(kind, body))[1].body = body
         /\ Only(Part(kind, body))[1].of = 0
BY DEF Only, Part

(* What convertAppMessage returns: texts and places, of the first segment, *)
(* or the text of all of them.                                             *)
LEMMA AppPartsFacts ==
  ASSUME NEW ss, NEW nodes \in 0..2
  PROVE  LET ps == ConvertApp(ss, nodes)
         IN  /\ 1 \in DOMAIN ps
             /\ \A k \in DOMAIN ps : ps[k].kind \in {"text", "location"} /\ ps[k].of = 0
             /\ ps[1].body = IF \/ ss[1].type \in {"xml", "location card"}
                                \/ ss[1].type = "forward" /\ nodes > 0
                               THEN FirstOnly(ss) ELSE ToContent(ss)
<1>1. CASE ss[1].type = "forward" /\ nodes > 0
  <2>1. ConvertApp(ss, nodes) = [k \in 1..nodes |-> Part("text", FirstOnly(ss))]
    BY <1>1 DEF ConvertApp
  <2>2. 1 \in 1..nodes
    BY <1>1
  <2>3. Part("text", FirstOnly(ss)).kind = "text" /\ Part("text", FirstOnly(ss)).of = 0
        /\ Part("text", FirstOnly(ss)).body = FirstOnly(ss)
    BY DEF Part
  <2> QED
    BY <1>1, <2>1, <2>2, <2>3
<1>2. CASE ss[1].type = "xml"
  BY <1>2, OnlyFacts DEF ConvertApp
<1>3. CASE ss[1].type = "location card"
  <2>1. ConvertApp(ss, nodes) = Only(Part("location", FirstOnly(ss)))
    BY <1>3 DEF ConvertApp
  <2> DEFINE ps == ConvertApp(ss, nodes)
  <2>2. DOMAIN ps = {1} /\ ps[1].kind = "location" /\ ps[1].body = FirstOnly(ss) /\ ps[1].of = 0
    BY <2>1 DEF Only, Part
  <2> HIDE DEF ps
  <2> QED
    BY <1>3, <2>2 DEF ps
<1>4. CASE ~(ss[1].type = "forward" /\ nodes > 0) /\ ss[1].type \notin {"xml", "location card"}
  <2>1. ConvertApp(ss, nodes) = Only(Part("text", ToContent(ss)))
    BY <1>4 DEF ConvertApp, ConvertText
  <2> DEFINE ps == ConvertApp(ss, nodes)
  <2>2. DOMAIN ps = {1} /\ ps[1].kind = "text" /\ ps[1].body = ToContent(ss) /\ ps[1].of = 0
    BY <2>1 DEF Only, Part
  <2> HIDE DEF ps
  <2> QED
    BY <1>4, <2>2 DEF ps
<1> QED
  BY <1>1, <1>2, <1>3, <1>4

(* A message of the type "media" has some. *)
LEMMA MediaTypeFacts ==
  ASSUME NEW ss \in Seq(Segments), ParseMessageType(ss) = "media"
  PROVE  MediaOf(ss) # {}
<1> DEFINE typed == {i \in DOMAIN ss : ss[i].type \in MediaTypes \cup AppTypes \cup {"location", "face"}}
           type == ss[First(typed)].type
<1>1. ParseMessageType(ss) = IF typed = {} THEN "text"
        ELSE CASE type \in MediaTypes -> "media" [] type \in AppTypes -> "app" [] OTHER -> type
  BY Zenon DEF ParseMessageType
<1>2. typed # {} /\ typed \in SUBSET Nat
  <2>1. DOMAIN ss \subseteq Nat
    OBVIOUS
  <2> QED
    BY <1>1, <2>1
<1>3. First(typed) \in typed
  BY <1>2, FirstFacts
<1>4. First(typed) \in DOMAIN ss /\ type \in MediaTypes \cup AppTypes \cup {"location", "face"}
  BY <1>3
<1> HIDE DEF typed, type
<1>5. type \in MediaTypes
  <2>1. CASE type \in AppTypes /\ type \notin MediaTypes
    BY <1>1, <1>2, <2>1
  <2>2. CASE type \notin AppTypes /\ type \notin MediaTypes
    BY <1>1, <1>2, <1>4, <2>2
  <2> QED
    BY <2>1, <2>2
<1> QED
  BY <1>4, <1>5 DEF MediaOf, type

(* So there is always something to show, of the declared kinds. *)
LEMMA PartsOfFacts ==
  ASSUME NEW ss \in Seq(Segments), NEW env \in EnvsOf(ss)
  PROVE  LET ps == PartsOf(ss, env)
         IN  /\ DOMAIN ps # {}
             /\ \A k \in DOMAIN ps : /\ ps[k].kind \in PartKinds
                                     /\ ps[k].of \in {0} \cup MediaOf(ss)
                                     /\ ps[k].kind \in {"media", "failure"} <=> ps[k].of # 0
             /\ ParseMessageType(ss) # "app" => \A j, k \in DOMAIN ps : ps[j].id = ps[k].id => j = k
<1> DEFINE ps == PartsOf(ss, env)
<1>1. CASE ParseMessageType(ss) = "media"
  <2>1. ps = ConvertMediaWithCaption(ss, env.fails) /\ env.fails \in SUBSET (DOMAIN ss)
    BY <1>1 DEF PartsOf, EnvsOf
  <2>2. MediaOf(ss) # {}
    BY <1>1, MediaTypeFacts
  <2> HIDE DEF ps
  <2> QED
    BY <2>1, <2>2, MediaPartsFacts DEF ps
<1>2. CASE ParseMessageType(ss) = "app"
  <2>1. ps = ConvertApp(ss, env.nodes) /\ env.nodes \in 0..2
    BY <1>2 DEF PartsOf, EnvsOf
  <2>2. /\ DOMAIN ps # {}
        /\ \A k \in DOMAIN ps : ps[k].kind \in {"text", "location"} /\ ps[k].of = 0
    <3> DEFINE qs == ConvertApp(ss, env.nodes)
    <3>1. /\ 1 \in DOMAIN qs
          /\ \A k \in DOMAIN qs : qs[k].kind \in {"text", "location"} /\ qs[k].of = 0
      BY <2>1, AppPartsFacts, Zenon
    <3> HIDE DEF ps, qs
    <3>2. ps = qs
      BY <2>1 DEF qs
    <3> QED
      BY <3>1, <3>2
  <2> HIDE DEF ps
  <2> QED
    BY <1>2, <2>2 DEF ps, PartKinds
<1>3. CASE ParseMessageType(ss) = "location"
  <2>1. ps = ConvertLocation(ss)
    BY <1>3 DEF PartsOf
  <2> HIDE DEF ps
  <2> QED
    BY <2>1, OnlyFacts DEF ps, PartKinds, ConvertLocation
<1>4. CASE ParseMessageType(ss) \notin {"media", "app", "location"}
  <2>1. ps = ConvertText(ss)
    BY <1>4 DEF PartsOf
  <2> HIDE DEF ps
  <2> QED
    BY <2>1, OnlyFacts DEF ps, PartKinds, ConvertText
<1> QED
  BY <1>1, <1>2, <1>3, <1>4

(* The reply a message is shown as: to what its first reply segment names. *)
LEMMA ReplyToFacts ==
  ASSUME NEW ss \in Seq(Segments)
  PROVE  /\ ReplyTo(ss) = None \/ ReplyTo(ss) \in {Chat} \X MsgIDs
         /\ (\A i \in DOMAIN ss : ss[i].type # "reply") => ReplyTo(ss) = None
         /\ 1 \in DOMAIN ss /\ ss[1].type = "reply" => ReplyTo(ss) = <<Chat, ss[1].id>>
<1> DEFINE replies == {i \in DOMAIN ss : ss[i].type = "reply"}
<1>1. ReplyTo(ss) = IF replies = {} THEN None ELSE <<Chat, ss[First(replies)].id>>
  BY DEF ReplyTo
<1>2. DOMAIN ss \subseteq Nat \ {0} /\ \A i \in DOMAIN ss : ss[i] \in Segments
  OBVIOUS
<1>3. replies # {} => First(replies) \in replies /\ \A j \in replies : First(replies) <= j
  <2>1. replies \in SUBSET Nat
    BY <1>2
  <2> QED
    BY <2>1, FirstFacts
<1>4. \A i \in replies : i \in DOMAIN ss /\ ss[i].id \in MsgIDs
  BY <1>2, SegmentFacts
<1>5. 1 \in DOMAIN ss /\ ss[1].type = "reply" => 1 \in replies
  OBVIOUS
<1>6. replies \subseteq Nat \ {0}
  BY <1>2
<1>7. (\A i \in DOMAIN ss : ss[i].type # "reply") => replies = {}
  OBVIOUS
<1> HIDE DEF replies
<1>8. 1 \in replies => First(replies) = 1
  <2>1. ASSUME 1 \in replies PROVE First(replies) \in Nat \ {0} /\ First(replies) <= 1
    BY <1>3, <1>6, <2>1
  <2> QED
    BY <2>1
<1> QED
  BY <1>1, <1>3, <1>4, <1>5, <1>7, <1>8

(* What is shown is of the declared types. *)
LEMMA ToMatrixTypes ==
  ASSUME NEW ss \in Seq(Segments), NEW env \in EnvsOf(ss)
  PROVE  LET sh == ToMatrix(ss, env)
         IN  /\ \A k \in DOMAIN sh.parts :
                  /\ sh.parts[k].kind \in {"text", "media", "failure", "location"}
                  /\ sh.parts[k].users \subseteq Users
                  /\ sh.parts[k].of \in {0} \cup MediaOf(ss)
                  /\ sh.parts[k].kind \in {"media", "failure"} <=> sh.parts[k].of # 0
             /\ DOMAIN sh.parts # {}
             /\ sh.reply = None \/ sh.reply \in {Chat} \X MsgIDs
<1> DEFINE sh == ToMatrix(ss, env)
           ps == PartsOf(ss, env)
<1>1. UsersOf(ss, env.missing) \subseteq Users
  <2>1. \A i \in DOMAIN ss : ss[i] \in Segments
    OBVIOUS
  <2> QED
    BY <2>1, SegmentFacts DEF Mentioned, Known, UsersOf
<1>2. DOMAIN sh.parts = DOMAIN ps /\ sh.reply = ReplyTo(ss)
  BY ShownDomain, Zenon
<1>3. ASSUME NEW k \in DOMAIN ps
      PROVE  /\ sh.parts[k].kind = ps[k].kind /\ sh.parts[k].of = ps[k].of
             /\ sh.parts[k].users = UsersOf(ss, env.missing)
  BY ShownFacts
<1>4. /\ DOMAIN ps # {}
      /\ \A k \in DOMAIN ps : /\ ps[k].kind \in PartKinds
                              /\ ps[k].of \in {0} \cup MediaOf(ss)
                              /\ ps[k].kind \in {"media", "failure"} <=> ps[k].of # 0
  BY PartsOfFacts, Zenon
<1> HIDE DEF sh, ps
<1>5. ASSUME NEW k \in DOMAIN sh.parts
      PROVE  /\ sh.parts[k].kind \in {"text", "media", "failure", "location"}
             /\ sh.parts[k].users \subseteq Users
             /\ sh.parts[k].of \in {0} \cup MediaOf(ss)
             /\ sh.parts[k].kind \in {"media", "failure"} <=> sh.parts[k].of # 0
  BY <1>1, <1>2, <1>3, <1>4 DEF PartKinds
<1> QED
  BY <1>2, <1>4, <1>5, ReplyToFacts DEF sh

-----------------------------------------------------------------------------
(* The invariant holds. *)

(* Nothing has been typed yet. *)
LEMMA InitIInv == Init => IInv
<1> SUFFICES ASSUME Init PROVE IInv
  OBVIOUS
<1>1. segs \in Seq(Segments) /\ DOMAIN shown.parts = {}
  BY DEF Init
<1> QED
  BY <1>1 DEF Init, IInv, TypeOK, NoContentYet, SegsAreOfContent, ShownIsOfSegs

(* Every step keeps the inductive invariant. *)
LEMMA NextIInv == IInv /\ [Next]_vars => IInv'
<1> SUFFICES ASSUME IInv, [Next]_vars PROVE IInv'
  OBVIOUS
<1>0. /\ TypeOK /\ NoContentYet /\ SegsAreOfContent /\ ShownIsOfSegs
      /\ None \notin Contents
  BY ConversionAssumption DEF IInv
<1>1. CASE UNCHANGED vars
  BY <1>0, <1>1 DEF IInv, TypeOK, NoContentYet, SegsAreOfContent, ShownIsOfSegs, vars, MediaOf
<1>2. ASSUME NEW c \in Contents, Type(c) PROVE IInv'
  BY <1>0, <1>2 DEF IInv, TypeOK, NoContentYet, SegsAreOfContent, ShownIsOfSegs, Type, MediaOf
<1>3. ASSUME NEW m \in Messages, Receive(m) PROVE IInv'
  <2>1. m \in Seq(Segments)
    BY ConversionAssumption
  <2>2. shown = [parts |-> <<>>, reply |-> None] /\ DOMAIN shown.parts = {}
    BY <1>0, <1>3 DEF ShownIsOfSegs, Receive
  <2> QED
    BY <1>0, <1>3, <2>1, <2>2 DEF IInv, TypeOK, NoContentYet, SegsAreOfContent, ShownIsOfSegs, Receive
<1>4. CASE Send
  <2>1. content \in Contents /\ content.type # "unsupported"
    BY <1>0, <1>4 DEF TypeOK, NoContentYet, Send
  <2>2. segs' \in Seq(Segments)
    <3>1. ToQQ(content) \in Seq(Segments)
      BY <2>1, ToQQFacts
    <3> QED
      BY <1>4, <2>1, <3>1, WithReplyFacts DEF Send
  <2>3. shown = [parts |-> <<>>, reply |-> None] /\ DOMAIN shown.parts = {}
    BY <1>0, <1>4 DEF ShownIsOfSegs, Send
  <2> QED
    BY <1>0, <1>4, <2>1, <2>2, <2>3 DEF IInv, TypeOK, NoContentYet, SegsAreOfContent, ShownIsOfSegs, Send
<1>5. CASE SendFail
  BY <1>0, <1>5 DEF IInv, TypeOK, NoContentYet, SegsAreOfContent, ShownIsOfSegs, SendFail, MediaOf
<1>6. CASE Convert
  <2>1. at = "sent" /\ UNCHANGED <<content, segs>> /\ segs \in Seq(Segments)
    BY <1>0, <1>6 DEF Convert, TypeOK
  <2>2. CASE at' = "panic" /\ UNCHANGED <<shown, unknown>>
    BY <1>0, <2>1, <2>2 DEF IInv, TypeOK, NoContentYet, SegsAreOfContent, ShownIsOfSegs, MediaOf
  <2>3. CASE at' = "shown" /\ \E env \in EnvsOf(segs) : unknown' = env.missing /\ shown' = ToMatrix(segs, env)
    <3>1. PICK env \in EnvsOf(segs) : unknown' = env.missing /\ shown' = ToMatrix(segs, env)
      BY <2>3
    <3>2. unknown' \subseteq Users
      BY <3>1 DEF EnvsOf
    <3>3. TypeOK'
      <4>1. /\ \A k \in DOMAIN shown'.parts :
                 /\ shown'.parts[k].kind \in {"text", "media", "failure", "location"}
                 /\ shown'.parts[k].users \subseteq Users
                 /\ shown'.parts[k].of \in {0} \cup MediaOf(segs)
                 /\ shown'.parts[k].kind \in {"media", "failure"} <=> shown'.parts[k].of # 0
            /\ DOMAIN shown'.parts # {}
            /\ shown'.reply = None \/ shown'.reply \in {Chat} \X MsgIDs
        BY <2>1, <3>1, ToMatrixTypes, Zenon
      <4>2. MediaOf(segs)' = MediaOf(segs)
        BY <2>1 DEF MediaOf
      <4> QED
        BY <1>0, <2>1, <2>3, <3>2, <4>1, <4>2 DEF TypeOK
    <3>4. ShownIsOfSegs'
      BY <2>1, <2>3, <3>1 DEF ShownIsOfSegs
    <3>5. NoContentYet' /\ SegsAreOfContent'
      BY <1>0, <2>1, <2>3 DEF NoContentYet, SegsAreOfContent
    <3> QED
      BY <3>3, <3>4, <3>5 DEF IInv
  <2>4. \/ at' = "panic" /\ UNCHANGED <<shown, unknown>>
        \/ at' = "shown" /\ \E env \in EnvsOf(segs) : unknown' = env.missing /\ shown' = ToMatrix(segs, env)
    <3>1. PICK fails \in SUBSET (DOMAIN segs), nodes \in 0..2,
               missing \in SUBSET {segs[i].id : i \in Mentioned(segs)} :
            \/ at' = "panic" /\ UNCHANGED <<shown, unknown>>
            \/ /\ at' = "shown" /\ unknown' = missing
               /\ shown' = ToMatrix(segs, [fails |-> fails, nodes |-> nodes, missing |-> missing])
      BY <1>6, Zenon DEF Convert
    <3> DEFINE env == [fails |-> fails, nodes |-> nodes, missing |-> missing]
    <3>2. {segs[i].id : i \in Mentioned(segs)} \subseteq Users
      <4>1. \A i \in DOMAIN segs : segs[i] \in Segments
        BY <2>1
      <4> QED
        BY <4>1, SegmentFacts DEF Mentioned
    <3>3. env \in EnvsOf(segs) /\ env.missing = missing
      BY <3>2 DEF EnvsOf
    <3> HIDE DEF env
    <3> QED
      BY <3>1, <3>3 DEF env
  <2> QED
    BY <2>2, <2>3, <2>4
<1> QED
  BY <1>1, <1>2, <1>3, <1>4, <1>5, <1>6 DEF Next

(* The inductive invariant holds. *)
THEOREM Invariance == Spec => []IInv
BY InitIInv, NextIInv, PTL DEF Spec

(* Every state is of the declared types: a medium's part belongs to a      *)
(* media segment, only users are mentioned, and something is shown.        *)
THEOREM TypeCorrect == Spec => []TypeOK
<1>1. IInv => TypeOK
  BY DEF IInv
<1> QED
  BY <1>1, Invariance, PTL

(* The parts of a message have different ids, but for a forwarded chat's.  *)
THEOREM PartsApart == Spec => []PartsAreKeptApart
<1>1. IInv => PartsAreKeptApart
  <2> SUFFICES ASSUME IInv, ParseMessageType(segs) # "app",
                      NEW j \in DOMAIN shown.parts, NEW k \in DOMAIN shown.parts,
                      shown.parts[j].id = shown.parts[k].id
               PROVE  j = k
    BY DEF PartsAreKeptApart
  <2>1. at = "shown"
    <3>1. at # "shown" => DOMAIN shown.parts = {}
      BY DEF IInv, ShownIsOfSegs
    <3> QED
      BY <3>1
  <2>2. PICK env \in EnvsOf(segs) : env.missing = unknown /\ shown = ToMatrix(segs, env)
    BY <2>1 DEF IInv, ShownIsOfSegs
  <2>3. segs \in Seq(Segments)
    BY DEF IInv, TypeOK
  <2> DEFINE ps == PartsOf(segs, env)
  <2>4. DOMAIN shown.parts = DOMAIN ps /\ \A i \in DOMAIN ps : shown.parts[i].id = ps[i].id
    <3>1. DOMAIN ToMatrix(segs, env).parts = DOMAIN ps
      BY ShownDomain
    <3>2. ASSUME NEW i \in DOMAIN ps PROVE ToMatrix(segs, env).parts[i].id = ps[i].id
      BY ShownFacts
    <3> HIDE DEF ps
    <3> QED
      BY <2>2, <3>1, <3>2
  <2>5. \A h, i \in DOMAIN ps : ps[h].id = ps[i].id => h = i
    BY <2>3, PartsOfFacts, Zenon
  <2> HIDE DEF ps
  <2> QED
    BY <2>4, <2>5
<1> QED
  BY <1>1, Invariance, PTL

-----------------------------------------------------------------------------
(* Nothing is left out. *)

(* What is typed as a text is sent as text and mentions. *)
LEMMA TextTypes ==
  ASSUME NEW c \in Contents, NEW i \in DOMAIN c.body
  PROVE  TextSegments(c)[i].type \in {"text", "at"}
<1>1. PICK tok \in Texts \cup Names : TextSegments(c)[i] = Split(c, tok)
  BY TextSegmentsFacts
<1>2. \/ Split(c, tok) = Text(tok)
      \/ Split(c, tok) = At("all", "all")
      \/ \E f \in Mentions(c) : Split(c, tok) = At(c.body[f].x, tok.x)
  BY SplitFacts
<1>3. Text(tok).type = "text" /\ \A id, num : At(id, num).type = "at"
  BY DEF Text, At
<1> QED
  BY <1>1, <1>2, <1>3

(* A card, a place or a forwarded chat has nothing beside it but what it   *)
(* replies to, on both ways.                                               *)
SpecialTypes == {"location card", "xml", "forward", "location"}

(* Those of QQ because QQ sends them so, those of Matrix as ToQQ makes     *)
(* them so.                                                                *)
LEMMA SpecialAlone ==
  ASSUME IInv, at = "shown", NEW i \in DOMAIN segs, NEW j \in DOMAIN segs, j # i,
         segs[i].type \in SpecialTypes
  PROVE  segs[j].type = "reply"
<1>1. CASE content = None
  <2>1. segs \in Messages
    BY <1>1 DEF IInv, SegsAreOfContent
  <2>2. \A m \in Messages : \A h \in DOMAIN m :
          m[h].type \in SpecialTypes => \A k \in DOMAIN m : k # h => m[k].type = "reply"
    BY ConversionAssumption DEF SpecialTypes
  <2> QED
    BY <2>1, <2>2
<1>2. CASE content # None
  <2> DEFINE c == content
             ss == ToQQ(c)
  <2>1. /\ c \in Contents /\ c.type # "unsupported"
        /\ segs = WithReply(c.reply, ss)
    BY <1>2 DEF IInv, TypeOK, SegsAreOfContent
  <2>2. ss \in Seq(Segments) /\ (c.type # "text" => Len(ss) = 1)
    BY <2>1, ToQQFacts
  <2>3. CASE c.reply = None
    <3>1. segs = ss
      BY <2>1, <2>2, <2>3, WithReplyFacts
    <3>2. CASE c.type = "text"
      <4>1. ss = TextSegments(c) /\ DOMAIN ss = DOMAIN c.body
        BY <3>2 DEF ToQQ, TextSegments
      <4>2. segs[i].type \in {"text", "at"}
        BY <2>1, <3>1, <4>1, TextTypes
      <4> QED
        BY <4>2 DEF SpecialTypes
    <3>3. CASE c.type # "text"
      <4> HIDE DEF ss, c
      <4> QED
        BY <2>2, <3>1, <3>3
    <3> QED
      BY <3>2, <3>3
  <2>4. CASE c.reply # None
    <3>1. /\ Len(segs) = Len(ss) + 1
          /\ segs[1] = Reply(c.reply[2])
          /\ \A h \in 1..Len(ss) : segs[h + 1] = ss[h]
          /\ segs \in Seq(Segments)
      BY <2>1, <2>2, <2>4, WithReplyFacts
    <3>2. segs[1].type = "reply"
      BY <3>1 DEF Reply
    <3>3. i # 1 /\ i - 1 \in 1..Len(ss) /\ segs[i] = ss[i - 1]
      <4>1. i # 1
        BY <3>2 DEF SpecialTypes
      <4> HIDE DEF ss, c
      <4> QED
        BY <2>2, <3>1, <4>1
    <3>4. c.type # "text"
      <4> SUFFICES ASSUME c.type = "text" PROVE FALSE
        OBVIOUS
      <4>1. ss = TextSegments(c) /\ DOMAIN ss = DOMAIN c.body
        BY DEF ToQQ, TextSegments
      <4>2. i - 1 \in DOMAIN c.body
        BY <2>2, <3>3, <4>1
      <4>3. segs[i].type \in {"text", "at"}
        BY <2>1, <3>3, <4>1, <4>2, TextTypes
      <4> QED
        BY <4>3 DEF SpecialTypes
    <3> HIDE DEF ss, c
    <3>5. i = 2 /\ j \in 1..2
      BY <2>2, <3>1, <3>3, <3>4
    <3> QED
      BY <3>2, <3>5
  <2> QED
    BY <2>3, <2>4
<1> QED
  BY <1>1, <1>2

(* Where no number begins with one that is mentioned, a mention of a known *)
(* user becomes a link, and other text stays or becomes the link it names. *)
LEMMA NamedClear ==
  ASSUME NEW ss \in Seq(Segments), Clear(ss), NEW missing, NEW n \in DOMAIN ss
  PROVE  LET tok == TokenOf(ss[n])
         IN  \/ Named(ss, missing, tok) = tok /\ n \notin Known(ss, missing)
             \/ Named(ss, missing, tok) = Pill(tok.x) /\ tok.t = "at"
<1> DEFINE tok == TokenOf(ss[n])
           fits == {i \in Known(ss, missing) : tok.t = "at" /\ Starts(ss[i].id, tok.x)}
           u == ss[First(fits)].id
<1>1. Named(ss, missing, tok) = IF fits = {} THEN tok ELSE IF u = tok.x THEN Pill(u) ELSE Cut(u, tok.x)
  BY DEF Named
<1>2. \A i \in DOMAIN ss : ss[i] \in Segments /\ i \in Nat
  OBVIOUS
<1>3. n \in Known(ss, missing) => fits # {}
  <2> SUFFICES ASSUME n \in Known(ss, missing) PROVE n \in fits
    OBVIOUS
  <2>1. tok = AtText(ss[n].num)
    BY <1>2, TokenFacts DEF Mentioned, Known
  <2>2. tok.t = "at" /\ tok.x = ss[n].num
    BY <2>1 DEF AtText, Token
  <2>3. ss[n].num = ss[n].id \/ <<ss[n].id, ss[n].num>> \in Begin
    BY <1>2, SegmentFacts DEF Mentioned, Known
  <2> QED
    BY <2>2, <2>3 DEF Starts
<1>4. CASE fits = {}
  BY <1>1, <1>3, <1>4
<1>5. CASE fits # {}
  <2>1. fits \in SUBSET Nat
    BY <1>2 DEF Mentioned, Known
  <2>2. First(fits) \in fits
    BY <1>5, <2>1, FirstFacts
  <2>3. First(fits) \in Mentioned(ss) /\ tok.t = "at" /\ Starts(u, tok.x)
    BY <2>2 DEF Known
  <2>4. <<u, tok.x>> \notin Begin
    BY <2>3 DEF Clear
  <2>5. u = tok.x
    BY <2>3, <2>4 DEF Starts
  <2> HIDE DEF fits, u, tok
  <2>6. Named(ss, missing, tok) = Pill(tok.x)
    BY <1>1, <1>5, <2>5
  <2> QED
    BY <2>3, <2>6 DEF tok
<1> QED
  BY <1>4, <1>5

(* Of a card that stands alone the first segment is everything. *)
LEMMA FirstIsAll ==
  ASSUME IInv, at = "shown", NEW n \in DOMAIN segs, TokenOf(segs[n]) # Blank,
         segs[1].type \in SpecialTypes
  PROVE  FirstOnly(segs)[n] = TokenOf(segs[n])
<1>1. segs \in Seq(Segments)
  BY DEF IInv, TypeOK
<1>2. segs[n] \in Segments /\ 1 \in DOMAIN segs
  BY <1>1
<1>3. segs[n].type # "reply"
  BY <1>2, TokenFacts
<1>4. n = 1
  BY <1>2, <1>3, SpecialAlone
<1>5. TokenOf(segs[1]) = Label(segs[1].type)
  BY <1>2, <1>4, TokenFacts DEF SpecialTypes
<1> QED
  BY <1>4, <1>5 DEF FirstOnly

(* No segment is left out, whatever fails, and each mentioned user is      *)
(* mentioned in every part.                                                *)
THEOREM NothingLeftOut == Spec => []NothingIsLeftOut
<1>1. IInv => NothingIsLeftOut
  <2> SUFFICES ASSUME IInv, at = "shown", Clear(segs),
                      ParseMessageType(segs) = "location" => segs[1].type = "location",
                      NEW n \in DOMAIN segs
               PROVE  /\ TokenOf(segs[n]) # Blank => IsShown(n)
                      /\ n \in Known(segs, unknown) =>
                           \A k \in DOMAIN shown.parts : segs[n].id \in shown.parts[k].users
    BY DEF NothingIsLeftOut
  <2>1. PICK env \in EnvsOf(segs) : env.missing = unknown /\ shown = ToMatrix(segs, env)
    BY DEF IInv, ShownIsOfSegs
  <2>2. segs \in Seq(Segments)
    BY DEF IInv, TypeOK
  <2> DEFINE ps == PartsOf(segs, env)
  <2>3. /\ DOMAIN shown.parts = DOMAIN ps
        /\ \A k \in DOMAIN ps : /\ shown.parts[k].of = ps[k].of
                                /\ shown.parts[k].body = BodyOf(segs, unknown, ps[k])
                                /\ shown.parts[k].users = UsersOf(segs, unknown)
    BY <2>1, ShownDomain, ShownFacts
  <2>4. ASSUME n \in Known(segs, unknown), NEW k \in DOMAIN shown.parts
        PROVE  segs[n].id \in shown.parts[k].users
    BY <2>3, <2>4 DEF UsersOf
  <2>5. ASSUME NEW k \in DOMAIN ps, ps[k].body[n] = TokenOf(segs[n])
        PROVE  IsShown(n)
    <3>1. shown.parts[k].body[n] = Named(segs, unknown, TokenOf(segs[n]))
      BY <2>3, <2>5 DEF BodyOf
    <3> QED
      BY <2>2, <2>3, <3>1, NamedClear DEF IsShown
  <2>6. ASSUME TokenOf(segs[n]) # Blank PROVE IsShown(n)
    <3>1. CASE ParseMessageType(segs) = "media"
      <4>1. ps = ConvertMediaWithCaption(segs, env.fails)
        BY <3>1 DEF PartsOf
      <4>2. /\ MediaOf(segs) \subseteq DOMAIN ps
            /\ \A k \in MediaOf(segs) : ps[k].of = k
            /\ Caption(segs) # NoText(segs) => \E k \in DOMAIN ps : ps[k].body = Caption(segs)
        BY <2>2, <4>1, MediaPartsFacts
      <4>3. CASE n \in MediaOf(segs)
        BY <2>3, <4>2, <4>3 DEF IsShown
      <4>4. CASE n \notin MediaOf(segs)
        <5>1. Caption(segs)[n] = TokenOf(segs[n])
          BY <4>4 DEF Caption, MediaOf
        <5>2. NoText(segs)[n] = Blank
          BY DEF NoText
        <5>3. Caption(segs) # NoText(segs)
          BY <2>6, <5>1, <5>2
        <5> QED
          BY <2>5, <4>2, <5>1, <5>3
      <4> QED
        BY <4>3, <4>4
    <3>2. CASE ParseMessageType(segs) = "app"
      <4>1. ps = ConvertApp(segs, env.nodes) /\ env.nodes \in 0..2
        BY <3>2 DEF PartsOf, EnvsOf
      <4>2. /\ 1 \in DOMAIN ps
            /\ \/ ps[1].body = FirstOnly(segs) /\ segs[1].type \in SpecialTypes
               \/ ps[1].body = ToContent(segs)
        BY <2>2, <4>1, AppPartsFacts DEF SpecialTypes
      <4>3. ToContent(segs)[n] = TokenOf(segs[n])
        BY DEF ToContent
      <4> QED
        BY <2>5, <2>6, <4>2, <4>3, FirstIsAll
    <3>3. CASE ParseMessageType(segs) = "location"
      <4>1. ps = Only(Part("location", FirstOnly(segs)))
        BY <3>3 DEF PartsOf, ConvertLocation
      <4>2. 1 \in DOMAIN ps /\ ps[1].body = FirstOnly(segs)
        BY <4>1, OnlyFacts
      <4>3. segs[1].type \in SpecialTypes
        BY <3>3 DEF SpecialTypes
      <4> QED
        BY <2>5, <2>6, <4>2, <4>3, FirstIsAll
    <3>4. CASE ParseMessageType(segs) \notin {"media", "app", "location"}
      <4>1. ps = Only(Part("text", ToContent(segs)))
        BY <3>4 DEF PartsOf, ConvertText
      <4>2. 1 \in DOMAIN ps /\ ps[1].body = ToContent(segs)
        BY <4>1, OnlyFacts
      <4>3. ToContent(segs)[n] = TokenOf(segs[n])
        BY DEF ToContent
      <4> QED
        BY <2>5, <4>2, <4>3
    <3> QED
      BY <3>1, <3>2, <3>3, <3>4
  <2> QED
    BY <2>4, <2>6
<1> QED
  BY <1>1, Invariance, PTL

-----------------------------------------------------------------------------
(* Texts arrive. *)

(* What a token of the text is to the one who reads it. *)
Read(c, i) ==
  IF c.body[i].t = "pill" /\ i \notin Mentions(c) THEN Name(c.body[i].x) ELSE c.body[i]

(* Each token is sent as the mention it is, or as text in which nobody's   *)
(* number is found.                                                        *)
LEMMA SentToken ==
  ASSUME NEW c \in Contents, ~c.room, Unambiguous(c), NEW i \in DOMAIN c.body
  PROVE  /\ i \in Mentions(c) => TextSegments(c)[i] = At(c.body[i].x, c.body[i].x)
         /\ i \notin Mentions(c) =>
              /\ TextSegments(c)[i] = Text(Read(c, i))
              /\ Read(c, i).t = "at" => \A f \in Mentions(c) : ~Starts(c.body[f].x, Read(c, i).x)
         /\ i \in Mentions(c) => Read(c, i) = Pill(c.body[i].x) /\ c.body[i].x \in Users
<1>1. PICK tok \in Texts \cup Names : tok = ParseText(c)[i] /\ TextSegments(c)[i] = Split(c, tok)
  BY TextSegmentsFacts
<1>2. CASE i \in Mentions(c)
  <2>1. c.body[i] = Pill(c.body[i].x) /\ c.body[i].x \in Users /\ tok = AtText(c.body[i].x)
    BY <1>1, <1>2, BodyFacts
  <2>2. tok.t = "at" /\ tok.x = c.body[i].x
    BY <2>1 DEF AtText, Token
  <2>3. PICK f \in Mentions(c) : /\ Starts(c.body[f].x, tok.x)
                                 /\ Split(c, tok) = At(c.body[f].x, tok.x)
    <3>1. Starts(c.body[i].x, tok.x)
      BY <2>2 DEF Starts
    <3> QED
      BY <1>2, <2>2, <3>1, SplitFacts
  <2>4. c.body[f].x = c.body[i].x
    BY <1>2, <2>2, <2>3 DEF Unambiguous, Starts
  <2>5. Read(c, i) = c.body[i]
    BY <1>2 DEF Read
  <2> QED
    BY <1>1, <1>2, <2>1, <2>2, <2>3, <2>4, <2>5
<1>3. CASE i \notin Mentions(c)
  <2>1. tok = Read(c, i) /\ (tok.t = "at" => c.body[i] = AtText(tok.x) /\ c.body[i].t = "at" /\ c.body[i].x = tok.x)
    <3>1. CASE c.body[i].t # "pill" /\ tok = c.body[i] /\ (tok.t = "at" => tok = AtText(tok.x))
      BY <3>1 DEF Read
    <3>2. CASE c.body[i] = Pill(c.body[i].x) /\ tok = Name(c.body[i].x)
      <4>1. c.body[i].t = "pill" /\ tok.t = "name"
        BY <3>2 DEF Pill, Name, Token
      <4> QED
        BY <1>3, <3>2, <4>1 DEF Read
    <3> QED
      BY <1>1, <1>3, <3>1, <3>2, BodyFacts
  <2>2. tok.t = "at" => \A f \in Mentions(c) : ~Starts(c.body[f].x, tok.x)
    BY <2>1 DEF Unambiguous, Starts
  <2>3. Split(c, tok) = Text(tok)
    BY <2>2, SplitFacts
  <2> QED
    BY <1>1, <1>3, <2>1, <2>2, <2>3
<1> QED
  BY <1>2, <1>3

(* Where the text is in what is sent: behind what it replies to. *)
Behind(c) == IF c.reply = None THEN 0 ELSE 1

(* The segments of a text, and the mentions among them. *)
LEMMA SentText ==
  ASSUME NEW c \in Contents, ~c.room, Unambiguous(c), NEW ss, ss = WithReply(c.reply, TextSegments(c))
  PROVE  /\ ss \in Seq(Segments) /\ Len(ss) = Len(c.body) + Behind(c)
         /\ DOMAIN c.body = 1..Len(c.body) /\ Len(c.body) \in Nat
         /\ \A i \in DOMAIN c.body : i + Behind(c) \in DOMAIN ss /\ ss[i + Behind(c)] = TextSegments(c)[i]
         /\ c.reply # None => 1 \in DOMAIN ss /\ ss[1] = Reply(c.reply[2])
         /\ \A h \in DOMAIN ss : /\ h - Behind(c) \in DOMAIN c.body \/ (c.reply # None /\ h = 1)
                                 /\ ss[h].type = "reply" => c.reply # None
                                 /\ ss[h].type \in {"text", "at", "reply"}
         /\ \A h \in DOMAIN ss : ss[h].type = "at" =>
              /\ h - Behind(c) \in Mentions(c)
              /\ ss[h].id = c.body[h - Behind(c)].x /\ ss[h].id \in Users
         /\ \A i \in Mentions(c) : i + Behind(c) \in Mentioned(ss) /\ ss[i + Behind(c)].id = c.body[i].x
<1> DEFINE T == TextSegments(c)
           o == Behind(c)
<1>1. T \in Seq(Segments) /\ Len(T) = Len(c.body) /\ o \in {0, 1} /\ DOMAIN T = 1..Len(T) /\ Len(T) \in Nat
  BY TextSegmentsFacts DEF Behind
<1>2. c.body \in Seq(Texts \cup Pills)
  BY MentionsFacts
<1>3. DOMAIN c.body = 1..Len(c.body)
  BY <1>2
<1>4. /\ ss \in Seq(Segments)
      /\ c.reply = None => o = 0 /\ ss = T
      /\ c.reply # None => /\ o = 1 /\ Len(ss) = Len(T) + 1 /\ ss[1] = Reply(c.reply[2])
                           /\ \A i \in 1..Len(T) : ss[i + 1] = T[i]
  BY <1>1, WithReplyFacts DEF Behind
<1> HIDE DEF T, o
<1>5. Len(ss) = Len(T) + o /\ DOMAIN ss = 1..Len(ss)
  BY <1>1, <1>4
<1>6. \A i \in DOMAIN c.body : i + o \in DOMAIN ss /\ ss[i + o] = T[i]
  BY <1>1, <1>3, <1>4, <1>5
<1>7. c.reply # None => 1 \in DOMAIN ss
  BY <1>1, <1>4, <1>5
<1>8. \A h \in DOMAIN ss : \/ h - o \in DOMAIN c.body /\ ss[h] = T[h - o] /\ h = (h - o) + o
                           \/ c.reply # None /\ h = 1
  <2>1. CASE c.reply = None
    BY <1>1, <1>3, <1>4, <1>5, <2>1
  <2>2. CASE c.reply # None
    <3> SUFFICES ASSUME NEW h \in DOMAIN ss, h # 1
                 PROVE  h - 1 \in 1..Len(T) /\ h = (h - 1) + 1
      BY <1>1, <1>3, <1>4, <2>2
    <3> QED
      BY <1>1, <1>4, <1>5, <2>2
  <2> QED
    BY <2>1, <2>2
<1>9. /\ Reply(c.reply[2]).type = "reply"
      /\ \A i \in DOMAIN c.body : T[i].type \in {"text", "at"}
  BY TextTypes DEF Reply, T
<1>10. \A h \in DOMAIN ss : ss[h].type \in {"text", "at", "reply"} /\ (ss[h].type = "reply" => c.reply # None)
  BY <1>4, <1>8, <1>9
<1>11. ASSUME NEW i \in DOMAIN c.body
       PROVE  /\ T[i].type = "at" => i \in Mentions(c) /\ T[i].id = c.body[i].x /\ T[i].id \in Users
              /\ i \in Mentions(c) => T[i].type = "at" /\ T[i].id = c.body[i].x /\ T[i].id \in Users
  <2>1. CASE i \in Mentions(c)
    <3>1. T[i] = At(c.body[i].x, c.body[i].x) /\ c.body[i].x \in Users
      BY <2>1, SentToken DEF T
    <3> QED
      BY <2>1, <3>1 DEF At
  <2>2. CASE i \notin Mentions(c)
    <3>1. T[i] = Text(Read(c, i))
      BY <2>2, SentToken DEF T
    <3> QED
      BY <2>2, <3>1 DEF Text
  <2> QED
    BY <2>1, <2>2
<1>12. \A h \in DOMAIN ss : ss[h].type = "at" =>
         h - o \in Mentions(c) /\ ss[h].id = c.body[h - o].x /\ ss[h].id \in Users
  BY <1>4, <1>8, <1>9, <1>11
<1>13. None \notin Users /\ "all" \notin Users /\ Mentions(c) \subseteq DOMAIN c.body
  BY ConversionAssumption DEF Mentions
<1>14. \A i \in Mentions(c) : i + o \in Mentioned(ss) /\ ss[i + o].id = c.body[i].x
  BY <1>6, <1>11, <1>13 DEF Mentioned
<1> QED
  BY <1>1, <1>2, <1>3, <1>4, <1>5, <1>6, <1>7, <1>8, <1>10, <1>12, <1>14 DEF T, o

(* Each token is shown as it is read in Matrix. *)
LEMMA ShownToken ==
  ASSUME NEW c \in Contents, ~c.room, Unambiguous(c), NEW ss, ss = WithReply(c.reply, TextSegments(c)),
         NEW i \in DOMAIN c.body
  PROVE  Named(ss, {}, TokenOf(ss[i + Behind(c)])) = Read(c, i)
<1> DEFINE o == Behind(c)
           tok == TokenOf(ss[i + o])
           fits == {h \in Known(ss, {}) : tok.t = "at" /\ Starts(ss[h].id, tok.x)}
           u == ss[First(fits)].id
<1>1. Named(ss, {}, tok) = IF fits = {} THEN tok ELSE IF u = tok.x THEN Pill(u) ELSE Cut(u, tok.x)
  BY DEF Named
<1>2. /\ ss[i + o] = TextSegments(c)[i]
      /\ Known(ss, {}) \subseteq Nat
      /\ \A h \in Known(ss, {}) : h - o \in Mentions(c) /\ ss[h].id = c.body[h - o].x
      /\ \A j \in Mentions(c) : j + o \in Known(ss, {}) /\ ss[j + o].id = c.body[j].x
  <2>1. DOMAIN ss \subseteq Nat
    <3>1. ss \in Seq(Segments)
      BY SentText
    <3> QED
      BY <3>1
  <2> QED
    BY <2>1, SentText DEF Mentioned, Known
<1>3. CASE i \in Mentions(c)
  <2>1. /\ ss[i + o] = At(c.body[i].x, c.body[i].x) /\ c.body[i].x \in Users
        /\ Read(c, i) = Pill(c.body[i].x)
    BY <1>2, <1>3, SentToken
  <2>2. c.body[i].x # None /\ c.body[i].x # "all"
    BY <2>1, ConversionAssumption
  <2>3. tok = AtText(c.body[i].x)
    BY <2>1, <2>2 DEF TokenOf, At
  <2>4. tok.t = "at" /\ tok.x = c.body[i].x
    BY <2>3 DEF AtText, Token
  <2>5. i + o \in fits
    BY <1>2, <1>3, <2>4 DEF Starts
  <2>6. First(fits) \in fits
    <3>1. fits \in SUBSET Nat
      BY <1>2
    <3> QED
      BY <2>5, <3>1, FirstFacts
  <2>7. First(fits) \in Known(ss, {}) /\ Starts(u, tok.x)
    BY <2>6
  <2>8. u = tok.x
    BY <1>2, <1>3, <2>4, <2>7 DEF Unambiguous, Starts
  <2>9. fits # {}
    BY <2>5
  <2> HIDE DEF fits, u, tok
  <2> QED
    BY <1>1, <2>1, <2>4, <2>8, <2>9 DEF tok
<1>4. CASE i \notin Mentions(c)
  <2>1. ss[i + o] = Text(Read(c, i))
    BY <1>2, <1>4, SentToken
  <2>2. tok = Read(c, i)
    BY <2>1 DEF TokenOf, Text
  <2>3. tok.t = "at" => \A f \in Mentions(c) : ~Starts(c.body[f].x, tok.x)
    BY <1>4, <2>2, SentToken
  <2>4. fits = {}
    BY <1>2, <2>3
  <2> QED
    BY <1>1, <2>2, <2>4
<1> QED
  BY <1>3, <1>4

(* What is shown of the text is what was typed. *)
LEMMA ShownText ==
  ASSUME NEW c \in Contents, ~c.room, Unambiguous(c), NEW ss, ss = WithReply(c.reply, TextSegments(c))
  PROVE  [h \in DOMAIN ss |-> Named(ss, {}, ToContent(ss)[h])] = Rendered(c)
<1> DEFINE text == [i \in DOMAIN c.body |-> Read(c, i)]
           body == [h \in DOMAIN ss |-> Named(ss, {}, ToContent(ss)[h])]
<1>1. Rendered(c) = IF c.reply = None THEN text ELSE <<Blank>> \o text
  BY DEF Rendered, Read
<1>2. /\ ss \in Seq(Segments) /\ Len(ss) = Len(c.body) + Behind(c)
      /\ DOMAIN c.body = 1..Len(c.body) /\ Len(c.body) \in Nat
      /\ c.reply # None => 1 \in DOMAIN ss /\ ss[1] = Reply(c.reply[2])
  BY SentText
<1>3. \A h \in DOMAIN ss : body[h] = Named(ss, {}, TokenOf(ss[h]))
  BY DEF ToContent
<1>4. \A i \in DOMAIN c.body : Named(ss, {}, TokenOf(ss[i + Behind(c)])) = Read(c, i)
  BY ShownToken
<1>5. DOMAIN ss = 1..Len(ss)
  BY <1>2
<1>6. CASE c.reply = None
  <2>1. Behind(c) = 0
    BY <1>6 DEF Behind
  <2>2. DOMAIN ss = DOMAIN c.body
    BY <1>2, <1>5, <2>1
  <2>3. \A h \in DOMAIN ss : body[h] = Read(c, h)
    <3> SUFFICES ASSUME NEW h \in DOMAIN ss PROVE body[h] = Read(c, h)
      OBVIOUS
    <3>1. h \in DOMAIN c.body /\ h + Behind(c) = h
      BY <1>2, <2>1, <2>2
    <3>2. Named(ss, {}, TokenOf(ss[h])) = Read(c, h)
      BY <1>4, <3>1
    <3> QED
      BY <1>3, <3>2
  <2> QED
    BY <1>1, <1>6, <2>2, <2>3
<1>7. CASE c.reply # None
  <2>1. Behind(c) = 1
    BY <1>7 DEF Behind
  <2>2. DOMAIN ss = 1..(Len(c.body) + 1)
    BY <1>2, <1>5, <2>1
  <2>3. body[1] = Blank
    <3>1. TokenOf(ss[1]) = Blank
      BY <1>2, <1>7 DEF TokenOf, Reply
    <3>2. Blank.t # "at"
      BY DEF Blank, Token
    <3>3. Named(ss, {}, Blank) = Blank
      BY <3>2 DEF Named
    <3> QED
      BY <1>2, <1>3, <1>7, <3>1, <3>3
  <2>4. ASSUME NEW h \in 1..(Len(c.body) + 1), h # 1 PROVE body[h] = text[h - 1]
    <3>1. h - 1 \in DOMAIN c.body /\ h = (h - 1) + 1
      BY <1>2, <2>4
    <3>2. Named(ss, {}, TokenOf(ss[h])) = Read(c, h - 1)
      BY <1>4, <2>1, <3>1
    <3> QED
      BY <1>3, <2>2, <3>1, <3>2
  <2>5. text \in Seq({text[i] : i \in DOMAIN c.body}) /\ Len(text) = Len(c.body)
    BY <1>2
  <2> HIDE DEF text
  <2>6. <<Blank>> \o text = [h \in 1..(Len(c.body) + 1) |-> IF h = 1 THEN Blank ELSE text[h - 1]]
    <3> DEFINE all == {Blank} \cup {text[i] : i \in DOMAIN c.body}
               both == <<Blank>> \o text
    <3>1. text \in Seq(all)
      BY <1>2, <2>5
    <3>2. <<Blank>> \in Seq(all) /\ Len(<<Blank>>) = 1 /\ <<Blank>>[1] = Blank
      OBVIOUS
    <3> HIDE DEF all
    <3>3. /\ both \in Seq(all) /\ Len(both) = Len(c.body) + 1
          /\ \A h \in 1..(Len(c.body) + 1) : both[h] = IF h = 1 THEN Blank ELSE text[h - 1]
      BY <1>2, <2>5, <3>1, <3>2
    <3> HIDE DEF both
    <3>4. both = [h \in 1..(Len(c.body) + 1) |-> both[h]]
      BY <1>2, <3>3
    <3> QED
      BY <3>3, <3>4 DEF both
  <2>7. body = [h \in 1..(Len(c.body) + 1) |-> IF h = 1 THEN Blank ELSE text[h - 1]]
    <3>1. body = [h \in DOMAIN ss |-> body[h]]
      OBVIOUS
    <3> HIDE DEF body
    <3> QED
      BY <2>2, <2>3, <2>4, <3>1
  <2> QED
    BY <1>1, <1>7, <2>6, <2>7
<1> QED
  BY <1>6, <1>7

(* A text from one user of the bridge to another arrives as it was typed. *)
THEOREM TextsArrive == Spec => []TextArrives
<1>1. IInv => TextArrives
  <2> SUFFICES ASSUME IInv, at = "shown", content # None, content.type = "text", ~content.room,
                      Unambiguous(content), unknown = {}
               PROVE  /\ DOMAIN shown.parts = {1}
                      /\ shown.parts[1].body = Rendered(content)
                      /\ shown.parts[1].users = {content.body[i].x : i \in Mentions(content)}
                      /\ ~shown.parts[1].room
                      /\ shown.reply = IF content.reply = None THEN None ELSE <<Chat, content.reply[2]>>
    BY DEF TextArrives
  <2>1. content \in Contents /\ segs = WithReply(content.reply, TextSegments(content))
    BY DEF IInv, TypeOK, SegsAreOfContent, ToQQ
  <2>2. PICK env \in EnvsOf(segs) : env.missing = unknown /\ shown = ToMatrix(segs, env)
    BY DEF IInv, ShownIsOfSegs
  <2>3. ParseMessageType(segs) = "text"
    <3>1. \A h \in DOMAIN segs : segs[h].type \in {"text", "at", "reply"}
      BY <2>1, SentText
    <3>2. {h \in DOMAIN segs : segs[h].type \in MediaTypes \cup AppTypes \cup {"location", "face"}} = {}
      BY <3>1 DEF MediaTypes, AppTypes
    <3> QED
      BY <3>2 DEF ParseMessageType
  <2>4. env.missing = {} /\ PartsOf(segs, env) = Only(Part("text", ToContent(segs)))
    BY <2>2, <2>3 DEF PartsOf, ConvertText
  <2> DEFINE part == Part("text", ToContent(segs))
  <2>5. /\ DOMAIN shown.parts = {1} /\ shown.reply = ReplyTo(segs)
        /\ shown.parts[1] = AddMentions(segs, {}, part)
        /\ part.body = ToContent(segs)
    <3>1. DOMAIN Only(part) = {1} /\ Only(part)[1] = part
      BY DEF Only
    <3>2. part.body = ToContent(segs)
      BY DEF Part
    <3> HIDE DEF part
    <3>3. PartsOf(segs, env) = Only(part)
      BY <2>4 DEF part
    <3>4. /\ DOMAIN shown.parts = DOMAIN PartsOf(segs, env) /\ shown.reply = ReplyTo(segs)
          /\ \A k \in DOMAIN PartsOf(segs, env) :
               shown.parts[k] = AddMentions(segs, {}, PartsOf(segs, env)[k])
      BY <2>2, <2>4, ShownDomain
    <3> QED
      BY <3>1, <3>2, <3>3, <3>4
  <2> HIDE DEF part
  <2>6. shown.parts[1].body = Rendered(content)
    <3>1. BodyOf(segs, {}, part) = [h \in DOMAIN segs |-> Named(segs, {}, ToContent(segs)[h])]
      BY <2>5 DEF BodyOf
    <3> QED
      BY <2>1, <2>5, <3>1, ShownText, AddMentionsFacts
  <2>7. \A h \in DOMAIN segs : segs[h].type = "at" =>
          /\ h - Behind(content) \in Mentions(content)
          /\ segs[h].id = content.body[h - Behind(content)].x /\ segs[h].id \in Users
    BY <2>1, SentText
  <2>8. \A i \in Mentions(content) :
          i + Behind(content) \in Mentioned(segs) /\ segs[i + Behind(content)].id = content.body[i].x
    BY <2>1, SentText
  <2>9. shown.parts[1].users = {content.body[i].x : i \in Mentions(content)}
    <3>1. shown.parts[1].users = {segs[h].id : h \in Mentioned(segs)}
      BY <2>5, AddMentionsFacts DEF UsersOf, Known
    <3> QED
      BY <2>7, <2>8, <3>1 DEF Mentioned
  <2>10. ~shown.parts[1].room
    <3>1. shown.parts[1].room = \E h \in DOMAIN segs : segs[h].type = "at" /\ segs[h].id = "all"
      BY <2>5 DEF AddMentions
    <3>2. "all" \notin Users
      BY ConversionAssumption
    <3> QED
      BY <2>7, <3>1, <3>2
  <2>11. shown.reply = IF content.reply = None THEN None ELSE <<Chat, content.reply[2]>>
    <3>1. segs \in Seq(Segments)
      BY <2>1, SentText
    <3>2. CASE content.reply = None
      <4>1. \A h \in DOMAIN segs : segs[h].type # "reply"
        BY <2>1, <3>2, SentText
      <4> QED
        BY <2>5, <3>1, <3>2, <4>1, ReplyToFacts
    <3>3. CASE content.reply # None
      <4>1. 1 \in DOMAIN segs /\ segs[1] = Reply(content.reply[2])
        BY <2>1, <3>3, SentText
      <4>2. segs[1].type = "reply" /\ segs[1].id = content.reply[2]
        BY <4>1 DEF Reply
      <4> QED
        BY <2>5, <3>1, <3>3, <4>1, <4>2, ReplyToFacts
    <3> QED
      BY <3>2, <3>3
  <2> QED
    BY <2>5, <2>6, <2>9, <2>10, <2>11
<1> QED
  BY <1>1, Invariance, PTL
=============================================================================
