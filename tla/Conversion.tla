----------------------------- MODULE Conversion -----------------------------
(***************************************************************************)
(* What becomes of a message's contents on the way from Matrix to QQ and   *)
(* from QQ to Matrix (pkg/msgconv/from_matrix.go, from_qq.go): ToQQ makes  *)
(* segments of what is typed, ToMatrix makes one part or several of what   *)
(* QQ reports.  A message typed in Matrix takes both ways when the         *)
(* receiver has the bridge too.                                            *)
(*                                                                         *)
(* Text is a sequence of tokens: words, and the "@..." of a mention, which *)
(* is what both converters search for.  A text segment is one for each of  *)
(* its tokens, so that a text, its segments and what is shown of them have *)
(* the same places.  QQ numbers are told apart only as far as one may      *)
(* begin with another.  Media, cards and places are what their segment's   *)
(* type says.  Formatting is left out.                                     *)
(***************************************************************************)
EXTENDS Naturals, Sequences, FiniteSets

CONSTANTS
  Users,     \* QQ numbers with a ghost or a login
  Begin,     \* <<i, j>>: the number i is how the longer number j begins
  Words,     \* text without mentions
  MsgIDs,    \* QQ's ids of messages
  Chat,      \* the portal's id
  Contents,  \* what is typed in Matrix
  Messages,  \* the segments of messages from QQ
  None

-----------------------------------------------------------------------------
(* Tokens. *)

Token(t, x) == [t |-> t, x |-> x]
AtText(x)   == Token("at", x)       \* "@" and a number, "@all" or "@room"
Pill(u)     == Token("pill", u)     \* in Matrix: a link to a user
Cut(u, x)   == Token("cut", <<u, x>>) \* a link to u, and the rest of the number x
Name(u)     == Token("name", u)     \* a user's name as plain text
Label(x)    == Token("label", x)    \* such as "[Image]", or the text of a card
Blank       == Token("blank", "")   \* no text

Texts == [t: {"word"}, x: Words] \cup [t: {"at"}, x: Users \cup {"all", "room"}]
Pills == [t: {"pill"}, x: Users]
Names == [t: {"name"}, x: Users]

(* "@j" begins with "@i". *)
Starts(i, j) == i = j \/ <<i, j>> \in Begin

(* The first of some places in a message. *)
First(places) == CHOOSE i \in places : \A j \in places : i <= j

-----------------------------------------------------------------------------
(* Segments. *)

Text(tok)        == [type |-> "text", text |-> tok]
At(id, num)      == [type |-> "at", id |-> id, num |-> num]  \* with what continues the number
Reply(id)        == [type |-> "reply", id |-> id]
Media(type, url) == [type |-> type, url |-> url]  \* with its URL, or a file id only
Card(type)       == [type |-> type]

MediaTypes == {"image", "mface", "record", "video", "file"}
AppTypes   == {"json", "location card", "xml", "forward", "node", "dice", "rps", "poke", "shake"}

Segments ==
  {Text(tok) : tok \in Texts \cup Names}
    \cup {At(x, x) : x \in Users \cup {"all", None}} \cup {At(p[1], p[2]) : p \in Begin}
    \cup {Reply(id) : id \in MsgIDs} \cup {Media(type, url) : type \in MediaTypes, url \in BOOLEAN}
    \cup {Card(type) : type \in AppTypes \cup {"location", "face"}}

(* What a message of each type is sent as. *)
SentAs == [image |-> "image", sticker |-> "image", video |-> "video", audio |-> "record",
           file |-> "file", location |-> "location"]

ASSUME ConversionAssumption ==
  /\ Begin \subseteq Users \X Users
  /\ {"all", "room"} \cap Users = {}
  /\ None \notin Contents \cup Users \cup {"all"}
  /\ \A c \in Contents :
       /\ c.type \in DOMAIN SentAs \cup {"text", "unsupported"}
       /\ c.body \in Seq(Texts \cup Pills)
       /\ c.reply = None \/ c.reply \in {Chat, "fake"} \X MsgIDs
  \* QQ sends cards, places and forwarded chats by themselves.
  /\ \A m \in Messages :
       /\ m \in Seq(Segments)
       /\ \A i \in DOMAIN m :
            m[i].type \in {"location card", "xml", "forward", "location"} =>
              \A j \in DOMAIN m : j # i => m[j].type = "reply"

VARIABLES
  at,       \* "start", "typed", "sent", "shown", "failed", "panic"
  content,  \* what was typed in Matrix, None for a message from QQ
  segs,     \* its segments in QQ
  shown,    \* what the receiver's room gets of it
  unknown   \* mentioned users whose ghost could not be looked up then

vars == <<at, content, segs, shown, unknown>>

(* The first segment that is not text decides.  A "location card" is JSON  *)
(* whose view is LocationShare.                                            *)
ParseMessageType(ss) ==
  LET typed == {i \in DOMAIN ss : ss[i].type \in MediaTypes \cup AppTypes \cup {"location", "face"}}
      type  == ss[First(typed)].type
  IN  IF typed = {} THEN "text"
      ELSE CASE type \in MediaTypes -> "media"
             [] type \in AppTypes   -> "app"
             [] OTHER               -> type

-----------------------------------------------------------------------------
(* From Matrix: ToQQ. *)

(* Pills of people who may not be mentioned stay text: convertPill. *)
Mentionable(c, tok) ==
  tok.t = "pill" /\ c.html /\ tok.x \in Users /\ (c.allowed = None \/ tok.x \in c.allowed)

(* parseText: the plain body has no pills, just names. *)
ParseText(c) ==
  [i \in DOMAIN c.body |-> CASE c.body[i].t # "pill"       -> c.body[i]
                             [] Mentionable(c, c.body[i]) -> AtText(c.body[i].x)
                             [] OTHER                     -> Name(c.body[i].x)]

Mentions(c) == {i \in DOMAIN c.body : Mentionable(c, c.body[i])}

(* Fault: every "@" and number becomes a mention. *)
SplitAnywhere(c, tok) ==
  IF tok.t = "at" /\ tok.x \in Users THEN At(tok.x, tok.x) ELSE Text(tok)

(* Splitting at the keywords: the regular expression takes the first one   *)
(* that fits, though a longer one may follow.  A mention of the room is    *)
(* looked for last, as "@all".                                             *)
Split(c, tok) ==
  LET fits == {i \in Mentions(c) : tok.t = "at" /\ Starts(c.body[i].x, tok.x)}
  IN  IF fits # {} THEN At(c.body[First(fits)].x, tok.x)
      ELSE IF c.room /\ tok = AtText("all") THEN At("all", "all") ELSE Text(tok)

(* constructTextMessage *)
TextSegments(c) == [i \in DOMAIN c.body |-> Split(c, ParseText(c)[i])]

(* HandleMatrixMessage cannot reply to what has an id of the bridge's own, *)
(* a notice; of other messages it takes the QQ id.                         *)
Replyable(mid) == mid # None => mid[1] # "fake"
WithReply(mid, ss) == IF mid = None THEN ss ELSE <<Reply(mid[2])>> \o ss

(* ToQQ, of what is not text once its media have been downloaded, or its   *)
(* place read.                                                             *)
ToQQ(c) ==
  CASE c.type = "text" -> TextSegments(c)
    [] c.type = "location" -> <<Card("location")>>
    [] OTHER -> <<Media(SentAs[c.type], TRUE)>>

-----------------------------------------------------------------------------
(* To Matrix: ToMatrix.  Parts are numbered in their order, by the places  *)
(* of their segments.                                                      *)

(* A part: its id, what it is, what it shows of each segment as text, and  *)
(* the media segment it is of.                                             *)
NoPartID == <<"none", 0>>
Part(kind, body) == [id |-> NoPartID, kind |-> kind, body |-> body, of |-> 0]
Only(part) == [k \in {1} |-> part]

TokenOf(s) ==
  CASE s.type = "text"  -> s.text
    [] s.type = "reply" -> Blank
    [] s.type = "at"    -> IF s.id = None THEN Blank
                           ELSE AtText(IF s.id = "all" THEN "room" ELSE s.num)
    [] OTHER            -> Label(s.type)

ToContent(ss) == [i \in DOMAIN ss |-> TokenOf(ss[i])]
NoText(ss)    == [i \in DOMAIN ss |-> Blank]
FirstOnly(ss) == [i \in DOMAIN ss |-> IF i = 1 THEN Label(ss[1].type) ELSE Blank]

ConvertText(ss) == Only(Part("text", ToContent(ss)))

(* reuploadAttachment of every media segment, or a notice that it failed. *)
MediaOf(ss) == {i \in DOMAIN ss : ss[i].type \in MediaTypes}
ConvertMedia(ss, fails) ==
  [i \in MediaOf(ss) |->
     [Part(IF i \in fails THEN "failure" ELSE "media", NoText(ss)) EXCEPT !.of = i]]

(* Fault: the parts are not numbered. *)
NumberedNot(parts) == parts

(* Several parts have ids of their own. *)
Numbered(parts) ==
  LET before(k) == Cardinality({j \in DOMAIN parts : j < k})
  IN  IF Cardinality(DOMAIN parts) <= 1 THEN parts
      ELSE [k \in DOMAIN parts |->
              IF parts[k].id = NoPartID THEN [parts[k] EXCEPT !.id = <<"media", before(k)>>]
              ELSE parts[k]]

(* Fault: the caption is what is left of the first media segment. *)
CaptionBefore(ss) ==
  [i \in DOMAIN ss |-> IF i # 1 \/ ss[i].type \in MediaTypes THEN Blank ELSE TokenOf(ss[i])]

Caption(ss) == [i \in DOMAIN ss |-> IF ss[i].type \in MediaTypes THEN Blank ELSE TokenOf(ss[i])]

(* convertMediaMessageWithCaption: the text goes with the one part, or is  *)
(* a part of its own, the last one.                                        *)
ConvertMediaWithCaption(ss, fails) ==
  LET media == ConvertMedia(ss, fails)
      text  == Caption(ss)
  IN  IF text = NoText(ss) THEN Numbered(media)
      ELSE IF Cardinality(MediaOf(ss)) = 1
             THEN [i \in MediaOf(ss) |-> [media[i] EXCEPT !.body = text]]
      ELSE Numbered([i \in MediaOf(ss) \cup {Len(ss) + 1} |->
                       IF i \in MediaOf(ss) THEN media[i]
                       ELSE [Part("text", text) EXCEPT !.id = <<"caption", 0>>]])

(* convertAppMessage looks at the first segment only.  GetForwardMessage   *)
(* gives the messages of a forwarded chat, or none.                        *)
ConvertApp(ss, nodes) ==
  CASE ss[1].type = "forward" /\ nodes > 0 -> [k \in 1..nodes |-> Part("text", FirstOnly(ss))]
    [] ss[1].type = "xml"                  -> Only(Part("text", FirstOnly(ss)))
    [] ss[1].type = "location card"        -> Only(Part("location", FirstOnly(ss)))
    [] OTHER                               -> ConvertText(ss)

(* convertOneBotLocationMessage, too: it takes a place from any segment.   *)
ConvertLocation(ss) == Only(Part("location", FirstOnly(ss)))

(* Fault: everybody is a user like others. *)
MentionedWithAll(ss) == {i \in DOMAIN ss : ss[i].type = "at" /\ ss[i].id # None}

Mentioned(ss) == {i \in DOMAIN ss : ss[i].type = "at" /\ ss[i].id \notin {None, "all"}}

(* getBasicUserInfo fails for a user whose ghost is missing: the mention is *)
(* skipped.  (For all parts of a message, or for none.)                    *)
Known(ss, missing) == {i \in Mentioned(ss) : ss[i].id \notin missing}

(* addMentions: names for numbers, one known user after the other, so the  *)
(* first one whose number fits is the one that a token names.              *)
Named(ss, missing, tok) ==
  LET fits == {i \in Known(ss, missing) : tok.t = "at" /\ Starts(ss[i].id, tok.x)}
      u    == ss[First(fits)].id
  IN  IF fits = {} THEN tok ELSE IF u = tok.x THEN Pill(u) ELSE Cut(u, tok.x)

AddMentions(ss, missing, part) ==
  [kind |-> part.kind, id |-> part.id, of |-> part.of,
   body |-> [i \in DOMAIN ss |-> Named(ss, missing, part.body[i])],
   users |-> {ss[i].id : i \in Known(ss, missing)},
   room |-> \E i \in DOMAIN ss : ss[i].type = "at" /\ ss[i].id = "all"]

(* findReplyID *)
ReplyTo(ss) ==
  LET replies == {i \in DOMAIN ss : ss[i].type = "reply"}
  IN  IF replies = {} THEN None ELSE <<Chat, ss[First(replies)].id>>

(* ToMatrix.  env says which media fail, what a forward contains, and whose *)
(* ghosts are missing.                                                     *)
ToMatrix(ss, env) ==
  LET parts == CASE ParseMessageType(ss) = "media"    -> ConvertMediaWithCaption(ss, env.fails)
                 [] ParseMessageType(ss) = "app"      -> ConvertApp(ss, env.nodes)
                 [] ParseMessageType(ss) = "location" -> ConvertLocation(ss)
                 [] OTHER                             -> ConvertText(ss)
  IN  [parts |-> [k \in DOMAIN parts |-> AddMentions(ss, env.missing, parts[k])], reply |-> ReplyTo(ss)]

(* ToMatrix makes a call: GetFile or GetForwardMessage. *)
Calls(ss) ==
  \/ ParseMessageType(ss) = "media" /\ \E i \in MediaOf(ss) : ~ss[i].url
  \/ ParseMessageType(ss) = "app" /\ ss[1].type = "forward"

-----------------------------------------------------------------------------
TypeOK ==
  /\ at \in {"start", "typed", "sent", "shown", "failed", "panic"}
  /\ content \in Contents \cup {None}
  /\ segs \in Seq(Segments)
  /\ \A k \in DOMAIN shown.parts :
       /\ shown.parts[k].kind \in {"text", "media", "failure", "location"}
       /\ shown.parts[k].users \subseteq Users
       /\ shown.parts[k].of \in {0} \cup MediaOf(segs)
       /\ shown.parts[k].kind \in {"media", "failure"} <=> shown.parts[k].of # 0
  /\ at = "shown" => DOMAIN shown.parts # {}
  /\ shown.reply = None \/ shown.reply \in {Chat} \X MsgIDs
  /\ unknown \subseteq Users

Init ==
  /\ at = "start" /\ content = None /\ segs = <<>>
  /\ shown = [parts |-> <<>>, reply |-> None] /\ unknown = {}

Type(c) ==
  /\ at = "start"
  /\ at' = "typed"
  /\ content' = c
  /\ UNCHANGED <<segs, shown, unknown>>

(* HandleMatrixMessage up to its call. *)
Send ==
  /\ at = "typed" /\ content.type # "unsupported" /\ Replyable(content.reply)
  /\ at' = "sent"
  /\ segs' = WithReply(content.reply, ToQQ(content))
  /\ UNCHANGED <<content, shown, unknown>>

(* No such type, a reply to a notice, a download that fails, or a place    *)
(* that cannot be read: the user is told that it was not sent.             *)
SendFail ==
  /\ at = "typed" /\ (content.type # "text" \/ ~Replyable(content.reply))
  /\ at' = "failed"
  /\ UNCHANGED <<content, segs, shown, unknown>>

(* A message written in QQ. *)
Receive(m) ==
  /\ at = "start"
  /\ at' = "sent"
  /\ segs' = m
  /\ UNCHANGED <<content, shown, unknown>>

(* ConvertMessage, with whatever session there is by then: without one, a  *)
(* conversion that makes a call panics.                                    *)
Convert ==
  /\ at = "sent"
  /\ \E up \in BOOLEAN, fails \in SUBSET (DOMAIN segs), nodes \in 0..2,
        missing \in SUBSET {segs[i].id : i \in Mentioned(segs)} :
       IF ~up /\ Calls(segs)
         THEN at' = "panic" /\ UNCHANGED <<shown, unknown>>
         ELSE /\ at' = "shown" /\ unknown' = missing
              /\ shown' = ToMatrix(segs, [fails |-> fails, nodes |-> nodes, missing |-> missing])
  /\ UNCHANGED <<content, segs>>

Next ==
  \/ \E c \in Contents : Type(c)
  \/ \E m \in Messages : Receive(m)
  \/ Send \/ SendFail \/ Convert

Spec == Init /\ [][Next]_vars

-----------------------------------------------------------------------------
(* Properties. *)

(* No number that is written or mentioned begins with one that is          *)
(* mentioned, and none is both.                                            *)
Unambiguous(c) ==
  \A i \in Mentions(c), j \in DOMAIN c.body :
    /\ j \in Mentions(c) \/ c.body[j].t = "at" => <<c.body[i].x, c.body[j].x>> \notin Begin
    /\ c.body[j] # AtText(c.body[i].x)

(* What c shows in a Matrix client, mentions restricted to those allowed,  *)
(* behind what it replies to.                                              *)
Rendered(c) ==
  LET text == [i \in DOMAIN c.body |->
                 IF c.body[i].t = "pill" /\ i \notin Mentions(c) THEN Name(c.body[i].x)
                 ELSE c.body[i]]
  IN  IF c.reply = None THEN text ELSE <<Blank>> \o text

(* A text sent from one Matrix user of the bridge to another arrives as it *)
(* was typed: the same words, mentions of the same users in the same       *)
(* places and of nobody else, as a reply to the same message; unless a     *)
(* number is ambiguous, a ghost is missing, or the room as a whole is      *)
(* mentioned.                                                              *)
TextArrives ==
  at = "shown" /\ content # None /\ content.type = "text" /\ ~content.room
    /\ Unambiguous(content) /\ unknown = {} =>
      /\ DOMAIN shown.parts = {1}
      /\ shown.parts[1].body = Rendered(content)
      /\ shown.parts[1].users = {content.body[i].x : i \in Mentions(content)}
      /\ ~shown.parts[1].room
      /\ shown.reply = IF content.reply = None THEN None ELSE <<Chat, content.reply[2]>>

(* No number in the text begins with one that is mentioned. *)
Clear(ss) ==
  \A i \in Mentioned(ss), j \in DOMAIN ss :
    TokenOf(ss[j]).t = "at" => <<ss[i].id, TokenOf(ss[j]).x>> \notin Begin

(* A segment is shown by a part of its own, or where it stands in the text *)
(* of one, a mentioned number as a link unless the user's ghost is missing. *)
IsShown(n) ==
  LET tok == TokenOf(segs[n])
  IN  \E k \in DOMAIN shown.parts :
        \/ shown.parts[k].of = n
        \/ shown.parts[k].body[n] = tok /\ n \notin Known(segs, unknown)
        \/ shown.parts[k].body[n] = Pill(tok.x) /\ tok.t = "at"

(* Whatever a message mixes, and whichever of its downloads and lookups    *)
(* fail, no segment is left out of what Matrix is shown, and each          *)
(* mentioned user with a ghost is mentioned in every part, by all the ways *)
(* through the converters.  (Not so a place that something comes before:   *)
(* it is taken from there.)                                                *)
NothingIsLeftOut ==
  at = "shown" /\ Clear(segs)
    /\ (ParseMessageType(segs) = "location" => segs[1].type = "location") =>
    \A n \in DOMAIN segs :
      /\ TokenOf(segs[n]) # Blank => IsShown(n)
      /\ n \in Known(segs, unknown) =>
           \A k \in DOMAIN shown.parts : segs[n].id \in shown.parts[k].users

(* "Assign unique PartIDs to prevent conflicts in the DB if there are      *)
(* multiple parts": the parts of a message have different ids.  (Those of  *)
(* a forwarded chat have not.)                                             *)
PartsAreKeptApart ==
  ParseMessageType(segs) # "app" =>
    \A j, k \in DOMAIN shown.parts : shown.parts[j].id = shown.parts[k].id => j = k
=============================================================================
