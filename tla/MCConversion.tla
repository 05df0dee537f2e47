---------------------------- MODULE MCConversion ----------------------------
(* Instances of Conversion: three users, the number of one of which begins *)
(* with that of another, and short messages.                               *)
EXTENDS Conversion, SequencesExt

CONSTANTS u1, u12, u2, n1, w

MCBegin == {<<u1, u12>>}

Tokens == {Token("word", w), Pill(u1), Pill(u12), AtText(u1), AtText(u2), AtText("all")}

MCContents ==
  [type: {"text"}, html: BOOLEAN, body: BoundedSeq(Tokens, 3), allowed: {None, {u1}},
   room: BOOLEAN, reply: {None, <<Chat, n1>>, <<"fake", n1>>}]
  \cup
  [type: {"image", "sticker", "video", "audio", "file", "location", "unsupported"},
   html: {FALSE}, body: {<<>>}, allowed: {None}, room: {FALSE}, reply: {None, <<Chat, n1>>}]

Alone == {Card("json"), Card("location card"), Card("xml"), Card("forward"), Card("location")}

(* Some of the "@..." are just written, and one goes on behind a mention.  *)
Mixed ==
  {Text(Token("word", w)), Text(AtText(u12)), At(u1, u1), At(u12, u12), At(u1, u12),
   At("all", "all"), At(None, None), Reply(n1), Card("face"), Media("image", TRUE),
   Media("record", FALSE), Card("dice")}

(* What comes alone can still quote a message. *)
MCMessages ==
  (BoundedSeq(Mixed, 3) \ {<<>>}) \cup {<<c>> : c \in Alone}
    \cup {<<Reply(n1), c>> : c \in {Card("json"), Card("forward"), Card("location")}}
=============================================================================
