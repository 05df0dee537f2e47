------------------------------ MODULE MCChatSync ------------------------------
(* A small instance of ChatSync: a friend, a group, and a recent contact   *)
(* for each, one of them known only by its peer number.                    *)
EXTENDS ChatSync

CONSTANTS friend, group

MCContacts ==
  {[group |-> group, type |-> "group", user |-> friend, chatType |-> 2, peer |-> group],
   [group |-> NoId, type |-> "private", user |-> NoId, chatType |-> 1, peer |-> friend]}
=============================================================================
