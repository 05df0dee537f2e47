\* Texts of up to three tokens typed in Matrix, and messages of up to three
\* segments from QQ, with every failure.  A shown message has arrived.
SPECIFICATION Spec
CONSTANTS
  u1 = u1
  u12 = u12
  u2 = u2
  n1 = n1
  w = w
  None = None
  Users = {u1, u12, u2}
  Begin <- MCBegin
  Words = {w}
  MsgIDs = {n1}
  Chat = Chat
  Contents <- MCContents
  Messages <- MCMessages
INVARIANTS
  TypeOK
  TextArrives
  NothingIsLeftOut
  PartsAreKeptApart
CHECK_DEADLOCK FALSE
