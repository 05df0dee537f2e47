\* Two messages typed in Matrix, two in QQ, and two removals or reactions.
\* When all is settled nothing is left to do.
SPECIFICATION Spec
CONSTANTS
  m1 = m1
  m2 = m2
  Msgs = {m1, m2}
  None = None
  Chat = "10001"
  MaxChat = 2
  MaxOps = 2
SYMMETRY Symmetry
INVARIANTS
  TypeOK
  OneCopy
  InStep
  LikesInStep
CHECK_DEADLOCK FALSE
