\* The account, another member and a Matrix user; two changes in Matrix, one in QQ.
SPECIFICATION Spec
CONSTANTS
  self = self
  m1 = m1
  guest = guest
  none = none
  v = v
  Members = {self, m1}
  Guests = {guest}
  Self = self
  Levels = {0, 50}
  Values = {none, v}
  Empty = none
  MaxEvents = 2
  MaxUsers = 2
  MaxQQ = 1
INVARIANTS
  TypeOK
  InStep
  AdminCallsChange
CHECK_DEADLOCK FALSE
