\* Any three routed events, with the identification at any point.  When all
\* are handled nothing is left to do.
SPECIFICATION Spec
CONSTANTS
  a = a
  b = b
  friend = friend
  group = group
  m1 = m1
  m2 = m2
  f1 = f1
  Accounts = {a, b}
  Logins = {a, b}
  Ids = {a, b, friend, group}
  MsgIds = {m1, m2, f1}
  NoId = NoId
  Home = a
  Events <- MCEvents
  MaxEvents = 3
INVARIANTS
  TypeOK
  IdentifiedEventsGoHome
  PrivateRoomsAreOwn
  FollowUpsHit
CHECK_DEADLOCK FALSE
