\* An account that reconnects or not, next to another one, a server stop, and a
\* goroutine that looks sessions up all the while.
\* The system may really stop here: every connection can be closed and served,
\* and identifySession and Stop can lock themselves out of sessionsMu.
SPECIFICATION FairSpec
CONSTANTS
  s1 = s1
  s2 = s2
  a1 = a1
  a2 = a2
  Sessions = {s1, s2}
  Accounts = {a1, a2}
  None = None
  NoId = NoId
  Lookups = {k1}
  Reports <- ReconnectReports
  MayStop = TRUE
INVARIANTS
  TypeOK
  RegisteredUnderOwnAccount
PROPERTIES
  ImplementsAccountSessions
  LookupIsCurrent
  LookupReturnsUnlessLockedOut
  IdentifiedOrClosed
  LostSessionLeaves
CHECK_DEADLOCK FALSE
