\* A second connection of an account whose first one is still open.
\* The system may really stop here: every connection can be closed and served,
\* and identifySession and Stop can lock themselves out of sessionsMu.
SPECIFICATION FairSpec
CONSTANTS
  s1 = s1
  s2 = s2
  a1 = a1
  a2 = a2
  Sessions = {s1, s2}
  Accounts = {a1, a2}
  None = None
  NoId = NoId
  Lookups = {k1}
  Reports <- ReconnectReports
  MayStop = FALSE
PROPERTIES
  LookupReturns
CHECK_DEADLOCK FALSE
