\* Six messages before the bridge, any of them without an id, two after it;
\* pages of two or of three.  When the backfill is done the chat may rest.
SPECIFICATION FairSpec
CONSTANTS
  Chat = "10001"
  MaxChat = 8
  Before = 6
  Counts = {0, 2}
  Limit = 3
INVARIANTS
  TypeOK
  OneIDPerMessage
  HistoryIsComplete
PROPERTIES
  BackfillEnds
CHECK_DEADLOCK FALSE
