\* Two goroutines make two calls each, those of c1 with deadlines, an event
\* comes in between, and the peer answers as it likes or not at all.  A closed session with idle callers really stops.
SPECIFICATION FairSpec
CONSTANTS
  c1 = c1
  c2 = c2
  Callers = {c1, c2}
  Timed = {c1}
  None = None
  MaxCalls = 2
  MaxEvents = 1
  WireCap = 1
INVARIANTS
  TypeOK
  AnswersOwnCall
  ReaderNeverBlocks
  NoPendingLeak
PROPERTIES
  ImplementsCallContract
  TimedCallsReturn
CHECK_DEADLOCK FALSE
