\* Two goroutines that connect, disconnect and log in, two loops, one ghost.
\* When the loops are used up and nothing is queued the system may rest.
SPECIFICATION AnsweringSpec
CONSTANTS
  starter = starter
  caller1 = caller1
  caller2 = caller2
  loop1 = loop1
  loop2 = loop2
  ghost1 = ghost1
  group1 = group1
  Callers = {starter, caller1, caller2}
  Starter = starter
  Loops = {loop1, loop2}
  Ghosts = {ghost1}
  Groups = {}
  None = None
INVARIANTS
  TypeOK
  LiveLoopHasOneOwner
PROPERTIES
  GhostsSpaced
  CancelledLoopStops
  QueuedIsTaken
CHECK_DEADLOCK FALSE
