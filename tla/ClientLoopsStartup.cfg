\* A stored login; NapCatQQ connects after the bridge has started.
SPECIFICATION FairSpec
CONSTANTS
  starter = starter
  caller1 = caller1
  caller2 = caller2
  loop1 = loop1
  loop2 = loop2
  ghost1 = ghost1
  group1 = group1
  Callers = {starter}
  Starter = starter
  Loops = {loop1}
  Ghosts = {ghost1}
  Groups = {}
  None = None
PROPERTY LoginGetsLoops
CHECK_DEADLOCK FALSE
