CONSTANTS
  t1 = t1
  t2 = t2
  s1 = s1
  s2 = s2
  Threads <- MCThreads
  Objects <- MCSockets
  NoObject = NoObject
  Timeout = 1
  Interval = 0
  MaxTime = 2
  Depth = 2
SPECIFICATION HttpSpec
SYMMETRY Sym
INVARIANTS
  HttpTypeOK
  OwnResponse
  IdleIsClean
  ClosedByOwner
  NoSocketLost
