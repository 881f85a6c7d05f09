CONSTANTS
  t1 = t1
  t2 = t2
  o1 = o1
  o2 = o2
  o3 = o3
  NoObject = NoObject
  Threads <- MCThreads
  Objects <- MCObjects
  Timeout = 1
  Interval = 0
  MaxTime = 2
SPECIFICATION FairSpec
INVARIANTS TypeOK Exclusive Conserved ResidueBounded
PROPERTIES SweepsApart SweepTerminates CloseTerminates
