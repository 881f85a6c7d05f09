CONSTANTS
  lower = lower
  upper = upper
  addr1 = addr1
  addr2 = addr2
  NoAddr = NoAddr
  Names <- MCNames
  Queried <- MCQueried
  Addrs <- MCAddrs
SPECIFICATION Spec
INVARIANTS TypeOK CachedOnce
PROPERTY AnswersConverge
