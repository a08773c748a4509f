CONSTANTS
  NumThreads = 2
  MaxPicks = 5
SPECIFICATION FairSpec
INVARIANTS TypeOK TidKnown ReturnedLoopsAlive RoundRobin
PROPERTIES StartReturns JoinReturns
CHECK_DEADLOCK FALSE
