CONSTANTS
  NumThreads = 2
  MaxPicks = 5
SPECIFICATION FairSpec
PROPERTIES StartAlwaysReturns
CHECK_DEADLOCK FALSE
