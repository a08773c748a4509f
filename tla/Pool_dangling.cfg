CONSTANTS
  NumThreads = 2
  MaxPicks = 5
SPECIFICATION Spec
INVARIANTS NoUseAfterExit
CHECK_DEADLOCK FALSE
