CONSTANTS
  t1 = t1  t2 = t2  t3 = t3
  Timers = {t1, t2, t3}
  Repeats = {t3}
  Interval <- Intervals
  MinDelay = 2
  MovedReads = FALSE
  MaxTime = 4
  MaxSteps = 1
SPECIFICATION FairSpec
INVARIANTS SchedulingEnds
CHECK_DEADLOCK FALSE
