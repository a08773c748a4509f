CONSTANTS
  t1 = t1  t2 = t2  t3 = t3
  Timers = {t1, t2}
  Repeats = {t1, t2}
  Interval <- SameInterval
  MinDelay = 2
  MovedReads = TRUE
  MaxTime = 4
  MaxSteps = 1
SPECIFICATION FairSpec
PROPERTIES BatchRestarts
CHECK_DEADLOCK FALSE
