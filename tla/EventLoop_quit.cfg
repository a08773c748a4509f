CONSTANTS
  l1 = l1  l2 = l2  f1 = f1  f2 = f2  f3 = f3
  Loops = {l1}
  Threads = {t1}
  NoOne = NoOne
  Functors = {f1, f2, f3}
  Body <- Nothing
  ThreadOps <- LeaveOps
  HandlerOps <- NopOnly
  PreLoopOps <- None
SPECIFICATION FairSpec
PROPERTIES TasksBeforeQuitRun
CHECK_DEADLOCK FALSE
