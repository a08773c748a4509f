CONSTANTS
  l1 = l1  l2 = l2  f1 = f1  f2 = f2  f3 = f3
  Loops = {l1, l2}
  Threads = {t1}
  NoOne = NoOne
  Functors = {f1, f2, f3}
  Body <- ChainBody
  ThreadOps <- ChainThreadOps
  HandlerOps <- ChainHandlerOps
  PreLoopOps <- ChainPreLoopOps
SPECIFICATION FairSpec
INVARIANTS TypeOK NoLostWakeup NoCircularWait
PROPERTIES ImplementsTaskQueue TasksRun QuitEnds
CHECK_DEADLOCK FALSE
