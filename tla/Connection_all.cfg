CONSTANTS
  Messages = {m1, m2}
  Setups <- LoopOnlyOrShared
SPECIFICATION FairSpec
INVARIANTS TypeOK BytesInOrder OutputWatched RegisteredAlive AloneNoCrash GracefulShutdown
PROPERTIES ShutdownCompletes ClosedIsDestroyed
CHECK_DEADLOCK FALSE
