CONSTANTS
  c1 = c1  c2 = c2  c3 = c3
  Clients = {c1, c2}
  MaxFds = 2
  NumThreads = 2
  Bytes <- ByteCounts
  SendBuf = 1
  Stalled = {}
SPECIFICATION Spec
INVARIANTS NoCrash
CHECK_DEADLOCK FALSE
