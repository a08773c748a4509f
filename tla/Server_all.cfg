CONSTANTS
  c1 = c1  c2 = c2  c3 = c3
  Clients = {c1, c2, c3}
  MaxFds = 2
  NumThreads = 0
  Bytes <- ByteCounts
  SendBuf = 1
  Stalled = {c3}
SPECIFICATION FairSpec
INVARIANTS TypeOK NoCrash DescriptorsApart MapIsCurrent EchoConserved
PROPERTIES ClientsServed DescriptorsReturn
CHECK_DEADLOCK FALSE
