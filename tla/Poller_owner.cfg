CONSTANTS
  c1 = c1  c2 = c2  c3 = c3  c4 = c4
  Channels = {c1, c3, c4}
  NoChannel = NoChannel
  Fd <- FdOf
  Readiness <- SomeAnswers
SPECIFICATION Spec
INVARIANTS OwnerAsserted
CHECK_DEADLOCK FALSE
