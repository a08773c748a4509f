CONSTANTS
  c1 = c1  c2 = c2  c3 = c3  c4 = c4
  Channels = {c1, c2, c3, c4}
  NoChannel = NoChannel
  Fd <- FdOf
  Readiness <- FewAnswers
SPECIFICATION Spec
SYMMETRY Reusers
INVARIANTS TypeOK IndexInv AssertionsHold ActiveAlive DisabledIsSilent
CHECK_DEADLOCK FALSE
