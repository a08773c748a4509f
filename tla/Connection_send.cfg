CONSTANTS
  Messages = {m1, m2}
  Setups <- Sender
SPECIFICATION Spec
INVARIANTS NoCrash
CHECK_DEADLOCK FALSE
