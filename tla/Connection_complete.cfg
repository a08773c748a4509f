CONSTANTS
  Messages = {m1, m2}
  Setups <- Notified
SPECIFICATION Spec
INVARIANTS NoSelfWait
CHECK_DEADLOCK FALSE
