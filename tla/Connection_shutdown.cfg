CONSTANTS
  Messages = {m1, m2}
  Setups <- Closer
SPECIFICATION FairSpec
PROPERTIES DisconnectedIsFinal
CHECK_DEADLOCK FALSE
