CONSTANTS
  CheapPrependSize = 2
  InitialSize = 2
  ExtraSize = 2
  Bytes = {0, 1}
  Zero = 0
  MaxLen = 3
  MaxSize = 7
  Reserves = {0, 2}
  ShrinkAnywhere = FALSE
SPECIFICATION Spec
INVARIANTS IndicesOrdered AssertionsHold
PROPERTIES ImplementsByteQueue
