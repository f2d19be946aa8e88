SPECIFICATION FairSpec
CONSTANTS
  NumPieces = 3
  Cap = 2
  MaxCalls = 2
  MaxMishaps = 2
INVARIANTS TypeOK TextKept InOrder
PROPERTIES StreamKept
CHECK_DEADLOCK FALSE
