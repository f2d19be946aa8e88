SPECIFICATION Spec
CONSTANTS
  NumPieces = 3
  Cap = 2
  MaxCalls = 1
  MaxMishaps = 0
INVARIANTS BufferedIsScheduled
CHECK_DEADLOCK FALSE
