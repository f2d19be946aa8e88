SPECIFICATION Spec
CONSTANTS
  Clients = {c1}
  Results = {r1, r2}
  Peers = {}
  MaxTurns = 3
  MaxPending = 1
  MaxCrashes = 0
  MaxStops = 0
  MaxSweeps = 0
  MaxFaults = 0
INVARIANTS OneActiveTurn
CHECK_DEADLOCK FALSE
