SPECIFICATION Spec
CONSTANTS
  Clients = {c1, c2}
  Results = {r1}
  Peers = {p1}
  MaxTurns = 3
  MaxPending = 1
  MaxCrashes = 1
  MaxStops = 0
  MaxSweeps = 0
  MaxFaults = 1
SYMMETRY Symmetry
INVARIANTS ExactlyOnePlace ActiveHasTurn
CHECK_DEADLOCK FALSE
