SPECIFICATION FairSpec
CONSTANTS
  Clients = {c1}
  Results = {r1}
  Peers = {p1}
  MaxTurns = 3
  MaxPending = 1
  MaxCrashes = 1
  MaxStops = 1
  MaxSweeps = 1
  MaxFaults = 0
PROPERTIES LogKept StopCloses
CHECK_DEADLOCK FALSE
