SPECIFICATION FairSpec
CONSTANTS
  Clients = {c1, c2, c3}
  Results = {}
  Peers = {}
  MaxTurns = 3
  MaxPending = 1
  MaxCrashes = 0
  MaxStops = 0
  MaxSweeps = 0
  MaxFaults = 0
INVARIANTS TypeOK OneActiveTurn RunningIsRegistered InflightIsAttended
PROPERTIES EventuallyAnswered
CHECK_DEADLOCK FALSE
