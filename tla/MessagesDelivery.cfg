SPECIFICATION FairSpec
CONSTANTS
  NewSession = {a1}
  Inject = {b1}
  MaxAttempts = 3
  MaxConcurrent = 1
  MaxTasks = 2
  MaxCrashes = 2
  MaxStops = 1
  MaxFaults = 1
INVARIANTS TypeOK LeaseHeld OncePerAttempt VerdictIsTrue QueuedIsReachable
PROPERTIES FateKept SettledUnlessFailure
CHECK_DEADLOCK FALSE
