SPECIFICATION Spec
CONSTANTS
  NumTasks = 2
  DependsOn <- Chain
  MaxConcurrent = 1
  BatchSize = 2
  MaxWorkers = 2
  MaxClaims = 3
  MaxHuman = 0
  MaxOvertakes = 0
  MaxDelays = 1
  MaxFaults = 0
  MaxSpent = 1
INVARIANTS SettledByItsClaim
