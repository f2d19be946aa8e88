SPECIFICATION Spec
CONSTANTS
  NumTasks = 3
  DependsOn <- Joined
  MaxConcurrent = 1
  BatchSize = 2
  MaxWorkers = 2
  MaxClaims = 3
  MaxHuman = 0
  MaxOvertakes = 1
  MaxDelays = 1
  MaxFaults = 1
  MaxSpent = 2
INVARIANTS TypeOK OneExecution CapacityKept DependenciesFirst
