SPECIFICATION FairSpec
CONSTANTS
  NumTasks = 2
  DependsOn <- Chain
  MaxConcurrent = 1
  BatchSize = 2
  MaxWorkers = 2
  MaxClaims = 4
  MaxHuman = 2
  MaxOvertakes = 0
  MaxDelays = 0
  MaxFaults = 1
  MaxSpent = 2
PROPERTIES SettledStays EventuallySettled
