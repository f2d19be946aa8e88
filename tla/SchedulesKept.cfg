SPECIFICATION FairSpec
CONSTANTS
  Limits <- SmallLimits
  MaxTime = 2
  MaxRuns = 6
  MaxWorkers = 2
  MaxConsoles = 1
  MaxHuman = 1
  MaxDelays = 1
  MaxFaults = 1
INVARIANTS TypeOK OneRun CountExact LimitKept OncePerPeriod
PROPERTIES OverStays EventuallyServed EventuallyClosed
CHECK_DEADLOCK FALSE
