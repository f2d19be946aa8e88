SPECIFICATION FairSpec
CONSTANTS
  Root = root
  Sub = {s1, s2}
  MaxDepth = 2
  Permits = 1
  MaxStops = 1
  MaxMishaps = 1
INVARIANTS TypeOK NothingLeaks OneReport ReportedIsSettled
PROPERTIES StopReaches EventuallyReported
CHECK_DEADLOCK FALSE
