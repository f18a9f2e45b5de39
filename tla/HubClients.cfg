SPECIFICATION FairSpec
CONSTANTS
  None = None
  Caller = {c1}
  Slot = {s1, s2}
  Typed = {"fixture"}
  ListLimit = 1
  MaxJobs = 3
  MaxCaptures = 1
  MaxCrashes = 1
  MaxFaults = 1
  MaxPageJobs = 2
CHECK_DEADLOCK FALSE
INVARIANTS
  WebPagesAreRead
  ReportsAreTrue
  JobsPerCall
PROPERTIES
  EveryCallReturns
  ReaderSettles
  ListSettles
