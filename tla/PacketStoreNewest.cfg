SPECIFICATION Spec
CONSTANTS
  Caller = {c1, c2}
  Doc = {d1}
  Hash = {h1, h2}
  None = None
  FineClock = TRUE
  MaxClock = 0
  MaxCaptures = 2
  MaxCrashes = 0
  MaxFaults = 0
CHECK_DEADLOCK FALSE
INVARIANTS
  LatestIsNewest
