SPECIFICATION FairSpec
CONSTANTS
  JobId = {j1}
  Worker = {w1}
  Submitter = {s1}
  Browser = {b1}
  Doc = {d1, d2}
  Hash = {h1, h2}
  None = None
  FineClock = TRUE
  MaxClock = 1
  MaxCaptures = 1
  MaxCrashes = 1
  MaxFaults = 0
  TicksPerSecond = 1
PROPERTIES
  EventuallySettled
