SPECIFICATION FairSpec
CONSTANTS
  Doc = {d1}
  Rev = {r1}
  Recipe = {k1}
  JobId = {j1, j2}
  Worker = {w1, w2}
  Client = {c1}
  MaxAttempts = 2
  None = None
  MaxClock = 1
  MaxCrashes = 1
  MaxFaults = 0
  TicksPerSecond = 2
PROPERTIES
  EventuallySettled
  CloseTerminates
  RetriesAwaitTheirSecond
