SPECIFICATION Spec
CONSTANTS
  Doc = {d1}
  Rev = {r1}
  Recipe = {k1, k2}
  JobId = {j1, j2}
  Worker = {w1}
  Client = {c1}
  MaxAttempts = 2
  None = None
  MaxClock = 0
  MaxCrashes = 0
  MaxFaults = 1
  TicksPerSecond = 1
INVARIANTS
  RunningWithinConcurrency
