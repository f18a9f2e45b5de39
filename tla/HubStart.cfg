SPECIFICATION StartSpec
CONSTANTS
  Doc = {d1}
  Rev = {r1}
  Recipe = {k1}
  JobId = {j1}
  Worker = {w1, w2}
  OtherWorker = {v1}
  Client = {c1}
  MaxAttempts = 3
  None = None
  MaxClock = 0
  MaxCrashes = 0
  MaxFaults = 1
  MaxStarts = 1
  TicksPerSecond = 1
SYMMETRY Interchangeable
INVARIANTS
  AttemptsWithinStarts
  DoneHasItsResponse
