SPECIFICATION Spec
CONSTANTS
  JobId = {j1, j2}
  Worker = {w1, w2}
  Submitter = {s1}
  Browser = {b1}
  Doc = {d1}
  Hash = {h1}
  None = None
  FineClock = TRUE
  MaxClock = 0
  MaxCaptures = 0
  MaxCrashes = 1
  MaxFaults = 1
  TicksPerSecond = 2
SYMMETRY Interchangeable
INVARIANTS
  TypeOK
  OneWorkerPerJob
  ActiveHasWorker
  NoLostWakeup
PROPERTIES
  NoLaterSecondFirst
  LedgerSpec
