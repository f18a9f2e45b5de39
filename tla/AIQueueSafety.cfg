SPECIFICATION Spec
CONSTANTS
  Doc = {d1}
  Rev = {r1}
  Recipe = {k1, k2}
  JobId = {j1, j2}
  Worker = {w1, w2}
  Client = {c1, c2}
  MaxAttempts = 2
  None = None
  MaxClock = 0
  MaxCrashes = 1
  MaxFaults = 1
  TicksPerSecond = 1
SYMMETRY Interchangeable
INVARIANTS
  TypeOK
  UniqueLiveJob
  ExclusiveExecution
  AttemptsWithinBudget
  RetryDiscipline
  NoLostWakeup
  RunningHasWorker
PROPERTIES
  LedgerSpec
