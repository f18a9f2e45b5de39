SPECIFICATION FairSpec
CONSTANTS
  Caller = {c1, c2}
  Doc = {d1, d2}
  Hash = {h1, h2}
  None = None
  FineClock = TRUE
  MaxClock = 1
  MaxCaptures = 3
  MaxCrashes = 1
  MaxFaults = 1
CHECK_DEADLOCK FALSE
INVARIANTS
  TypeOK
  PointerIsReadable
  ReceiptsHold
PROPERTIES
  FilesImmutable
  NoRepeatedRevision
  EveryCaptureReturns
