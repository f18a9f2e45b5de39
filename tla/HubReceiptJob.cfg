SPECIFICATION Spec
CONSTANTS
  Client = {c1}
  Handler = {h1, h2}
  Doc = {d1}
  Hash = {p, q}
  None = None
  MaxCrashes = 0
  MaxFaults = 0
  MaxRequests = 2
  MaxDrops = 1
SYMMETRY Symmetry
CHECK_DEADLOCK FALSE
INVARIANTS
  SameRevisionSameJob
