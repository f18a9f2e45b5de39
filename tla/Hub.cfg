SPECIFICATION Spec
CONSTANTS
  Client = {c1}
  Handler = {h1, h2}
  Doc = {d1}
  Hash = {p, q}
  None = None
  MaxCrashes = 1
  MaxFaults = 1
  MaxRequests = 2
  MaxDrops = 1
SYMMETRY Symmetry
CHECK_DEADLOCK FALSE
INVARIANTS
  JobCoversReceipt
  ResentAnswersAgree
  HandlersAdvance
