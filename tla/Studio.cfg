SPECIFICATION FairSpec
CONSTANTS
  Page = {a, b}
  Subscriber = {"studio", "other"}
  Linked = {a}
  MaxMoves = 3
  MaxWraps = 1
  MaxSubscribes = 2
  MaxToggles = 1
CHECK_DEADLOCK FALSE
INVARIANTS
  SubscribersAreHooked
  FewAutoCaptures
PROPERTIES
  SnapshotIsFresh
  ForeignWrappersStay
  StayedPagesAreCaptured
