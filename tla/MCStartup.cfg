SPECIFICATION FairSpec
CONSTANTS
  Pieces = {1, 2, 3}
  Starts <- NewPartialWhole
  Conns = {"c1", "c2"}
  MaxAnnounces = 3
  MaxFailures = 1
INVARIANTS
  OrderlySession
  Remembered
  NullOnlyEarly
PROPERTIES
  RequesterRuns
CHECK_DEADLOCK FALSE
