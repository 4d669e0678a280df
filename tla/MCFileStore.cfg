SPECIFICATION Spec
CONSTANTS
  NumPieces = 2
  NumBlocks = 2
  Receivers = {r1, r2}
  Files <- Prefixes
  MaxFaults = 2
INVARIANTS
  SeeksHold
  OnlyMissedLost
  NothingForgotten
PROPERTIES
  ImplementsStore
SYMMETRY Same
CHECK_DEADLOCK FALSE
