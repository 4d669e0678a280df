SPECIFICATION Spec
CONSTANTS
  WindowCap = 1
  NumPieces = 3
  SubPieces = 2
  MinRest = 1
  Conns = {4, 5}
  Holds <- OneSeed
  Leavers = {4}
  TornBlocks = TRUE
  Leftover <- AnyMemory
  InitialBlocks <- Foreign
INVARIANTS
  
  ChosenStillWanted
  AskedOnce
  RestNeverOverstates
  RestExact
  HaveExact
PROPERTIES
  CompletedStays
  UsesWindow
CHECK_DEADLOCK FALSE
