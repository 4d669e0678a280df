SPECIFICATION FairSpec
CONSTANTS
  WindowCap = 2
  NumPieces = 4
  SubPieces = 3
  MinRest = 1
  Conns = {4, 5}
  Holds <- OneSeed
  Leavers = {}
  TornBlocks = FALSE
  Leftover <- CleanMemory
  InitialBlocks <- Resumed
PROPERTIES
  Completes
CHECK_DEADLOCK FALSE
