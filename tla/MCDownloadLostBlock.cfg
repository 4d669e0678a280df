SPECIFICATION FairSpec
CONSTANTS
  WindowCap = 2
  NumPieces = 1
  SubPieces = 3
  MinRest = 1
  Conns = {4, 5, 6}
  Holds <- Seeds
  Leavers = {}
  TornBlocks = FALSE
  Leftover <- CleanMemory
  InitialBlocks <- FromNothing
PROPERTIES
  Completes
CHECK_DEADLOCK FALSE
