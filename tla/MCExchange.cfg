SPECIFICATION FairSpec
CONSTANTS
  Clients = {"A", "B"}
  NumPieces = 4
  Starts <- FourPieces
  Elsewhere <- LastForB
  Room = 1
INVARIANTS
  NeverTurnedDown
  
  FlagsAgree
PROPERTIES
  Fetched
CHECK_DEADLOCK FALSE
