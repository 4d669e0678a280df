SPECIFICATION Spec
CONSTANTS
  WindowCap = 5
  Releasers = {"handle_piece", "disconnect"}
  MaxCount = 8
  MaxInFlight = 8
INVARIANTS
  ReceivedMeansUnlocked
CHECK_DEADLOCK FALSE
