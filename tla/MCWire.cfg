SPECIFICATION FairSpec
CONSTANTS
  W = 2
  Room = 4
  Numbers = {1}
  Blocks <- OneBlock
  Bitfield <- OneByte
  Parts = 1
  Errands <- TwoSpeak
INVARIANTS
  HandledAsSent
  TornInLastField
PROPERTIES
  Delivered
CHECK_DEADLOCK FALSE
