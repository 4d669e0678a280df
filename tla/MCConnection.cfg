SPECIFICATION FairSpec
CONSTANTS
  Clients = {"A", "B"}
  Conns = {1, 2}
  Leftover = {0, 7}
  MaxLosses = 1
INVARIANTS
  OneConnection
PROPERTIES
  EstablishedStays
  SidesAgree
  KeepsTrying
