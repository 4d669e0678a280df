SPECIFICATION FairSpec
CONSTANTS
  WindowCap = 5
  MaxSurplus = 6
INVARIANTS
  SleepsOnlyWhenFull
PROPERTIES
  GetsItsSlot
  ImplementsWindow
