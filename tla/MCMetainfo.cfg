SPECIFICATION Spec
CONSTANTS
  Inputs <- SmallInputs
  Nodes <- SmallNodes
  Depth <- SmallDepth
  MaxItems = 6
  Heap <- SmallHeap
INVARIANTS
  DecodesWhole
  CutIsNotParsed
  FieldsOfFile
  HashOfInfo
  FieldsOfResponse
CHECK_DEADLOCK FALSE
