SPECIFICATION RangesSpec
CONSTANTS
  PieceLens <- SmallLens
  Sizes <- SmallSizes
INVARIANTS
  NoOverlap
  WithinPiece
  CoversPiece
CHECK_DEADLOCK FALSE
