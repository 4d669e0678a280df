--------------------------- MODULE MCPieceRequest ---------------------------
(***************************************************************************)
(* Small piece lengths and file sizes for TLC: all the ways the last piece *)
(* can end relative to the four requests occur with lengths up to 12.      *)
(***************************************************************************)
EXTENDS PieceRequest

SmallLens == 1 .. 12
SmallSizes == 1 .. 30
=============================================================================
