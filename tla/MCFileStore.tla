----------------------------- MODULE MCFileStore -----------------------------
(***************************************************************************)
(* A small file for TLC.                                                   *)
(***************************************************************************)
EXTENDS FileStore, TLC

\* The file has the first blocks of some pieces, as this program leaves it.
Prefixes == {{b \in Blocks : b[2] <= have[b[1]]} : have \in [Pieces -> 0 .. NumBlocks]}

Same == Permutations(Receivers)
=============================================================================
