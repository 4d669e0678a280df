----------------------------- MODULE MCStartup -----------------------------
(***************************************************************************)
(* Small start-ups for TLC.                                                *)
(***************************************************************************)
EXTENDS Startup

\* The file is new, has one piece, or is whole.
NewPartialWhole == {{}, {1}, Pieces}
=============================================================================
