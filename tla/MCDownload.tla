----------------------------- MODULE MCDownload -----------------------------
(***************************************************************************)
(* Small downloads for TLC.  The descriptors of the connections are those  *)
(* the process would have: small integers above the standard streams and   *)
(* the listening socket.                                                   *)
(***************************************************************************)
EXTENDS Download

\* Every peer is a seed.
Seeds == [c \in Conns |-> Pieces]

\* Connection 5 has everything, the others all but piece 0.
OneSeed == [c \in Conns |-> IF c = 5 THEN Pieces ELSE Pieces \ {0}]

\* Memory that says nothing of a peer; and memory that says that piece 0 was
\* requested from it.
CleanMemory == {[i \in Pieces |-> PEER_HAVNT]}
AnyMemory == CleanMemory \cup {[i \in Pieces |-> IF i = 0 THEN PEER_BE_REQUESTED ELSE PEER_HAVNT]}

\* An empty file; a file of which the first block of each piece is there; and one
\* in which the last block of piece 1 is right already.
FromNothing == {{}}
Resumed == {{}, Pieces \X {1}}
Foreign == {{}, {<<1, SubPieces>>}}
=============================================================================
