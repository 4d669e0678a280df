----------------------------- MODULE MCExchange -----------------------------
(***************************************************************************)
(* Small exchanges for TLC.  The clients are A and B.                      *)
(***************************************************************************)
EXTENDS Exchange

\* What A and B have, and what the memory of each says of the other.
Start(a, b, forA, forB) ==
  [disk |-> [x \in Clients |-> IF x = "A" THEN a ELSE b],
   memory |-> [x \in Clients |-> IF x = "A" THEN forA ELSE forB]]

Zero == [i \in Pieces |-> PEER_HAVNT]

\* A piece of the other seems to be there, and the last, which it has not, to have been
\* requested from it.
Garbage(i) == [Zero EXCEPT ![i] = PEER_HAVE, ![3] = PEER_BE_REQUESTED]

\* With zero memory: each has two pieces the other has not; A has two pieces and B
\* nothing; or A is a seed and B has half of the pieces.  With leftover memory in B, or
\* in both: A has a piece that B has not, and neither has the last.
FourPieces ==
  {Start({0, 2}, {1, 3}, Zero, Zero), Start({0, 1}, {}, Zero, Zero),
   Start(Pieces, {1, 3}, Zero, Zero)}
  \cup {Start({0, 1, 2}, {0, 1}, m, Garbage(2)) : m \in {Zero, Garbage(0)}}

\* B can get the last piece from another peer.
LastForB == [x \in Clients |-> IF x = "B" THEN {NumPieces - 1} ELSE {}]
=============================================================================
