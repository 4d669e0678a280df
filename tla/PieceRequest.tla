---------------------------- MODULE PieceRequest ----------------------------
(***************************************************************************)
(* The byte ranges of a piece: request_a_piece splits the piece into four  *)
(* requests, clipped at the end of the file; the peer reads each range and *)
(* the client writes it with list_set_piece; gen_bitfield hashes the piece *)
(* when all is there.  Whether a piece can be completed at all depends on  *)
(* the ranges agreeing.                                                    *)
(*                                                                         *)
(* The loop is a state machine, one step per iteration.  The products and  *)
(* sums of the code are ints; the sizes are such that they fit.            *)
(***************************************************************************)
EXTENDS Integers

CONSTANTS PieceLens,   \* piece lengths of the torrents considered
          Sizes        \* sizes of the file

ASSUME RequestAssumption == /\ PieceLens \subseteq Nat \ {0}
                            /\ Sizes \subseteq Nat \ {0}

VARIABLES piece_len, size,              \* of the torrent
          start,                        \* index * length: where the piece begins
          i, sub_piece_len, sub_begin,  \* the locals of request_a_piece
          sent,                         \* the requests sent: begin and length
          pc                            \* "loop" or "done"

torrentVars == <<piece_len, size, start>>
rangeVars == <<torrentVars, i, sub_piece_len, sub_begin, sent, pc>>

sub_pieces_num == 4

\* parsetorrentfile: the number of pieces, the last one possibly short.
num_pieces(length, total) ==
  total \div length + (IF total % length # 0 THEN 1 ELSE 0)

\* gen_bitfield: how many bytes of the piece are hashed; list_get_piece ends at
\* the end of the file.
blocksize == IF start + piece_len <= size THEN piece_len ELSE size - start

RangesInit ==
  /\ piece_len \in PieceLens /\ size \in Sizes
  /\ \E index \in 0 .. num_pieces(piece_len, size) - 1 : start = index * piece_len
  /\ i = 0
  /\ sub_piece_len = piece_len \div sub_pieces_num
  /\ sub_begin = 0
  /\ sent = {}
  /\ pc = "loop"

\* Slip: the test for the end of the file forgets what was requested already.
PastEndOfPiece(len) == start + len > size

\* The request would run past the end of the file.
PastEnd(len) == start + sub_begin + len > size

Clipped(len) == IF PastEnd(len) THEN size - start - sub_begin ELSE len

\* Slip: requests advance by the length of an unclipped one less a byte.
AdvanceShort(len) == sub_begin' = sub_begin + len - 1

Advance(len) == sub_begin' = sub_begin + len

\* One iteration that sends a request, clipped if need be.
SendRequest ==
  /\ pc = "loop" /\ i < sub_pieces_num
  /\ sub_piece_len' = Clipped(sub_piece_len)
  /\ PastEnd(sub_piece_len) => sub_piece_len' > 0
  /\ sent' = sent \cup {[begin |-> sub_begin, length |-> sub_piece_len']}
  /\ Advance(sub_piece_len')
  /\ i' = i + 1
  /\ UNCHANGED <<torrentVars, pc>>

\* The early return: nothing of the file is left.
ReturnAtEnd ==
  /\ pc = "loop" /\ i < sub_pieces_num
  /\ PastEnd(sub_piece_len)
  /\ sub_piece_len' = Clipped(sub_piece_len)
  /\ sub_piece_len' <= 0
  /\ pc' = "done"
  /\ UNCHANGED <<torrentVars, i, sub_begin, sent>>

\* The loop ends.
LoopEnds ==
  /\ pc = "loop" /\ i = sub_pieces_num
  /\ pc' = "done"
  /\ UNCHANGED <<torrentVars, i, sub_piece_len, sub_begin, sent>>

RangesNext == SendRequest \/ ReturnAtEnd \/ LoopEnds

RangesSpec == RangesInit /\ [][RangesNext]_rangeVars
-----------------------------------------------------------------------------
Bytes(r) == r.begin .. r.begin + r.length - 1

\* Types.
RangesTypeOK ==
  /\ piece_len \in PieceLens /\ size \in Sizes
  /\ start \in Nat
  /\ i \in 0 .. sub_pieces_num
  /\ sub_piece_len \in Nat /\ sub_begin \in Nat
  /\ sent \subseteq [begin : Nat, length : Nat]
  /\ pc \in {"loop", "done"}

\* The requests of a piece never overlap: no byte of it is fetched twice.
NoOverlap == \A r, s \in sent : r # s => Bytes(r) \cap Bytes(s) = {}

\* Every request lies within the piece and within the file.  The peer reads and
\* the client writes exactly the range: list_get_piece and list_set_piece clip
\* nothing, and the block does not spill into the next piece.
WithinPiece ==
  \A r \in sent : /\ r.begin + r.length <= piece_len
                  /\ start + r.begin + r.length <= size

\* A piece whose length is a multiple of four is requested to its last byte:
\* what gen_bitfield hashes is what was requested.
RequestedWhole == \A x \in 0 .. blocksize - 1 : \E r \in sent : x \in Bytes(r)

CoversPiece == pc = "done" /\ piece_len % sub_pieces_num = 0 => RequestedWhole
=============================================================================
