---------------------------- MODULE RequestProofs ----------------------------
(***************************************************************************)
(* Proofs about the two things a request is made of.                       *)
(*                                                                         *)
(* The window, for every size of it and every number of duplicate          *)
(* releases: the counter of LOCK_PIECE and UNLOCK_PIECE is exact, the       *)
(* window is respected, the requester never sleeps on a window that is not *)
(* full, and the two macros implement the abstract window.                 *)
(*                                                                         *)
(* The ranges, for every piece length, file size and piece: the requests   *)
(* are disjoint, stay within the piece and the file, and cover the piece   *)
(* when its length is a multiple of four.                                  *)
(***************************************************************************)
EXTENDS PieceWindow, PieceRequest, TLAPS

\* The shape of the state, without the ranges that follow from Inv.
Shape == /\ pieces_requesting \in Int
         /\ pieces_state_mutex \in {"free", "taken"}
         /\ requester \in {"free", "asleep"}
         /\ held \in Nat
         /\ surplus \in 0 .. MaxSurplus

\* The inductive invariant.  WindowBound alone is not inductive: LOCK_PIECE
\* looks at the counter, so it needs CounterExact; and that the mutex is free
\* only below the window needs that UNLOCK_PIECE freed it at WindowCap or more.
Inv == Shape /\ CounterExact /\ WindowBound /\ SleepsOnlyWhenFull

\* Initially nothing is held and the mutex is free.
LEMMA InitInv == Init => Inv
  BY WindowCapAssumption, MaxSurplusAssumption
     DEF Init, LockInit, Inv, Shape, CounterExact, Pending, WindowBound, SleepsOnlyWhenFull

\* Every use of the two macros preserves the invariant.
LEMMA StepInv == Inv /\ [Next]_vars => Inv'
<1> SUFFICES ASSUME Inv, [Next]_vars
             PROVE  Inv'
  OBVIOUS
<1> USE WindowCapAssumption, MaxSurplusAssumption
    DEF Inv, Shape, CounterExact, Pending, WindowBound, SleepsOnlyWhenFull
<1>1. CASE Pass
  BY <1>1 DEF Pass, LockReturns
<1>2. CASE FallAsleep
  BY <1>2 DEF FallAsleep, LockBlocks
<1>3. CASE WakeUp
  BY <1>3 DEF WakeUp, LockGranted
<1>4. CASE Release
  BY <1>4 DEF Release, UnlockPiece
<1>5. CASE ReleaseAgain
  BY <1>5 DEF ReleaseAgain, UnlockPiece
<1>6. CASE UNCHANGED vars
  BY <1>6 DEF vars
<1> QED
  BY <1>1, <1>2, <1>3, <1>4, <1>5, <1>6 DEF Next

\* The invariant holds in every reachable state.
THEOREM Invariance == Spec => []Inv
  BY InitInv, StepInv, PTL DEF Spec

\* Type correctness, with the exact ranges of the counters.
THEOREM TypeCorrect == Spec => []TypeOK
<1>1. Inv => TypeOK
  BY WindowCapAssumption, MaxSurplusAssumption
     DEF Inv, Shape, TypeOK, CounterExact, Pending, WindowBound
<1> QED
  BY <1>1, Invariance, PTL

\* The counter of the macros never drifts from the slots they stand for.
THEOREM CounterCorrect == Spec => []CounterExact
  BY Invariance, PTL DEF Inv

\* At most WindowCap pieces are in flight beyond the duplicate releases.
THEOREM WindowRespected == Spec => []WindowBound
  BY Invariance, PTL DEF Inv

\* LOCK_PIECE never leaves the requester asleep on a window with room.
THEOREM NoIdleSleep == Spec => []SleepsOnlyWhenFull
  BY Invariance, PTL DEF Inv

\* The macros refine the abstract window: a slot is taken when LOCK_PIECE
\* returns, given back at UNLOCK_PIECE, and blocking is invisible.
THEOREM Refinement == Spec => ImplementsWindow
<1>1. Init => AbstractWindow!WindowInit
  BY DEF Init, AbstractWindow!WindowInit
<1>2. Inv /\ [Next]_vars => [AbstractWindow!WindowNext]_(AbstractWindow!windowVars)
  <2> SUFFICES ASSUME Inv, [Next]_vars
               PROVE  [AbstractWindow!WindowNext]_(AbstractWindow!windowVars)
    OBVIOUS
  <2> USE WindowCapAssumption
      DEF AbstractWindow!WindowNext, AbstractWindow!windowVars
  <2>1. CASE Pass
    <3>1. held < WindowCap + surplus
      BY <2>1 DEF Inv, Shape, CounterExact, Pending, WindowBound, Pass, LockReturns
    <3> QED
      BY <2>1, <3>1 DEF Pass, AbstractWindow!Take
  <2>2. CASE WakeUp
    BY <2>2 DEF Inv, WindowBound, WakeUp, LockGranted, AbstractWindow!Take
  <2>3. CASE Release
    BY <2>3 DEF Release, AbstractWindow!Give
  <2>4. CASE ReleaseAgain
    BY <2>4 DEF ReleaseAgain, AbstractWindow!GiveAgain
  <2>5. CASE FallAsleep \/ UNCHANGED vars
    BY <2>5 DEF FallAsleep, vars
  <2> QED
    BY <2>1, <2>2, <2>3, <2>4, <2>5 DEF Next
<1> QED
  BY <1>1, <1>2, Invariance, PTL DEF Spec, ImplementsWindow, AbstractWindow!WindowSpec
-----------------------------------------------------------------------------
\* The first of the lengths request_a_piece asks for.
Quarter == piece_len \div sub_pieces_num

\* Types, and that the piece begins inside the file.
RangesShape ==
  /\ piece_len \in Nat \ {0} /\ size \in Nat \ {0}
  /\ start \in Nat /\ start < size
  /\ i \in 0 .. sub_pieces_num
  /\ sub_piece_len \in Nat /\ sub_begin \in Nat
  /\ sent \subseteq [begin : Nat, length : Nat]
  /\ pc \in {"loop", "done"}

\* As long as nothing was clipped, i quarters were requested; after that the
\* requests end with the file.
Progress == \/ /\ sub_piece_len = Quarter
               /\ sub_begin = i * Quarter
            \/ start + sub_begin = size

Bounds == sub_begin <= piece_len /\ start + sub_begin <= size

\* The requests sent fill the piece from its first byte to sub_begin.
Filled == /\ \A r \in sent : r.begin + r.length <= sub_begin
          /\ \A x \in 0 .. sub_begin - 1 : \E r \in sent : x \in Bytes(r)

Ended == pc = "done" => \/ sub_begin = sub_pieces_num * Quarter
                        \/ start + sub_begin = size

RangesInv == RangesShape /\ Progress /\ Bounds /\ Filled /\ NoOverlap /\ Ended

\* Every piece of the torrent begins before the end of the file: num_pieces is
\* not too large.
LEMMA PieceBegins ==
  ASSUME NEW length \in Nat \ {0}, NEW total \in Nat \ {0},
         NEW index \in 0 .. num_pieces(length, total) - 1
  PROVE  index * length \in Nat /\ index * length < total
<1> DEFINE q == total \div length
           r == total % length
<1>1. q \in Nat /\ r \in Nat /\ total = length * q + r
  OBVIOUS
<1>2. index \in Nat /\ index <= q /\ (r = 0 => index + 1 <= q)
  BY <1>1 DEF num_pieces
<1> HIDE DEF q, r
<1>3. index * length \in Nat
  BY <1>2
<1>4. CASE r = 0
  <2>1. (q - (index + 1)) * length >= 0
    BY <1>1, <1>2, <1>4
  <2>2. (q - (index + 1)) * length = length * q - index * length - length
    BY <1>1, <1>2
  <2> QED
    BY <1>1, <1>3, <1>4, <2>1, <2>2
<1>5. CASE r # 0
  <2>1. (q - index) * length >= 0
    BY <1>1, <1>2
  <2>2. (q - index) * length = length * q - index * length
    BY <1>1, <1>2
  <2> QED
    BY <1>1, <1>3, <1>5, <2>1, <2>2
<1> QED
  BY <1>4, <1>5

\* A quarter of the piece fits into it four times.
LEMMA QuarterFits ==
  ASSUME piece_len \in Nat
  PROVE  /\ Quarter \in Nat
         /\ 4 * Quarter <= piece_len
         /\ piece_len % 4 = 0 => 4 * Quarter = piece_len
  BY DEF Quarter, sub_pieces_num

\* Nothing is requested at first.
LEMMA RangesInitInv == RangesInit => RangesInv
<1> SUFFICES ASSUME RangesInit PROVE RangesInv
  OBVIOUS
<1>1. piece_len \in Nat \ {0} /\ size \in Nat \ {0}
  BY RequestAssumption DEF RangesInit
<1>2. start \in Nat /\ start < size
  BY <1>1, PieceBegins DEF RangesInit
<1> QED
  BY <1>1, <1>2, QuarterFits
     DEF RangesInit, RangesInv, RangesShape, Progress, Bounds, Filled, NoOverlap, Ended, Bytes, Quarter, sub_pieces_num

\* A request that is sent, clipped or not, starts where the last one ended and
\* stays within the piece and the file.
LEMMA SendInv ==
  ASSUME RangesInv, SendRequest
  PROVE  RangesInv'
<1> DEFINE len == Clipped(sub_piece_len)
           r == [begin |-> sub_begin, length |-> len]
<1>1. /\ piece_len \in Nat \ {0} /\ size \in Nat \ {0} /\ start \in Nat /\ start < size
      /\ i \in 0 .. 3 /\ sub_piece_len \in Nat /\ sub_begin \in Nat
      /\ sent \subseteq [begin : Nat, length : Nat]
  BY DEF RangesInv, RangesShape, SendRequest, sub_pieces_num
<1>2. /\ Quarter \in Nat /\ 4 * Quarter <= piece_len
      /\ Quarter' = Quarter
  BY <1>1, QuarterFits DEF SendRequest, torrentVars, Quarter, sub_pieces_num
<1>3. len \in Nat /\ sub_begin + len \in Nat /\ start + (sub_begin + len) <= size
  <2>1. CASE PastEnd(sub_piece_len)
    BY <1>1, <2>1 DEF Clipped, PastEnd, SendRequest
  <2>2. CASE ~PastEnd(sub_piece_len)
    BY <1>1, <2>2 DEF Clipped, PastEnd
  <2> QED
    BY <2>1, <2>2
<1>4. Progress' /\ sub_begin + len <= piece_len
  <2>1. CASE PastEnd(sub_piece_len)
    <3>1. len = size - start - sub_begin /\ len > 0 /\ len < sub_piece_len
      BY <1>1, <2>1 DEF Clipped, PastEnd, SendRequest
    <3>2. sub_piece_len = Quarter /\ sub_begin = i * Quarter
      BY <1>1, <3>1 DEF RangesInv, Progress, Bounds
    <3>3. sub_begin + Quarter <= piece_len
      BY <1>1, <1>2, <3>2
    <3> QED
      BY <1>1, <3>1, <3>2, <3>3 DEF Progress, SendRequest, Advance, torrentVars
  <2>2. CASE ~PastEnd(sub_piece_len)
    <3>1. len = sub_piece_len
      BY <2>2 DEF Clipped
    <3>2. CASE start + sub_begin = size
      <4>1. len = 0
        BY <1>1, <2>2, <3>1, <3>2 DEF PastEnd
      <4> QED
        BY <1>1, <3>2, <4>1 DEF RangesInv, Bounds, Progress, SendRequest, Advance, torrentVars
    <3>3. CASE sub_piece_len = Quarter /\ sub_begin = i * Quarter
      <4>1. sub_begin + len = (i + 1) * Quarter /\ sub_begin + len <= piece_len
        BY <1>1, <1>2, <3>1, <3>3
      <4> QED
        BY <1>1, <1>2, <3>1, <3>3, <4>1 DEF Progress, SendRequest, Advance, torrentVars
    <3> QED
      BY <3>2, <3>3 DEF RangesInv, Progress
  <2> QED
    BY <2>1, <2>2
<1>5. RangesShape' /\ Bounds' /\ Ended'
  BY <1>1, <1>3, <1>4 DEF RangesShape, Bounds, Ended, SendRequest, Advance, torrentVars, sub_pieces_num
<1>6. sent' = sent \cup {r} /\ sub_begin' = sub_begin + len
  BY DEF SendRequest, Advance
<1> HIDE DEF len
<1>7. Filled'
  <2>1. \A t \in sent' : t.begin + t.length <= sub_begin'
    BY <1>1, <1>3, <1>6 DEF RangesInv, Filled
  <2>2. ASSUME NEW x \in 0 .. sub_begin' - 1
        PROVE  \E t \in sent' : x \in Bytes(t)
    <3>1. CASE x < sub_begin
      BY <1>1, <1>3, <1>6, <3>1 DEF RangesInv, Filled
    <3>2. CASE x >= sub_begin
      <4>1. x \in Bytes(r)
        BY <1>1, <1>3, <1>6, <3>2 DEF Bytes
      <4> QED
        BY <1>6, <4>1
    <3> QED
      BY <1>1, <1>3, <1>6, <3>1, <3>2
  <2> QED
    BY <2>1, <2>2 DEF Filled
<1>8. NoOverlap'
  <2>1. \A t \in sent : Bytes(t) \cap Bytes(r) = {}
    BY <1>1, <1>3 DEF RangesInv, Filled, Bytes
  <2> QED
    BY <1>6, <2>1 DEF RangesInv, NoOverlap
<1> QED
  BY <1>4, <1>5, <1>7, <1>8 DEF RangesInv

\* The two ways out of the loop.
LEMMA RangesStepInv == RangesInv /\ [RangesNext]_rangeVars => RangesInv'
<1> SUFFICES ASSUME RangesInv, [RangesNext]_rangeVars PROVE RangesInv'
  OBVIOUS
<1>1. CASE SendRequest
  BY <1>1, SendInv
<1>2. CASE ReturnAtEnd
  <2>1. sub_piece_len' = size - start - sub_begin /\ start + sub_begin = size
    BY <1>2 DEF ReturnAtEnd, Clipped, RangesInv, RangesShape, Bounds
  <2> QED
    BY <1>2, <2>1 DEF ReturnAtEnd, RangesInv, RangesShape, Progress, Bounds, Filled, NoOverlap, Ended,
                      Bytes, torrentVars
<1>3. CASE LoopEnds
  <2>1. \/ sub_begin = 4 * Quarter
        \/ start + sub_begin = size
    BY <1>3 DEF LoopEnds, RangesInv, Progress, sub_pieces_num
  <2> QED
    BY <1>3, <2>1 DEF LoopEnds, RangesInv, RangesShape, Progress, Bounds, Filled, NoOverlap, Ended,
                      Bytes, Quarter, torrentVars, sub_pieces_num
<1>4. CASE UNCHANGED rangeVars
  BY <1>4 DEF rangeVars, torrentVars, RangesInv, RangesShape, Progress, Bounds, Filled, NoOverlap, Ended,
              Bytes, Quarter
<1> QED
  BY <1>1, <1>2, <1>3, <1>4 DEF RangesNext

\* The invariant holds in every reachable state.
THEOREM RangesInvariance == RangesSpec => []RangesInv
  BY RangesInitInv, RangesStepInv, PTL DEF RangesSpec

\* No two requests of a piece overlap.
THEOREM RequestsDisjoint == RangesSpec => []NoOverlap
  BY RangesInvariance, PTL DEF RangesInv

\* Every request lies within the piece and the file.
THEOREM RequestsWithinPiece == RangesSpec => []WithinPiece
<1>1. RangesInv => WithinPiece
  BY DEF RangesInv, RangesShape, Bounds, Filled, WithinPiece
<1> QED
  BY <1>1, RangesInvariance, PTL

\* When request_a_piece returns, a piece whose length is a multiple of four has
\* been requested to the last byte that gen_bitfield hashes.
THEOREM PieceCovered == RangesSpec => []CoversPiece
<1>1. RangesInv => CoversPiece
  <2> SUFFICES ASSUME RangesInv, pc = "done", piece_len % 4 = 0
               PROVE  RequestedWhole
    BY DEF CoversPiece, sub_pieces_num
  <2>1. sub_begin = blocksize
    BY QuarterFits DEF RangesInv, RangesShape, Bounds, Ended, blocksize, sub_pieces_num
  <2> QED
    BY <2>1 DEF RangesInv, Filled, RequestedWhole
<1> QED
  BY <1>1, RangesInvariance, PTL
=============================================================================
