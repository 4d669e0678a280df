----------------------------- MODULE PieceWindow -----------------------------
(***************************************************************************)
(* The piece window as the threads of the client use it.  The requester    *)
(* thread (request_file) takes a slot with LOCK_PIECE before it asks for a *)
(* piece; handle_piece gives it back when the piece is whole, and the      *)
(* disconnect path of message_handler when the peer it was asked from      *)
(* leaves.  handle_piece also runs UNLOCK_PIECE for every further block of *)
(* a piece that is already whole: a release of a slot nobody holds.        *)
(***************************************************************************)
EXTENDS PieceLock

CONSTANT MaxSurplus          \* bound on the duplicate releases explored

ASSUME MaxSurplusAssumption == MaxSurplus \in Nat

VARIABLES requester,         \* "free", or "asleep" inside LOCK_PIECE
          held,              \* slots whose LOCK_PIECE returned, not given back
          surplus            \* duplicate releases so far

vars == <<pieces_requesting, pieces_state_mutex, requester, held, surplus>>

Init == /\ LockInit
        /\ requester = "free"
        /\ held = 0
        /\ surplus = 0

\* request_file passes LOCK_PIECE at once.
Pass == /\ requester = "free"
        /\ LockReturns
        /\ held' = held + 1
        /\ UNCHANGED <<requester, surplus>>

\* request_file blocks in LOCK_PIECE.
FallAsleep == /\ requester = "free"
              /\ LockBlocks
              /\ requester' = "asleep"
              /\ UNCHANGED <<held, surplus>>

\* The blocked requester gets the mutex and has its slot.
WakeUp == /\ requester = "asleep"
          /\ LockGranted
          /\ requester' = "free"
          /\ held' = held + 1
          /\ UNCHANGED surplus

\* handle_piece completes a requested piece, or its peer disconnects.
Release == /\ held > 0
           /\ UnlockPiece
           /\ held' = held - 1
           /\ UNCHANGED <<requester, surplus>>

\* handle_piece receives one more block of a piece that is whole already.
ReleaseAgain == /\ surplus < MaxSurplus
                /\ UnlockPiece
                /\ surplus' = surplus + 1
                /\ UNCHANGED <<requester, held>>

Next == Pass \/ FallAsleep \/ WakeUp \/ Release \/ ReleaseAgain

Spec == Init /\ [][Next]_vars

\* The requester is a running thread, so a grantable lock is granted; and every
\* requested piece is delivered in the end or its peer leaves.
FairSpec == Spec /\ WF_vars(WakeUp) /\ WF_vars(Release)
-----------------------------------------------------------------------------
\* 1 when LOCK_PIECE has counted the requester but not let it through.
Pending == IF requester = "asleep" THEN 1 ELSE 0

\* Types, with the exact ranges of the counters.
TypeOK == /\ pieces_requesting \in (-MaxSurplus) .. (WindowCap + 1)
          /\ pieces_state_mutex \in {"free", "taken"}
          /\ requester \in {"free", "asleep"}
          /\ held \in 0 .. (WindowCap + MaxSurplus)
          /\ surplus \in 0 .. MaxSurplus

\* The counter of the macros is the number of slots held and awaited, less the
\* duplicate releases: the two macros never lose count of each other.
CounterExact == pieces_requesting = held + Pending - surplus

\* The window: with the mutex free there is room for one more request, and at
\* no time are there more than WindowCap in flight beyond the duplicate
\* releases, though LOCK_PIECE compares the counter before it takes the mutex.
WindowBound == /\ held <= WindowCap + surplus
               /\ pieces_state_mutex = "free" => held < WindowCap + surplus

\* The requester sleeps on the mutex only while at least WindowCap - 1 requests
\* are in flight: there is always a release to come that frees the mutex, even
\* though UNLOCK_PIECE skips the unlock when the counter is below WindowCap.
SleepsOnlyWhenFull ==
  requester = "asleep" /\ pieces_state_mutex = "taken"
    => /\ pieces_requesting >= WindowCap
       /\ held >= WindowCap - 1 + surplus

\* A requester asleep in LOCK_PIECE gets its slot in the end, if the pieces in
\* flight arrive or their peers leave.
GetsItsSlot == requester = "asleep" ~> requester = "free"

\* The macros implement the abstract window.
AbstractWindow == INSTANCE Window
ImplementsWindow == AbstractWindow!WindowSpec
=============================================================================
