------------------------------ MODULE PieceLock ------------------------------
(***************************************************************************)
(* The two macros of peer_wire.c that bound how many pieces are requested  *)
(* at a time:                                                              *)
(*                                                                         *)
(*   LOCK_PIECE    if (++pieces_requesting >= 5) pthread_mutex_lock(m)     *)
(*   UNLOCK_PIECE  if (pieces_requesting-- >= 5) pthread_mutex_unlock(m)   *)
(*                                                                         *)
(* Together they are meant as a counting semaphore.  The mutex m is a      *)
(* default (normal) one: it has no owner that an unlock would check, so a  *)
(* receiver thread may release what the requester thread took, and         *)
(* unlocking a free mutex leaves it free.  Only the requester thread locks *)
(* it.  Each macro is one step here; PieceWindowRace takes them apart.     *)
(*                                                                         *)
(* In this and the other modules a definition commented as a slip is the   *)
(* definition below it with a mistake in it.  No specification uses it: it *)
(* is there to see that the properties notice the mistake.                 *)
(***************************************************************************)
EXTENDS Integers

CONSTANT WindowCap           \* the literal 5 of both macros

ASSUME WindowCapAssumption == WindowCap \in Nat \ {0}

VARIABLES pieces_requesting, \* the counter; duplicate releases drive it below 0
          pieces_state_mutex \* "free" or "taken"

lockVars == <<pieces_requesting, pieces_state_mutex>>

LockInit == /\ pieces_requesting = 0
            /\ pieces_state_mutex = "free"

\* Slip: LOCK_PIECE lets one request too many through.
LockReturnsLate ==
  /\ pieces_requesting' = pieces_requesting + 1
  /\ \/ /\ pieces_requesting' <= WindowCap
        /\ UNCHANGED pieces_state_mutex
     \/ /\ pieces_requesting' > WindowCap
        /\ pieces_state_mutex = "free"
        /\ pieces_state_mutex' = "taken"

\* LOCK_PIECE, when it returns without waiting: the window is not full, or it
\* is and the mutex is free.
LockReturns ==
  /\ pieces_requesting' = pieces_requesting + 1
  /\ \/ /\ pieces_requesting' < WindowCap
        /\ UNCHANGED pieces_state_mutex
     \/ /\ pieces_requesting' >= WindowCap
        /\ pieces_state_mutex = "free"
        /\ pieces_state_mutex' = "taken"

\* LOCK_PIECE, when it has counted up and blocks on the taken mutex.
LockBlocks ==
  /\ pieces_requesting' = pieces_requesting + 1
  /\ pieces_requesting' >= WindowCap
  /\ pieces_state_mutex = "taken"
  /\ UNCHANGED pieces_state_mutex

\* The blocked pthread_mutex_lock of LOCK_PIECE gets the mutex.
LockGranted ==
  /\ pieces_state_mutex = "free"
  /\ pieces_state_mutex' = "taken"
  /\ UNCHANGED pieces_requesting

\* Slip: the comparison is with the counter after the decrement.
UnlockPieceDecremented ==
  /\ pieces_requesting' = pieces_requesting - 1
  /\ pieces_state_mutex' = IF pieces_requesting' >= WindowCap THEN "free"
                                                             ELSE pieces_state_mutex

\* Slip: the release is forgotten.
UnlockPieceForgotten == UNCHANGED lockVars

\* UNLOCK_PIECE: the comparison is with the counter before the decrement.
UnlockPiece ==
  /\ pieces_requesting' = pieces_requesting - 1
  /\ pieces_state_mutex' = IF pieces_requesting >= WindowCap THEN "free"
                                                            ELSE pieces_state_mutex
=============================================================================
