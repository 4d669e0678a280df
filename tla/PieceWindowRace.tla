--------------------------- MODULE PieceWindowRace ---------------------------
(***************************************************************************)
(* LOCK_PIECE and UNLOCK_PIECE instruction by instruction.  The counter is *)
(* a plain int that no lock protects: the requester thread increments it   *)
(* holding nothing, a receiver thread in handle_piece decrements it under  *)
(* the FILE lock, a receiver thread in its disconnect path under the PEER  *)
(* lock.  The unoptimised build loads the counter, stores the changed      *)
(* value, and then compares: LOCK_PIECE compares what it loads again,      *)
(* UNLOCK_PIECE the value it loaded first.  Either macro may be overtaken  *)
(* between two of these steps.                                             *)
(***************************************************************************)
EXTENDS PieceLock

CONSTANTS
  Releasers,    \* receiver threads that may be in UNLOCK_PIECE at once: one
                \* holds the FILE lock, one the PEER lock
  MaxCount,     \* bound on the counter, both ways
  MaxInFlight   \* bound on the requests in flight

VARIABLES pc,           \* where each thread is in its macro: "rest", "loaded", "stored", "asleep"
          loaded,       \* the value of the counter each thread loaded
          inFlight      \* pieces requested and not yet received

vars == <<pieces_requesting, pieces_state_mutex, pc, loaded, inFlight>>

Threads == Releasers \cup {"requester"}

Init == /\ LockInit
        /\ pc = [t \in Threads |-> "rest"]
        /\ loaded = [t \in Threads |-> 0]
        /\ inFlight = 0

Goto(t, from, to) == pc[t] = from /\ pc' = [pc EXCEPT ![t] = to]

Load(t) == loaded' = [loaded EXCEPT ![t] = pieces_requesting]
-----------------------------------------------------------------------------
\* ++pieces_requesting: the load.
LockLoad ==
  /\ pieces_requesting < MaxCount
  /\ inFlight < MaxInFlight
  /\ Goto("requester", "rest", "loaded")
  /\ Load("requester")
  /\ UNCHANGED <<pieces_requesting, pieces_state_mutex, inFlight>>

\* ++pieces_requesting: the store.
LockStore ==
  /\ Goto("requester", "loaded", "stored")
  /\ pieces_requesting' = loaded["requester"] + 1
  /\ UNCHANGED <<pieces_state_mutex, loaded, inFlight>>

\* ... >= 5, on the counter loaded again, and pthread_mutex_lock.  The piece is
\* requested as soon as the macro returns.
LockCompare ==
  \/ /\ Goto("requester", "stored", "rest")
     /\ pieces_requesting < WindowCap
     /\ inFlight' = inFlight + 1
     /\ UNCHANGED <<pieces_requesting, pieces_state_mutex, loaded>>
  \/ /\ Goto("requester", "stored", "rest")
     /\ pieces_requesting >= WindowCap
     /\ LockGranted
     /\ inFlight' = inFlight + 1
     /\ UNCHANGED loaded
  \/ /\ Goto("requester", "stored", "asleep")
     /\ pieces_requesting >= WindowCap
     /\ pieces_state_mutex = "taken"
     /\ UNCHANGED <<pieces_requesting, pieces_state_mutex, loaded, inFlight>>

\* The blocked pthread_mutex_lock gets the mutex.
LockWake ==
  /\ Goto("requester", "asleep", "rest")
  /\ LockGranted
  /\ inFlight' = inFlight + 1
  /\ UNCHANGED loaded

\* pieces_requesting--, for a piece received whole or whose peer left: the load.
UnlockLoad(t) ==
  /\ inFlight > 0
  /\ pieces_requesting > -MaxCount
  /\ Goto(t, "rest", "loaded")
  /\ Load(t)
  /\ inFlight' = inFlight - 1
  /\ UNCHANGED <<pieces_requesting, pieces_state_mutex>>

\* pieces_requesting--: the store.
UnlockStore(t) ==
  /\ Goto(t, "loaded", "stored")
  /\ pieces_requesting' = loaded[t] - 1
  /\ UNCHANGED <<pieces_state_mutex, loaded, inFlight>>

\* ... >= 5, on the value loaded first, and pthread_mutex_unlock.
UnlockCompare(t) ==
  /\ Goto(t, "stored", "rest")
  /\ pieces_state_mutex' = IF loaded[t] >= WindowCap THEN "free"
                                                     ELSE pieces_state_mutex
  /\ UNCHANGED <<pieces_requesting, loaded, inFlight>>

Next == \/ LockLoad \/ LockStore \/ LockCompare \/ LockWake
        \/ \E t \in Releasers : UnlockLoad(t) \/ UnlockStore(t) \/ UnlockCompare(t)

Spec == Init /\ [][Next]_vars
-----------------------------------------------------------------------------
Releasing(t) == pc[t] \in {"loaded", "stored"}

\* peer_wire.c:693 says of the lock that it "will be unlocked in handle_piece
\* when received the whole piece": once everything requested was received and
\* every release has run, the requester is not left blocked on the mutex.
ReceivedMeansUnlocked ==
  pc["requester"] = "asleep" /\ pieces_state_mutex = "taken"
    => inFlight > 0 \/ \E t \in Releasers : Releasing(t)
=============================================================================
