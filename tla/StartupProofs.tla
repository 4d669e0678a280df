--------------------------- MODULE StartupProofs ---------------------------
(***************************************************************************)
(* Proofs about Startup, for any number of pieces, connections, announces  *)
(* and failures: the tracker hears an orderly session, NULL is met only    *)
(* before everything is set up, and no response makes the client forget    *)
(* what it has requested and counted.                                      *)
(***************************************************************************)
EXTENDS Startup, SequenceTheorems, FiniteSetTheorems, TLAPS

\* The event goes with the first request made, and only the handler says "stopped".
Heard ==
  ~Stopping => /\ event = BT_STARTED => heard = <<>>
               /\ \A k \in DOMAIN heard : heard[k] # BT_STOPPED

\* What is there by when.
Ready(place) ==
  /\ place \in {"initialising", "counting", "creating", "connecting", "asleep"}
       => g_tracker_response # NULL
  /\ place \in {"counting", "creating", "connecting", "asleep"}
       => pieces_state_arr # NULL
  /\ place \in {"creating", "connecting", "asleep"} => pieces_num_in_peers # NULL

SetUp ==
  /\ Ready(main)
  /\ pieces_state_arr # NULL => g_tracker_response # NULL
  /\ pieces_num_in_peers # NULL => pieces_state_arr # NULL
  /\ requesters > 0 => pieces_num_in_peers # NULL
  /\ pieces_num_in_peers = NULL => \A c \in Conns : conn[c] # "noted"
  /\ pieces_state_arr = NULL => asked = {}

IInv == TypeOK /\ OrderlySession /\ Heard /\ SetUp /\ Remembered /\ NullOnlyEarly

Noted == {c \in Conns : conn[c] = "noted"}
-----------------------------------------------------------------------------
LEMMA NotNull ==
  ASSUME NEW S, NEW array \in [Pieces -> S] PROVE array # NULL
<1>1. DOMAIN array # DOMAIN NULL  BY StartupAssumption DEF NULL
<1> QED  BY <1>1

LEMMA ArrayTypes ==
  ASSUME TypeOK
  PROVE  /\ pieces_state_arr # NULL => pieces_state_arr \in StateArrays
         /\ pieces_num_in_peers # NULL
              => pieces_num_in_peers \in [Pieces -> 0 .. Cardinality(Conns)]
  BY DEF TypeOK

\* Each step leaves most of the invariant alone.
LEMMA QuietSession ==
  ASSUME OrderlySession, Heard, UNCHANGED <<heard, event>>, Stopping => Stopping'
  PROVE  OrderlySession' /\ Heard'
  BY DEF OrderlySession, Heard

LEMMA QuietArrays ==
  ASSUME Remembered, UNCHANGED <<pieces_state_arr, pieces_num_in_peers,
                                 rest_pieces_num, conn, disk, asked>>
  PROVE  Remembered'
  BY DEF Remembered, InState

LEMMA InitIInv == Init => IInv
<1> SUFFICES ASSUME Init PROVE IInv  OBVIOUS
<1>1. Cardinality(Pieces) \in Nat /\ Cardinality(Conns) \in Nat
  BY StartupAssumption, FS_CardinalityType
<1>2. TypeOK
  <2>1. heard \in Seq({BT_STARTED, NO_EVENT, BT_STOPPED})  BY EmptySeq DEF Init
  <2>2. 0 \in 0 .. MaxFailures /\ 0 \in 0 .. Cardinality(Pieces)
    BY <1>1, StartupAssumption
  <2>3. disk \subseteq Pieces  BY StartupAssumption DEF Init
  <2> QED  BY <2>1, <2>2, <2>3 DEF Init, TypeOK
<1>3. OrderlySession /\ Heard /\ NullOnlyEarly
  BY EmptySeq DEF Init, OrderlySession, Heard, NullOnlyEarly
<1>4. SetUp /\ Remembered
  BY DEF Init, SetUp, Ready, Remembered
<1> QED  BY <1>2, <1>3, <1>4 DEF IInv

\* Steps of the main thread that leave the arrays alone.
LEMMA ListenIInv ==
  ASSUME IInv, Listen \/ InstallHandler PROVE IInv'
<1> USE DEF IInv
<1>1. OrderlySession' /\ Heard'
  BY QuietSession DEF Listen, InstallHandler, MainAt, announceVars, Stopping
<1>2. Remembered'
  BY QuietArrays DEF Listen, InstallHandler, globalInfo, peerVars
<1>3. TypeOK' /\ SetUp' /\ NullOnlyEarly'
  BY DEF Listen, InstallHandler, MainAt, announceVars, setupVars, globalInfo,
         requesterVars, peerVars, TypeOK, SetUp, Ready, NullOnlyEarly
<1> QED  BY <1>1, <1>2, <1>3

\* The only step that says "started", and only when nothing was said before.
LEMMA AnnounceIInv ==
  ASSUME IInv, Announce PROVE IInv'
<1> USE DEF IInv
<1>1. /\ heard \in Seq({BT_STARTED, NO_EVENT, BT_STOPPED})
      /\ event \in {BT_STARTED, NO_EVENT}
  BY DEF TypeOK
<1>2. /\ heard' \in Seq({BT_STARTED, NO_EVENT, BT_STOPPED})
      /\ Len(heard') = Len(heard) + 1 /\ DOMAIN heard' = 1 .. Len(heard) + 1
      /\ DOMAIN heard = 1 .. Len(heard) /\ Len(heard) \in Nat
      /\ \A k \in 1 .. Len(heard) : heard'[k] = heard[k]
      /\ heard'[Len(heard) + 1] = event
  BY <1>1, AppendProperties, LenProperties DEF Announce
<1>3. /\ ~Stopping /\ event' = NO_EVENT
      /\ \A k \in 1 .. Len(heard) : heard[k] # BT_STOPPED
  BY <1>2 DEF Announce, EventUsed, MainAt, Stopping, Heard
<1>4. \A k \in DOMAIN heard' : heard'[k] = BT_STARTED => k = 1
  <2> SUFFICES ASSUME NEW k \in 1 .. Len(heard) + 1, heard'[k] = BT_STARTED
               PROVE  k = 1
    BY <1>2
  <2>1. CASE k \in 1 .. Len(heard)
    BY <1>2, <2>1 DEF OrderlySession
  <2>2. CASE k = Len(heard) + 1
    <3>1. heard = <<>>  BY <1>2, <1>3, <2>2 DEF Heard
    <3> QED  BY <2>2, <3>1, EmptySeq
  <2> QED  BY <1>2, <2>1, <2>2
<1>5. \A k \in DOMAIN heard' : heard'[k] # BT_STOPPED
  <2>1. event # BT_STOPPED  BY <1>1 DEF BT_STARTED, NO_EVENT, BT_STOPPED
  <2> QED  BY <1>2, <1>3, <2>1
<1>6. OrderlySession' /\ Heard'
  BY <1>3, <1>4, <1>5 DEF OrderlySession, Heard, BT_STARTED, NO_EVENT
<1>7. Remembered'
  BY QuietArrays DEF Announce, globalInfo, peerVars
<1>8. TypeOK' /\ SetUp' /\ NullOnlyEarly'
  BY <1>2, <1>3 DEF Announce, MainAt, setupVars, globalInfo, requesterVars, peerVars,
                    TypeOK, SetUp, Ready, NullOnlyEarly
<1> QED  BY <1>6, <1>7, <1>8

LEMMA AnnounceFailsIInv ==
  ASSUME IInv, AnnounceFails PROVE IInv'
<1> USE DEF IInv
<1>1. OrderlySession' /\ Heard'
  BY DEF AnnounceFails, EventUsed, MainAt, Stopping, OrderlySession, Heard,
         BT_STARTED, NO_EVENT
<1>2. Remembered'
  BY QuietArrays DEF AnnounceFails, globalInfo, peerVars
<1>3. failures' \in 0 .. MaxFailures
  BY StartupAssumption DEF AnnounceFails, TypeOK
<1>4. TypeOK' /\ SetUp' /\ NullOnlyEarly'
  BY <1>3 DEF AnnounceFails, EventUsed, MainAt, setupVars, globalInfo,
              requesterVars, peerVars, TypeOK, SetUp, Ready, NullOnlyEarly
<1> QED  BY <1>1, <1>2, <1>4

LEMMA RespondIInv ==
  ASSUME IInv, Respond PROVE IInv'
<1> USE DEF IInv
<1>1. OrderlySession' /\ Heard'
  BY QuietSession DEF Respond, MainAt, announceVars, Stopping
<1>2. Remembered'
  BY QuietArrays DEF Respond, peerVars
<1>3. g_tracker_response' \in [{1} -> {"peer"}] /\ g_tracker_response' # NULL
  <2>1. g_tracker_response' = [i \in {1} |-> "peer"]  BY DEF Respond
  <2>2. DOMAIN g_tracker_response' # DOMAIN NULL  BY <2>1 DEF NULL
  <2> QED  BY <2>1, <2>2
<1>4. TypeOK' /\ SetUp' /\ NullOnlyEarly'
  BY <1>3 DEF Respond, MainAt, announceVars, setupVars, requesterVars, peerVars,
              TypeOK, SetUp, Ready, NullOnlyEarly
<1> QED  BY <1>1, <1>2, <1>4

LEMMA RefuseIInv ==
  ASSUME IInv, Refuse \/ Exit \/ Killed PROVE IInv'
<1> USE DEF IInv
<1>1. UNCHANGED <<main, announceVars, setupVars, globalInfo, requesterVars, peerVars>>
      /\ process' \in {"refused", "exited"}
  BY DEF Refuse, Exit, Killed, MainAt
<1>2. OrderlySession' /\ Heard'
  BY <1>1, QuietSession DEF announceVars, Stopping
<1>3. Remembered'  BY <1>1, QuietArrays DEF globalInfo, peerVars
<1>4. TypeOK' /\ SetUp' /\ NullOnlyEarly'
  BY <1>1 DEF announceVars, setupVars, globalInfo, requesterVars, peerVars, TypeOK,
              SetUp, Ready, NullOnlyEarly
<1> QED  BY <1>2, <1>3, <1>4

\* The arrays are made once: for a later response this step changes nothing.
LEMMA InitStatesIInv ==
  ASSUME IInv, InitPiecesStateArr PROVE IInv'
<1> USE DEF IInv
<1>1. OrderlySession' /\ Heard'
  BY QuietSession DEF InitPiecesStateArr, MainAt, announceVars, Stopping
<1>2. CASE pieces_state_arr = NULL
  <2>1. /\ pieces_state_arr' = [i \in Pieces |-> IF i \in disk THEN PIECE_COMPLETED
                                                               ELSE PIECE_HAVNT]
        /\ rest_pieces_num' = Cardinality(Pieces \ disk)
        /\ UNCHANGED <<pieces_num_in_peers, conn, disk, asked>>
        /\ asked = {} /\ pieces_num_in_peers = NULL /\ disk \subseteq Pieces
    BY <1>2 DEF InitPiecesStateArr, Absent, peerVars, SetUp, TypeOK
  <2>2. pieces_state_arr' \in StateArrays  BY <2>1 DEF StateArrays
  <2>3. pieces_state_arr' # NULL  BY <2>2, NotNull DEF StateArrays
  <2>4. rest_pieces_num' \in 0 .. Cardinality(Pieces)
    <3>1. IsFiniteSet(Pieces \ disk) /\ Cardinality(Pieces \ disk) <= Cardinality(Pieces)
      BY StartupAssumption, FS_Subset, Pieces \ disk \subseteq Pieces
    <3>2. Cardinality(Pieces \ disk) \in Nat /\ Cardinality(Pieces) \in Nat
      BY <3>1, StartupAssumption, FS_CardinalityType
    <3> QED  BY <2>1, <3>1, <3>2
  <2>5. Remembered'
    <3>1. /\ {i \in Pieces : pieces_state_arr'[i] = PIECE_REQUESTING} = {}
          /\ {i \in Pieces : pieces_state_arr'[i] = PIECE_COMPLETED} = disk
          /\ {i \in Pieces : pieces_state_arr'[i] = PIECE_HAVNT} = Pieces \ disk
      BY <2>1 DEF PIECE_REQUESTING, PIECE_COMPLETED, PIECE_HAVNT
    <3> QED  BY <2>1, <3>1 DEF Remembered, InState
  <2>6. TypeOK' /\ SetUp' /\ NullOnlyEarly'
    BY <2>2, <2>3, <2>4, <1>2
       DEF InitPiecesStateArr, MainAt, announceVars, setupVars, requesterVars, peerVars,
           TypeOK, SetUp, Ready, NullOnlyEarly
  <2> QED  BY <1>1, <2>5, <2>6
<1>3. CASE pieces_state_arr # NULL
  <2>1. UNCHANGED <<globalInfo, peerVars>>
    BY <1>3 DEF InitPiecesStateArr, Absent, globalInfo
  <2>2. Remembered'  BY <2>1, QuietArrays DEF globalInfo, peerVars
  <2>3. TypeOK' /\ SetUp' /\ NullOnlyEarly'
    BY <1>3, <2>1 DEF InitPiecesStateArr, MainAt, announceVars, setupVars,
                      requesterVars, globalInfo, peerVars, TypeOK, SetUp, Ready,
                      NullOnlyEarly
  <2> QED  BY <1>1, <2>2, <2>3
<1> QED  BY <1>2, <1>3

LEMMA InitCountsIInv ==
  ASSUME IInv, process = "running", InitPiecesNumInPeers PROVE IInv'
<1> USE DEF IInv
<1>1. OrderlySession' /\ Heard'
  BY QuietSession DEF InitPiecesNumInPeers, MainAt, announceVars, Stopping
<1>2. Cardinality(Conns) \in Nat  BY StartupAssumption, FS_CardinalityType
<1>3. CASE pieces_num_in_peers = NULL
  <2>1. /\ pieces_num_in_peers' = [i \in Pieces |-> 0]
        /\ \A c \in Conns : conn[c] # "noted"
        /\ UNCHANGED <<pieces_state_arr, rest_pieces_num, conn, disk, asked>>
    BY <1>3 DEF InitPiecesNumInPeers, Absent, peerVars, SetUp
  <2>2. pieces_num_in_peers' \in [Pieces -> 0 .. Cardinality(Conns)]  BY <1>2, <2>1
  <2>3. pieces_num_in_peers' # NULL  BY <2>2, NotNull
  <2>4. Remembered'
    <3>1. Noted = {} /\ Noted' = Noted  BY <2>1 DEF Noted
    <3>2. Cardinality(Noted') = 0  BY <3>1, FS_EmptySet
    <3> QED  BY <2>1, <3>2 DEF Remembered, InState, Noted
  <2>5. /\ main = "counting" /\ main' = "creating"
        /\ UNCHANGED <<process, announceVars, setupVars, g_tracker_response,
                       requesterVars>>
    BY DEF InitPiecesNumInPeers, MainAt
  <2>6. TypeOK'
    BY <2>1, <2>2, <2>5 DEF announceVars, setupVars, requesterVars, TypeOK
  <2>7. SetUp'
    BY <2>1, <2>3, <2>5 DEF requesterVars, SetUp, Ready
  <2>8. NullOnlyEarly'
    BY <2>5 DEF NullOnlyEarly
  <2> QED  BY <1>1, <2>4, <2>6, <2>7, <2>8
<1>4. CASE pieces_num_in_peers # NULL
  <2>1. UNCHANGED <<globalInfo, peerVars>>
    BY <1>4 DEF InitPiecesNumInPeers, Absent, globalInfo
  <2>2. Remembered'  BY <2>1, QuietArrays DEF globalInfo, peerVars
  <2>3. TypeOK' /\ SetUp' /\ NullOnlyEarly'
    BY <1>4, <2>1 DEF InitPiecesNumInPeers, MainAt, announceVars, setupVars,
                      requesterVars, globalInfo, peerVars, TypeOK, SetUp, Ready,
                      NullOnlyEarly
  <2> QED  BY <1>1, <2>2, <2>3
<1> QED  BY <1>3, <1>4

LEMMA CreateIInv ==
  ASSUME IInv, CreateRequestFileThread PROVE IInv'
<1> USE DEF IInv
<1>1. OrderlySession' /\ Heard'
  BY QuietSession DEF CreateRequestFileThread, MainAt, announceVars, Stopping
<1>2. Remembered'
  BY QuietArrays DEF CreateRequestFileThread, globalInfo, peerVars
<1>3. created' \in {0, 1} /\ requesters' = created'
  BY DEF CreateRequestFileThread, NotYetCreated, Marked, requesterVars, TypeOK
<1>4. TypeOK' /\ SetUp' /\ NullOnlyEarly'
  BY <1>3 DEF CreateRequestFileThread, MainAt, announceVars, setupVars, globalInfo,
              peerVars, TypeOK, SetUp, Ready, NullOnlyEarly
<1> QED  BY <1>1, <1>2, <1>4

LEMMA PeerConnectIInv ==
  ASSUME IInv, PeerConnect PROVE IInv'
<1> USE DEF IInv
<1>1. OrderlySession' /\ Heard'
  BY QuietSession DEF PeerConnect, MainAt, announceVars, Stopping
<1>2. /\ conn' \in [Conns -> {"none", "open", "noted"}]
      /\ \A c \in Conns : conn'[c] = "noted" <=> conn[c] = "noted"
  BY DEF PeerConnect, TypeOK
<1>3. Remembered'
  <2>1. Noted' = Noted  BY <1>2 DEF Noted
  <2> QED  BY <2>1 DEF PeerConnect, globalInfo, Remembered, InState, Noted
<1>4. TypeOK' /\ SetUp' /\ NullOnlyEarly'
  BY <1>2 DEF PeerConnect, MainAt, announceVars, setupVars, globalInfo, requesterVars,
              TypeOK, SetUp, Ready, NullOnlyEarly
<1> QED  BY <1>1, <1>3, <1>4

LEMMA WakeIInv ==
  ASSUME IInv, Wake PROVE IInv'
<1> USE DEF IInv
<1>1. OrderlySession' /\ Heard'
  BY QuietSession DEF Wake, MainAt, announceVars, Stopping
<1>2. Remembered'  BY QuietArrays DEF Wake, peerVars
<1>3. TypeOK' /\ SetUp' /\ NullOnlyEarly'
  BY DEF Wake, ResponseKept, MainAt, announceVars, setupVars, requesterVars, peerVars,
         TypeOK, SetUp, Ready, NullOnlyEarly
<1> QED  BY <1>1, <1>2, <1>3

\* A peer comes before the first response, or after it.
LEMMA AcceptIInv ==
  ASSUME IInv, NEW c \in Conns, Accept(c) PROVE IInv'
<1> USE DEF IInv
<1>1. OrderlySession' /\ Heard'
  BY QuietSession DEF Accept, announceVars, Stopping
<1>2. /\ conn' \in [Conns -> {"none", "open", "noted"}]
      /\ \A d \in Conns : conn'[d] = "noted" <=> conn[d] = "noted"
      /\ UNCHANGED <<globalInfo, disk, asked>>
  BY DEF Accept, Dies, peerVars, TypeOK
<1>3. Remembered'
  <2>1. Noted' = Noted  BY <1>2 DEF Noted
  <2> QED  BY <1>2, <2>1 DEF globalInfo, Remembered, InState, Noted
<1>4. NullOnlyEarly'
  BY DEF Accept, Dies, globalInfo, NullOnlyEarly, SetUp
<1>5. process' \in {process, "null_met"}  BY DEF Accept, Dies
<1>6. TypeOK' /\ SetUp'
  BY <1>2, <1>5 DEF Accept, announceVars, setupVars, globalInfo, requesterVars,
                    TypeOK, SetUp, Ready
<1> QED  BY <1>1, <1>3, <1>4, <1>6

LEMMA BitfieldIInv ==
  ASSUME IInv, NEW c \in Conns, HandleBitfield(c) PROVE IInv'
<1> USE DEF IInv
<1>1. OrderlySession' /\ Heard'
  BY QuietSession DEF HandleBitfield, announceVars, Stopping
<1>2. CASE NULL \in {pieces_num_in_peers, pieces_state_arr}
  <2>1. process' = "null_met" /\ UNCHANGED <<globalInfo, peerVars>>
        /\ pieces_num_in_peers = NULL
    BY <1>2 DEF HandleBitfield, Dies, SetUp
  <2>2. Remembered'  BY <2>1, QuietArrays DEF globalInfo, peerVars
  <2>3. TypeOK' /\ SetUp' /\ NullOnlyEarly'
    BY <2>1 DEF HandleBitfield, announceVars, setupVars, globalInfo, requesterVars,
                peerVars, TypeOK, SetUp, Ready, NullOnlyEarly
  <2> QED  BY <1>1, <2>2, <2>3
<1>3. CASE ~(NULL \in {pieces_num_in_peers, pieces_state_arr})
  <2>1. /\ pieces_num_in_peers # NULL /\ pieces_state_arr # NULL
        /\ conn[c] = "open" /\ conn' = [conn EXCEPT ![c] = "noted"]
        /\ pieces_num_in_peers' = [i \in Pieces |-> pieces_num_in_peers[i] + 1]
        /\ UNCHANGED <<process, g_tracker_response, pieces_state_arr, rest_pieces_num,
                       disk, asked>>
        /\ conn \in [Conns -> {"none", "open", "noted"}]
    BY <1>3 DEF HandleBitfield, TypeOK
  <2>2. Noted' = Noted \cup {c} /\ c \notin Noted /\ Noted' \subseteq Conns
    BY <2>1 DEF Noted
  <2>3. /\ IsFiniteSet(Noted) /\ Cardinality(Noted') = Cardinality(Noted) + 1
        /\ Cardinality(Noted') <= Cardinality(Conns)
        /\ Cardinality(Noted) \in Nat /\ Cardinality(Conns) \in Nat
    <3>1. IsFiniteSet(Noted) /\ IsFiniteSet(Noted')
          /\ Cardinality(Noted') <= Cardinality(Conns)
      BY <2>2, StartupAssumption, FS_Subset
    <3>2. Cardinality(Noted') = Cardinality(Noted) + 1
      BY <2>2, <3>1, FS_AddElement
    <3> QED  BY <3>1, <3>2, StartupAssumption, FS_CardinalityType
  <2>4. \A i \in Pieces : pieces_num_in_peers[i] = Cardinality(Noted)
    BY <2>1 DEF Remembered, Noted
  <2>5. \A i \in Pieces : pieces_num_in_peers'[i] = Cardinality(Noted')
    BY <2>1, <2>3, <2>4
  <2>6. pieces_num_in_peers' \in [Pieces -> 0 .. Cardinality(Conns)]
    BY <2>1, <2>3, <2>4
  <2>7. pieces_num_in_peers' # NULL  BY <2>6, NotNull
  <2>8. Remembered'
    BY <2>1, <2>5, <2>7 DEF Remembered, InState, Noted
  <2>9. TypeOK' /\ SetUp' /\ NullOnlyEarly'
    <3>1. conn' \in [Conns -> {"none", "open", "noted"}]  BY <2>1
    <3>2. UNCHANGED <<main, announceVars, setupVars, requesterVars>>
      BY DEF HandleBitfield
    <3>3. TypeOK'
      BY <2>1, <2>6, <3>1, <3>2 DEF announceVars, setupVars, requesterVars, TypeOK
    <3>4. process # "null_met"  BY <2>1 DEF NullOnlyEarly
    <3>5. SetUp' /\ NullOnlyEarly'
      BY <2>1, <2>7, <3>2, <3>4 DEF requesterVars, SetUp, Ready, NullOnlyEarly
    <3> QED  BY <3>3, <3>5
  <2> QED  BY <1>1, <2>8, <2>9
<1> QED  BY <1>2, <1>3

LEMMA RequestIInv ==
  ASSUME IInv, NEW i \in Pieces, Request(i) PROVE IInv'
<1> USE DEF IInv
<1>1. OrderlySession' /\ Heard'
  BY QuietSession DEF Request, announceVars, Stopping
<1>2. pieces_num_in_peers # NULL /\ pieces_state_arr # NULL
      /\ pieces_state_arr \in [Pieces -> {PIECE_REQUESTING, PIECE_COMPLETED, PIECE_HAVNT}]
  BY ArrayTypes DEF Request, SetUp, StateArrays
<1>3. /\ pieces_state_arr[i] = PIECE_HAVNT
      /\ pieces_state_arr' = [pieces_state_arr EXCEPT ![i] = PIECE_REQUESTING]
      /\ rest_pieces_num' = rest_pieces_num - 1 /\ asked' = asked \cup {i}
      /\ UNCHANGED <<pieces_num_in_peers, conn, disk>>
  BY DEF Request
<1>4. pieces_state_arr' \in StateArrays  BY <1>2, <1>3 DEF StateArrays
<1>5. pieces_state_arr' # NULL  BY <1>4, NotNull DEF StateArrays
<1>6. /\ InState(PIECE_REQUESTING)' = InState(PIECE_REQUESTING) \cup {i}
      /\ InState(PIECE_COMPLETED)' = InState(PIECE_COMPLETED)
      /\ InState(PIECE_HAVNT)' = InState(PIECE_HAVNT) \ {i} /\ i \in InState(PIECE_HAVNT)
  BY <1>2, <1>3 DEF InState, PIECE_REQUESTING, PIECE_COMPLETED, PIECE_HAVNT
<1>7. /\ Cardinality(InState(PIECE_HAVNT)') = Cardinality(InState(PIECE_HAVNT)) - 1
      /\ Cardinality(InState(PIECE_HAVNT)') \in Nat
  <2>1. IsFiniteSet(InState(PIECE_HAVNT))
    <3>1. InState(PIECE_HAVNT) \subseteq Pieces  BY DEF InState
    <3> QED  BY <3>1, StartupAssumption, FS_Subset
  <2> QED  BY <1>6, <2>1, FS_RemoveElement, FS_CardinalityType
<1>8. rest_pieces_num = Cardinality(InState(PIECE_HAVNT)) /\ asked = InState(PIECE_REQUESTING)
      /\ InState(PIECE_COMPLETED) = disk
  BY <1>2 DEF Remembered
<1>9. rest_pieces_num' \in 0 .. Cardinality(Pieces)
  <2>1. Cardinality(Pieces) \in Nat /\ rest_pieces_num \in 0 .. Cardinality(Pieces)
    BY StartupAssumption, FS_CardinalityType DEF TypeOK
  <2> QED  BY <1>3, <1>7, <1>8, <2>1
<1>10. Remembered'
  BY <1>3, <1>6, <1>7, <1>8 DEF Remembered
<1>11. TypeOK' /\ SetUp' /\ NullOnlyEarly'
  BY <1>2, <1>3, <1>4, <1>5, <1>9
     DEF Request, announceVars, setupVars, requesterVars, TypeOK, SetUp, Ready,
         NullOnlyEarly
<1> QED  BY <1>1, <1>10, <1>11

LEMMA PieceIInv ==
  ASSUME IInv, NEW i \in Pieces, HandlePiece(i) PROVE IInv'
<1> USE DEF IInv
<1>1. OrderlySession' /\ Heard'
  BY QuietSession DEF HandlePiece, announceVars, Stopping
<1>2. CASE Dies("file_closed")
  <2>1. Remembered'  BY <1>2, QuietArrays DEF Dies, globalInfo, peerVars
  <2>2. TypeOK' /\ SetUp' /\ NullOnlyEarly'
    BY <1>2 DEF Dies, HandlePiece, announceVars, setupVars, globalInfo, requesterVars,
                peerVars, TypeOK, SetUp, Ready, NullOnlyEarly
  <2> QED  BY <1>1, <2>1, <2>2
<1>3. CASE ~Dies("file_closed")
  <2>1. pieces_state_arr # NULL
        /\ pieces_state_arr \in [Pieces -> {PIECE_REQUESTING, PIECE_COMPLETED, PIECE_HAVNT}]
    BY ArrayTypes DEF HandlePiece, SetUp, StateArrays
  <2>2. /\ i \in asked /\ disk' = disk \cup {i} /\ asked' = asked \ {i}
        /\ pieces_state_arr' = [pieces_state_arr EXCEPT ![i] = PIECE_COMPLETED]
        /\ UNCHANGED <<process, g_tracker_response, pieces_num_in_peers,
                       rest_pieces_num, conn>>
    BY <1>3 DEF HandlePiece
  <2>3. asked = InState(PIECE_REQUESTING) /\ InState(PIECE_COMPLETED) = disk
        /\ rest_pieces_num = Cardinality(InState(PIECE_HAVNT))
    BY <2>1 DEF Remembered
  <2>4. pieces_state_arr' \in StateArrays  BY <2>1, <2>2 DEF StateArrays
  <2>5. pieces_state_arr' # NULL  BY <2>4, NotNull DEF StateArrays
  <2>6. /\ InState(PIECE_REQUESTING)' = InState(PIECE_REQUESTING) \ {i}
        /\ InState(PIECE_COMPLETED)' = InState(PIECE_COMPLETED) \cup {i}
        /\ InState(PIECE_HAVNT)' = InState(PIECE_HAVNT)
    BY <2>1, <2>2, <2>3 DEF InState, PIECE_REQUESTING, PIECE_COMPLETED, PIECE_HAVNT
  <2>7. Remembered'  BY <2>2, <2>3, <2>6 DEF Remembered
  <2>8. TypeOK' /\ SetUp' /\ NullOnlyEarly'
    BY <2>1, <2>2, <2>4, <2>5
       DEF HandlePiece, announceVars, setupVars, requesterVars, TypeOK, SetUp, Ready,
           NullOnlyEarly
  <2> QED  BY <1>1, <2>7, <2>8
<1> QED  BY <1>2, <1>3

\* Nothing follows "stopped": the thread that announces is the one that stops.
LEMMA SendStoppedIInv ==
  ASSUME IInv, SendStopped PROVE IInv'
<1> USE DEF IInv
<1>1. /\ heard \in Seq({BT_STARTED, NO_EVENT, BT_STOPPED})
      /\ interruptible /\ ~Stopping /\ Stopping' /\ UNCHANGED event
  BY DEF TypeOK, SendStopped, Stopping
<1>2. Remembered'  BY QuietArrays DEF SendStopped, globalInfo, peerVars
<1>3. heard' \in Seq({BT_STARTED, NO_EVENT, BT_STOPPED}) /\ OrderlySession' /\ Heard'
  <2>1. CASE heard' = heard
    BY <1>1, <2>1 DEF OrderlySession, Heard
  <2>2. CASE heard' = Append(heard, BT_STOPPED)
    <3>1. /\ heard' \in Seq({BT_STARTED, NO_EVENT, BT_STOPPED})
          /\ Len(heard') = Len(heard) + 1 /\ DOMAIN heard' = 1 .. Len(heard) + 1
          /\ DOMAIN heard = 1 .. Len(heard) /\ Len(heard) \in Nat
          /\ \A k \in 1 .. Len(heard) : heard'[k] = heard[k]
          /\ heard'[Len(heard) + 1] = BT_STOPPED
      BY <1>1, <2>2, AppendProperties, LenProperties
    <3>2. ASSUME NEW k \in DOMAIN heard'
          PROVE  /\ heard'[k] = BT_STARTED => k = 1
                 /\ heard'[k] = BT_STOPPED => k = Len(heard')
      <4>1. CASE k \in 1 .. Len(heard)
        BY <1>1, <3>1, <4>1 DEF OrderlySession, Heard
      <4>2. CASE k = Len(heard) + 1
        BY <3>1, <4>2 DEF BT_STARTED, BT_STOPPED
      <4> QED  BY <3>1, <4>1, <4>2
    <3>3. OrderlySession'  BY <3>2 DEF OrderlySession
    <3>4. Heard'  BY <1>1 DEF Heard
    <3> QED  BY <3>1, <3>3, <3>4
  <2> QED  BY <2>1, <2>2 DEF SendStopped
<1>4. TypeOK' /\ SetUp' /\ NullOnlyEarly'
  BY <1>3 DEF SendStopped, setupVars, globalInfo, requesterVars, peerVars, TypeOK,
              SetUp, Ready, NullOnlyEarly
<1> QED  BY <1>2, <1>3, <1>4

LEMMA CloseFilesIInv ==
  ASSUME IInv, CloseFiles PROVE IInv'
<1> USE DEF IInv
<1>1. OrderlySession' /\ Heard'
  BY QuietSession DEF CloseFiles, MainAt, announceVars, Stopping
<1>2. Remembered'  BY QuietArrays DEF CloseFiles, globalInfo, peerVars
<1>3. TypeOK' /\ SetUp' /\ NullOnlyEarly'
  BY DEF CloseFiles, MainAt, announceVars, globalInfo, requesterVars, peerVars, TypeOK,
         SetUp, Ready, NullOnlyEarly
<1> QED  BY <1>1, <1>2, <1>3
-----------------------------------------------------------------------------
LEMMA NextIInv == IInv /\ [Next]_vars => IInv'
<1> SUFFICES ASSUME IInv, [Next]_vars PROVE IInv'  OBVIOUS
<1>1. CASE UNCHANGED vars
  BY <1>1 DEF IInv, vars, announceVars, setupVars, globalInfo, requesterVars, peerVars,
     TypeOK, OrderlySession, Heard, Stopping, SetUp, Ready, Remembered, InState,
     NullOnlyEarly
<1>2. CASE process = "running" /\ Main
  BY <1>2, ListenIInv, AnnounceIInv, AnnounceFailsIInv, RespondIInv, RefuseIInv,
     InitStatesIInv, InitCountsIInv, CreateIInv, PeerConnectIInv, WakeIInv DEF Main
<1>3. CASE Handler
  BY <1>3, SendStoppedIInv, CloseFilesIInv, RefuseIInv DEF Handler
<1>4. ASSUME NEW c \in Conns, Accept(c) \/ HandleBitfield(c) PROVE IInv'
  BY <1>4, AcceptIInv, BitfieldIInv
<1>5. ASSUME NEW i \in Pieces, Request(i) \/ HandlePiece(i) PROVE IInv'
  BY <1>5, RequestIInv, PieceIInv
<1> QED  BY <1>1, <1>2, <1>3, <1>4, <1>5 DEF Next

LEMMA Invariance == Spec => []IInv
  BY InitIInv, NextIInv, PTL DEF Spec

\* Every variable keeps its type; one requester is created.
THEOREM TypeCorrect == Spec => []TypeOK
  BY Invariance, PTL DEF IInv

\* The tracker hears "started" first and once or never, and "stopped" last.
THEOREM SessionOrderly == Spec => []OrderlySession
  BY Invariance, PTL DEF IInv

\* Running main's initialisation for every response forgets nothing.
THEOREM NothingForgotten == Spec => []Remembered
  BY Invariance, PTL DEF IInv

\* A peer meets NULL only while the arrays are set up for the first time.
THEOREM NullNotLater == Spec => []NullOnlyEarly
  BY Invariance, PTL DEF IInv
=============================================================================
