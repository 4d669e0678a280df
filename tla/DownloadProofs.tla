--------------------------- MODULE DownloadProofs ---------------------------
(***************************************************************************)
(* For any number of pieces, sub-pieces and connections, whatever memory   *)
(* malloc returns, whatever is in the file at the start, whether blocks    *)
(* are cut short or not, and whoever leaves when:                          *)
(*   - the state keeps its type;                                           *)
(*   - as long as no leftover memory was taken for an announcement, the    *)
(*     phase before the end game is right: the requester's choice does not *)
(*     go stale while it waits, no block is requested twice at a time, a   *)
(*     complete piece stays complete, and rest_pieces_num counts what it   *)
(*     should;                                                             *)
(*   - as long as moreover no piece was found complete while blocks of it  *)
(*     were to come, have_pieces_num counts what it should, and the piece  *)
(*     window is kept;                                                     *)
(*   - a complete piece is whole in all phases, unless a block was cut     *)
(*     short and one of the two went amiss before the end game;            *)
(*   - and the second does not happen in a file in which the last block of *)
(*     no piece is right but that of a whole one.                          *)
(***************************************************************************)
EXTENDS Download, FiniteSetTheorems, SequenceTheorems, TLAPS

\* The requests of a piece are requests for blocks.
LEMMA RequestsOfPiece ==
  ASSUME NEW i \in Pieces
  PROVE  [s \in 1 .. SubPieces |-> <<i, s>>] \in Seq(Blocks)
  BY DownloadAssumption DEF Blocks

\* What is sent goes behind what is on the wire.
LEMMA LongerWire ==
  ASSUME NEW sent \in Seq(Blocks), NEW asks \in Seq(Blocks)
  PROVE  /\ DOMAIN (sent \o asks) = 1 .. Len(sent) + Len(asks)
         /\ \A k \in 1 .. Len(sent) + Len(asks) :
              (sent \o asks)[k] = IF k <= Len(sent) THEN sent[k] ELSE asks[k - Len(sent)]
<1>1. sent \o asks \in Seq(Blocks) /\ Len(sent \o asks) = Len(sent) + Len(asks)
  BY ConcatProperties
<1>2. DOMAIN (sent \o asks) = 1 .. Len(sent \o asks)
  BY <1>1, LenProperties
<1> QED
  BY <1>1, <1>2, ConcatProperties

\* request_a_piece keeps the types of what it writes.
LEMMA RequestPieceType ==
  ASSUME TypeOK, NEW c \in Conns, NEW i \in Pieces, RequestPiece(c, i)
  PROVE  /\ pieces_state_arr' \in [Pieces -> {PIECE_REQUESTING, PIECE_COMPLETED, PIECE_HAVNT}
                                               \cup {Claim(d) : d \in Conns}]
         /\ wire' \in [Conns -> Seq(Blocks)]
<1>1. wire[c] \o [s \in 1 .. SubPieces |-> <<i, s>>] \in Seq(Blocks)
  BY RequestsOfPiece, ConcatProperties DEF TypeOK
<1> QED
  BY <1>1 DEF TypeOK, RequestPiece

\* The counters are numbers at the start.
LEMMA InitType == Init => TypeOK
<1> SUFFICES ASSUME Init PROVE TypeOK
  OBVIOUS
<1> USE DownloadAssumption
<1>1. disk \subseteq Blocks
  BY DEF Init
<1>2. Cardinality(Missing(disk)) \in Nat
  <2>1. IsFiniteSet(Pieces)
    BY FS_Interval DEF Pieces
  <2>2. IsFiniteSet(Missing(disk))
    BY <2>1, FS_Subset DEF Missing
  <2> QED
    BY <2>2, FS_CardinalityType
<1>3. rest_pieces_num \in Int /\ have_pieces_num \in Int
  BY <1>2 DEF Init
<1>4. 0 \in Pieces /\ 0 \in 0 .. NumPieces
  BY DEF Pieces
<1> QED
  BY <1>1, <1>3, <1>4 DEF Init, LockInit, TypeOK, PEER_HAVNT

\* What may be recorded of a piece of a peer, and where a receiver may be.
PeerStates == Int

ReceiverStates == {"absent", "new", "reading", "counting", "serving", "claiming",
                   "checking", "scanning", "uncounting", "turning", "gone"}

\* Recording one piece of one peer keeps the type of what is known of the peers.
LEMMA RecordType ==
  ASSUME TypeOK, NEW c \in Conns, NEW i \in Pieces, NEW s \in PeerStates
  PROVE  [peer_pieces_state EXCEPT ![c][i] = s] \in [Conns -> [Pieces -> PeerStates]]
<1> DEFINE row == [peer_pieces_state[c] EXCEPT ![i] = s]
<1>1. peer_pieces_state \in [Conns -> [Pieces -> PeerStates]]
  BY DEF TypeOK, PeerStates
<1>2. row \in [Pieces -> PeerStates]
  BY <1>1
<1> QED
  BY <1>1, <1>2

\* A receiver that moves keeps the type of the receivers' places.
LEMMA GotoType ==
  ASSUME TypeOK, NEW c \in Conns, NEW from, NEW to \in ReceiverStates, Goto(c, from, to)
  PROVE  /\ hpc' \in [Conns -> ReceiverStates]
         /\ \A d \in Conns : d # c => hpc'[d] = hpc[d]
         /\ hpc[c] = from /\ hpc'[c] = to
  BY DEF TypeOK, Goto, ReceiverStates

\* A piece is completed by the receiver that checks it.
LEMMA CompleteType ==
  ASSUME TypeOK, NEW c \in Conns, PieceComplete(c)
  PROVE  /\ cursor[c] \in Pieces /\ hpc[c] = "checking" /\ hpc'[c] = "serving"
         /\ \A d \in Conns : d # c => hpc'[d] = hpc[d]
<1>1. Goto(c, "checking", "serving")
  BY DEF PieceComplete
<1>2. /\ hpc[c] = "checking" /\ hpc'[c] = "serving"
      /\ \A d \in Conns : d # c => hpc'[d] = hpc[d]
  BY <1>1, GotoType DEF ReceiverStates
<1> QED
  BY <1>2 DEF TypeOK

\* UNLOCK_PIECE and the returns of LOCK_PIECE keep the type of the lock.
LEMMA LockType ==
  ASSUME TypeOK, LockReturns \/ LockBlocks \/ LockGranted \/ UnlockPiece
  PROVE  pieces_requesting' \in Int /\ pieces_state_mutex' \in {"free", "taken"}
  BY DEF TypeOK, LockReturns, LockBlocks, LockGranted, UnlockPiece

\* Every step of the requester keeps the type.
LEMMA RequesterType ==
  ASSUME TypeOK, Requester
  PROVE  TypeOK'
<1> USE DownloadAssumption
    DEF vars, lockVars, sharedVars, peerVars, wireVars, requesterVars, receiverVars
<1>1. CASE ChoosePiece
  BY <1>1 DEF TypeOK, ChoosePiece
<1>2. CASE FindPeer
  <2>1. \A k \in DOMAIN pool : pool[k] \in Conns /\ pool[k] # NULL
    BY DEF TypeOK, NULL
  <2>2. amiss' \subseteq {"misread", "early"}
    BY <1>2 DEF TypeOK, FindPeer, Note
  <2> QED
    BY <1>2, <2>1, <2>2 DEF TypeOK, FindPeer
<1>3. CASE TakeSlot
  <2>1. pool # <<>> => Head(pool) \in Conns /\ Head(pool) # NULL
    BY DEF TypeOK, NULL
  <2>2. CASE rpc = "lock" /\ LockReturns /\ AfterLock
    BY <1>3, <2>1, <2>2, LockType DEF TypeOK, TakeSlot, AfterLock
  <2>3. CASE rpc = "lock" /\ LockBlocks /\ rpc' = "asleep" /\ UNCHANGED rPeer
    BY <1>3, <2>3, LockType DEF TypeOK, TakeSlot
  <2>4. CASE rpc = "asleep" /\ LockGranted /\ AfterLock
    BY <1>3, <2>1, <2>4, LockType DEF TypeOK, TakeSlot, AfterLock
  <2> QED
    BY <1>3, <2>2, <2>3, <2>4 DEF TakeSlot
<1>4. CASE AskPeer
  <2>1. rPeer \in Conns /\ rIndex \in Pieces
    BY <1>4 DEF TypeOK, AskPeer
  <2> QED
    BY <1>4, <2>1, RequestPieceType DEF TypeOK, AskPeer
<1>5. CASE BookRequest
  <2>1. rPeer \in Conns /\ rIndex \in Pieces
    BY <1>5 DEF TypeOK, BookRequest
  <2>2. peer_pieces_state' \in [Conns -> [Pieces -> PeerStates]]
    BY <1>5, <2>1, RecordType DEF BookRequest, PeerStates, PEER_BE_REQUESTED
  <2>3. downloaded_from' \in [Conns -> Nat] /\ rest_pieces_num' \in Int
    <3>1. downloaded_from \in [Conns -> Nat] /\ rest_pieces_num \in Int
      BY DEF TypeOK
    <3> QED
      BY <1>5, <2>1, <3>1 DEF BookRequest, Booked
  <2> QED
    BY <1>5, <2>1, <2>2, <2>3 DEF TypeOK, BookRequest, PeerStates
<1>6. CASE LeaveLoop
  BY <1>6 DEF TypeOK, LeaveLoop
<1>7. CASE StartEndGame
  BY <1>7 DEF TypeOK, StartEndGame
<1>8. CASE ChooseLast
  BY <1>8 DEF TypeOK, ChooseLast
<1>9. CASE WalkAsk
  <2>1. rPeer \in Conns /\ rIndex \in Pieces
    BY <1>9 DEF TypeOK, WalkAsk
  <2>2. CASE peer_pieces_state[rPeer][rIndex] = PEER_HAVE
    BY <1>9, <2>1, <2>2, RequestPieceType DEF TypeOK, WalkAsk
  <2>3. CASE peer_pieces_state[rPeer][rIndex] # PEER_HAVE
    BY <1>9, <2>1, <2>3 DEF TypeOK, WalkAsk
  <2> QED
    BY <2>2, <2>3
<1>10. CASE WalkMark
  <2>1. rPeer \in Conns /\ rIndex \in Pieces
    BY <1>10 DEF TypeOK, WalkMark
  <2>2. peer_pieces_state' \in [Conns -> [Pieces -> PeerStates]]
    BY <1>10, <2>1, RecordType DEF WalkMark, PeerStates, PEER_BE_REQUESTED
  <2> QED
    BY <1>10, <2>1, <2>2 DEF TypeOK, WalkMark, PeerStates
<1>11. CASE WalkNext
  <2>1. \A k \in DOMAIN pool : k # Len(pool) => pool[k + 1] \in Conns /\ pool[k + 1] # NULL
    BY DEF TypeOK, NULL
  <2> QED
    BY <1>11, <2>1 DEF TypeOK, WalkNext, StepFrom
<1>12. CASE WalkFreedNode
  <2>1. \A k \in DOMAIN pool : pool[k] \in Conns /\ pool[k] # NULL
    BY DEF TypeOK, NULL
  <2> QED
    BY <1>12, <2>1 DEF TypeOK, WalkFreedNode
<1> QED
  BY <1>1, <1>2, <1>3, <1>4, <1>5, <1>6, <1>7, <1>8, <1>9, <1>10, <1>11, <1>12
     DEF Requester

\* A block that arrives is a requested one, and leaves the wire well typed.
LEMMA ArrivalType ==
  ASSUME TypeOK, NEW c \in Conns, NEW torn \in BOOLEAN, HandlePiece(c, torn)
  PROVE  /\ Head(wire[c]) \in Blocks /\ Head(wire[c])[1] \in Pieces
         /\ wire' \in [Conns -> Seq(Blocks)] /\ cut' \subseteq Conns
<1>1. wire[c] \in Seq(Blocks) /\ wire[c] # <<>>
  BY DEF TypeOK, HandlePiece
<1>2. Head(wire[c]) \in Blocks /\ Tail(wire[c]) \in Seq(Blocks) /\ <<>> \in Seq(Blocks)
  BY <1>1
<1>3. Head(wire[c])[1] \in Pieces
  BY <1>2 DEF Blocks
<1>4. wire' = [wire EXCEPT ![c] = Tail(@)] \/ wire' = [wire EXCEPT ![c] = <<>>]
  BY DEF HandlePiece, Arrives
<1>5. wire' \in [Conns -> Seq(Blocks)]
  BY <1>2, <1>4 DEF TypeOK
<1>6. cut' \subseteq Conns
  BY DEF TypeOK, HandlePiece, Arrives
<1> QED
  BY <1>2, <1>3, <1>5, <1>6

\* Every step of a receiver keeps the type.
LEMMA ReceiverType ==
  ASSUME TypeOK, NEW c \in Conns, Receiver(c) \/ Environment(c)
  PROVE  TypeOK'
<1> USE DownloadAssumption
    DEF vars, lockVars, sharedVars, peerVars, wireVars, requesterVars, receiverVars
<1>1. CASE Connect(c)
  <2>1. <<c>> \o pool \in Seq(Conns)
    BY ConcatProperties DEF TypeOK
  <2>2. peer_pieces_state' \in [Conns -> [Pieces -> Int]]
    BY <1>1 DEF TypeOK, Connect
  <2>3. hpc' \in [Conns -> ReceiverStates] /\ hpc'[c] = "new"
        /\ \A d \in Conns : d # c => hpc'[d] = hpc[d]
    BY <1>1, GotoType DEF Connect, ReceiverStates
  <2> QED
    BY <1>1, <2>1, <2>2, <2>3 DEF TypeOK, Connect, ReceiverStates
<1>2. CASE HandleBitfield(c)
  <2>1. hpc' \in [Conns -> ReceiverStates] /\ hpc'[c] = "reading"
        /\ \A d \in Conns : d # c => hpc'[d] = hpc[d]
    BY <1>2, GotoType DEF HandleBitfield, ReceiverStates
  <2>2. /\ cursor' \in [Conns -> 0 .. NumPieces]
        /\ \A d \in Conns : d # c => cursor'[d] = cursor[d]
    BY <1>2 DEF TypeOK, HandleBitfield
  <2> QED
    BY <1>2, <2>1, <2>2 DEF TypeOK, HandleBitfield, ReceiverStates
<1>10. CASE HearPiece(c)
  <2>1. cursor[c] \in Pieces /\ cursor[c] + 1 \in 0 .. NumPieces
    <3>1. cursor[c] \in 0 .. NumPieces /\ cursor[c] < NumPieces
      BY <1>10 DEF TypeOK, HearPiece
    <3> QED
      BY <3>1 DEF Pieces
  <2>2. CASE Announces(c, cursor[c])
    <3>1. hpc' \in [Conns -> ReceiverStates] /\ hpc'[c] = "counting"
          /\ \A d \in Conns : d # c => hpc'[d] = hpc[d]
      BY <1>10, <2>2, GotoType DEF HearPiece, ReceiverStates
    <3>2. peer_pieces_state' \in [Conns -> [Pieces -> Int]]
      <4>1. PEER_HAVE \in PeerStates
        BY DEF PeerStates, PEER_HAVE
      <4>2. [peer_pieces_state EXCEPT ![c][cursor[c]] = PEER_HAVE]
              \in [Conns -> [Pieces -> PeerStates]]
        BY <2>1, <4>1, RecordType
      <4> QED
        BY <1>10, <2>2, <4>2 DEF HearPiece, PeerStates
    <3>3. loaded' \in [Conns -> Int]
      BY <1>10, <2>1, <2>2 DEF TypeOK, HearPiece
    <3> QED
      BY <1>10, <2>1, <2>2, <3>1, <3>2, <3>3 DEF TypeOK, HearPiece, ReceiverStates
  <2>3. CASE ~Announces(c, cursor[c])
    <3>1. hpc' \in [Conns -> ReceiverStates] /\ hpc'[c] = "reading"
          /\ \A d \in Conns : d # c => hpc'[d] = hpc[d]
      BY <1>10, <2>3, GotoType DEF HearPiece, ReceiverStates
    <3>2. /\ cursor' \in [Conns -> 0 .. NumPieces]
          /\ \A d \in Conns : d # c => cursor'[d] = cursor[d]
      <4>1. cursor' = [cursor EXCEPT ![c] = cursor[c] + 1]
        BY <1>10, <2>3 DEF HearPiece
      <4>2. cursor \in [Conns -> 0 .. NumPieces] /\ cursor[c] + 1 \in 0 .. NumPieces
        BY <2>1 DEF TypeOK, Pieces
      <4> QED
        BY <4>1, <4>2
    <3> QED
      BY <1>10, <2>3, <3>1, <3>2 DEF TypeOK, HearPiece, ReceiverStates
  <2> QED
    BY <2>2, <2>3
<1>11. CASE CountPiece(c)
  <2>1. hpc' \in [Conns -> ReceiverStates] /\ hpc[c] = "counting" /\ hpc'[c] = "reading"
        /\ \A d \in Conns : d # c => hpc'[d] = hpc[d]
    BY <1>11, GotoType DEF CountPiece, ReceiverStates
  <2>2. cursor[c] \in Pieces /\ cursor[c] + 1 \in 0 .. NumPieces /\ loaded[c] + 1 \in Int
    <3>1. cursor[c] \in Pieces /\ loaded[c] \in Int
      BY <2>1 DEF TypeOK
    <3> QED
      BY <3>1 DEF Pieces
  <2>3. /\ pieces_num_in_peers' \in [Pieces -> Int]
        /\ loaded' \in [Conns -> Int]
        /\ cursor' \in [Conns -> 0 .. NumPieces]
        /\ \A d \in Conns : d # c => cursor'[d] = cursor[d]
    <3>1. /\ pieces_num_in_peers \in [Pieces -> Int] /\ loaded \in [Conns -> Int]
          /\ cursor \in [Conns -> 0 .. NumPieces]
      BY DEF TypeOK
    <3>2. /\ pieces_num_in_peers' = [pieces_num_in_peers EXCEPT ![cursor[c]] = loaded[c] + 1]
          /\ loaded' = [loaded EXCEPT ![c] = 0]
          /\ cursor' = [cursor EXCEPT ![c] = cursor[c] + 1]
      BY <1>11 DEF CountPiece
    <3> QED
      BY <2>2, <3>1, <3>2
  <2> QED
    BY <1>11, <2>1, <2>3 DEF TypeOK, CountPiece, ReceiverStates
<1>12. CASE CloseBitfield(c)
  <2>1. hpc' \in [Conns -> ReceiverStates] /\ hpc'[c] = "serving"
        /\ \A d \in Conns : d # c => hpc'[d] = hpc[d]
    BY <1>12, GotoType DEF CloseBitfield, ReceiverStates
  <2> QED
    BY <1>12, <2>1 DEF TypeOK, CloseBitfield, ReceiverStates
<1>13. CASE ClaimPiece(c)
  <2>1. hpc' \in [Conns -> ReceiverStates] /\ hpc[c] = "claiming" /\ hpc'[c] = "checking"
        /\ \A d \in Conns : d # c => hpc'[d] = hpc[d]
    BY <1>13, GotoType DEF ClaimPiece, ReceiverStates
  <2>2. cursor[c] \in Pieces
    BY <2>1 DEF TypeOK
  <2>3. pieces_state_arr' \in [Pieces -> {PIECE_REQUESTING, PIECE_COMPLETED, PIECE_HAVNT}
                                           \cup {Claim(d) : d \in Conns}]
    BY <1>13, <2>2 DEF TypeOK, ClaimPiece
  <2> QED
    BY <1>13, <2>1, <2>2, <2>3 DEF TypeOK, ClaimPiece, ReceiverStates
<1>3. ASSUME NEW torn \in BOOLEAN, HandlePiece(c, torn)
      PROVE  TypeOK'
  <2> DEFINE b == Head(wire[c])
  <2>1. b \in Blocks /\ b[1] \in Pieces /\ b[1] \in 0 .. NumPieces
    BY <1>3, ArrivalType DEF Pieces
  <2>2. wire' \in [Conns -> Seq(Blocks)] /\ cut' \subseteq Conns
    BY <1>3, ArrivalType
  <2> HIDE DEF b
  <2>3. disk' \subseteq Blocks
    <3>1. disk' = disk \/ WriteBlock(b, torn)
      BY <1>3 DEF HandlePiece, b
    <3> QED
      BY <2>1, <3>1 DEF TypeOK, WriteBlock
  <2>4. /\ hpc' \in [Conns -> ReceiverStates]
        /\ cursor' \in [Conns -> 0 .. NumPieces]
        /\ \A d \in Conns :
             hpc'[d] \in {"counting", "claiming", "checking", "uncounting", "turning"}
               => cursor'[d] \in Pieces
    <3>1. \/ UNCHANGED <<hpc, cursor>>
          \/ \E to \in {"checking", "claiming"} :
               Goto(c, "serving", to) /\ cursor' = [cursor EXCEPT ![c] = b[1]]
      BY <1>3 DEF HandlePiece, b
    <3>2. CASE UNCHANGED <<hpc, cursor>>
      BY <3>2 DEF TypeOK, ReceiverStates
    <3>3. ASSUME NEW to \in {"checking", "claiming"}, Goto(c, "serving", to),
                 cursor' = [cursor EXCEPT ![c] = b[1]]
          PROVE  <2>4!1 /\ <2>4!2 /\ <2>4!3
      <4>1. hpc' \in [Conns -> ReceiverStates] /\ \A d \in Conns : d # c => hpc'[d] = hpc[d]
        BY <3>3, GotoType DEF ReceiverStates
      <4>2. /\ cursor' \in [Conns -> 0 .. NumPieces] /\ cursor'[c] = b[1]
            /\ \A d \in Conns : d # c => cursor'[d] = cursor[d]
        BY <2>1, <3>3 DEF TypeOK
      <4> QED
        BY <2>1, <4>1, <4>2 DEF TypeOK
    <3> QED
      BY <3>1, <3>2, <3>3
  <2> QED
    BY <1>3, <2>2, <2>3, <2>4 DEF TypeOK, HandlePiece, ReceiverStates
<1>4. CASE PieceComplete(c)
  <2>1. cursor[c] \in Pieces
    BY <1>4 DEF TypeOK, PieceComplete, Goto
  <2>2. peer_pieces_state' \in [Conns -> [Pieces -> PeerStates]]
    BY <1>4, <2>1, RecordType DEF PieceComplete, PeerStates, PEER_HAVE
  <2>3. hpc' \in [Conns -> ReceiverStates] /\ hpc'[c] = "serving"
        /\ \A d \in Conns : d # c => hpc'[d] = hpc[d]
    BY <1>4, GotoType DEF PieceComplete, ReceiverStates
  <2>4. pieces_state_arr' \in [Pieces -> {PIECE_REQUESTING, PIECE_COMPLETED, PIECE_HAVNT}
                                           \cup {Claim(d) : d \in Conns}]
    BY <1>4, <2>1 DEF TypeOK, PieceComplete
  <2>5. isseed' \in {0, 1} /\ have_pieces_num' \in Int
    BY <1>4 DEF TypeOK, PieceComplete
  <2>6. pieces_requesting' \in Int /\ pieces_state_mutex' \in {"free", "taken"}
    BY <1>4, LockType DEF PieceComplete
  <2>7. amiss' \subseteq {"misread", "early"}
    BY <1>4 DEF TypeOK, PieceComplete, Note
  <2> QED
    BY <1>4, <2>2, <2>3, <2>4, <2>5, <2>6, <2>7
       DEF TypeOK, PieceComplete, PeerStates, ReceiverStates
<1>5. CASE PieceIncomplete(c)
  BY <1>5 DEF TypeOK, PieceIncomplete, Goto
<1>6. CASE Disconnect(c)
  <2>1. hpc' \in [Conns -> ReceiverStates] /\ hpc'[c] = "scanning"
        /\ \A d \in Conns : d # c => hpc'[d] = hpc[d]
    BY <1>6 DEF TypeOK, Disconnect, ReceiverStates
  <2>2. cursor' \in [Conns -> 0 .. NumPieces] /\ wire' \in [Conns -> Seq(Blocks)]
        /\ \A d \in Conns : d # c => cursor'[d] = cursor[d]
    BY <1>6 DEF TypeOK, Disconnect
  <2>3. amiss' \subseteq {"misread", "early"}
    BY <1>6 DEF TypeOK, Disconnect, Note
  <2> QED
    BY <1>6, <2>1, <2>2, <2>3 DEF TypeOK, Disconnect, ReceiverStates
<1>7. CASE ScanPiece(c)
  <2>1. cursor[c] \in Pieces /\ cursor[c] + 1 \in 0 .. NumPieces
    <3>1. cursor[c] \in 0 .. NumPieces /\ cursor[c] < NumPieces
      BY <1>7 DEF TypeOK, ScanPiece
    <3> QED
      BY <3>1 DEF Pieces
  <2>2. CASE Leaves(c, cursor[c])
    <3>1. hpc' \in [Conns -> ReceiverStates] /\ hpc'[c] = "uncounting"
          /\ \A d \in Conns : d # c => hpc'[d] = hpc[d]
      BY <1>7, <2>2, GotoType DEF ScanPiece, ReceiverStates
    <3>2. loaded' \in [Conns -> Int]
      BY <1>7, <2>1, <2>2 DEF TypeOK, ScanPiece
    <3> QED
      BY <1>7, <2>1, <2>2, <3>1, <3>2 DEF TypeOK, ScanPiece, ReceiverStates
  <2>3. CASE ~Leaves(c, cursor[c])
    <3>1. hpc' \in [Conns -> ReceiverStates] /\ hpc'[c] = "scanning"
          /\ \A d \in Conns : d # c => hpc'[d] = hpc[d]
      BY <1>7, <2>3, GotoType DEF ScanPiece, ReceiverStates
    <3>2. /\ cursor' \in [Conns -> 0 .. NumPieces]
          /\ \A d \in Conns : d # c => cursor'[d] = cursor[d]
      <4>1. cursor' = [cursor EXCEPT ![c] = cursor[c] + 1]
        BY <1>7, <2>3 DEF ScanPiece
      <4>2. cursor \in [Conns -> 0 .. NumPieces] /\ cursor[c] + 1 \in 0 .. NumPieces
        BY <2>1 DEF TypeOK, Pieces
      <4> QED
        BY <4>1, <4>2
    <3> QED
      BY <1>7, <2>3, <3>1, <3>2 DEF TypeOK, ScanPiece, ReceiverStates
  <2> QED
    BY <2>2, <2>3
<1>14. CASE UncountPiece(c)
  <2>1. hpc[c] = "uncounting"
    BY <1>14 DEF UncountPiece
  <2>2. cursor[c] \in Pieces /\ cursor[c] + 1 \in 0 .. NumPieces /\ loaded[c] - 1 \in Int
    <3>1. cursor[c] \in Pieces /\ loaded[c] \in Int
      BY <2>1 DEF TypeOK
    <3> QED
      BY <3>1 DEF Pieces
  <2>3. pieces_num_in_peers' \in [Pieces -> Int] /\ loaded' \in [Conns -> Int]
    <3>1. pieces_num_in_peers \in [Pieces -> Int] /\ loaded \in [Conns -> Int]
      BY DEF TypeOK
    <3>2. /\ pieces_num_in_peers' = [pieces_num_in_peers EXCEPT ![cursor[c]] = loaded[c] - 1]
          /\ loaded' = [loaded EXCEPT ![c] = 0]
      BY <1>14 DEF UncountPiece
    <3> QED
      BY <2>2, <3>1, <3>2
  <2>4. CASE Turns(c, cursor[c])
    <3>1. hpc' \in [Conns -> ReceiverStates] /\ hpc'[c] = "turning"
          /\ \A d \in Conns : d # c => hpc'[d] = hpc[d]
      BY <1>14, <2>4, GotoType DEF UncountPiece, ReceiverStates
    <3> QED
      BY <1>14, <2>2, <2>3, <2>4, <3>1 DEF TypeOK, UncountPiece, ReceiverStates
  <2>5. CASE ~Turns(c, cursor[c])
    <3>1. hpc' \in [Conns -> ReceiverStates] /\ hpc'[c] = "scanning"
          /\ \A d \in Conns : d # c => hpc'[d] = hpc[d]
      BY <1>14, <2>5, GotoType DEF UncountPiece, ReceiverStates
    <3>2. /\ cursor' \in [Conns -> 0 .. NumPieces]
          /\ \A d \in Conns : d # c => cursor'[d] = cursor[d]
      <4>1. cursor' = [cursor EXCEPT ![c] = cursor[c] + 1]
        BY <1>14, <2>5 DEF UncountPiece
      <4>2. cursor \in [Conns -> 0 .. NumPieces]
        BY DEF TypeOK
      <4> QED
        BY <2>2, <4>1, <4>2
    <3> QED
      BY <1>14, <2>3, <2>5, <3>1, <3>2 DEF TypeOK, UncountPiece, ReceiverStates
  <2> QED
    BY <2>4, <2>5
<1>8. CASE TurnBack(c)
  <2>1. cursor[c] \in Pieces /\ cursor[c] + 1 \in 0 .. NumPieces
    <3>1. hpc[c] = "turning"
      BY <1>8 DEF TurnBack, Goto
    <3>2. cursor[c] \in Pieces
      BY <3>1 DEF TypeOK
    <3> QED
      BY <3>2, DownloadAssumption DEF Pieces
  <2> QED
    BY <1>8, <2>1, LockType DEF TypeOK, TurnBack, Goto
<1>9. CASE RemoveNode(c)
  <2>1. \A k \in DOMAIN pool :
          SubSeq(pool, 1, k - 1) \o SubSeq(pool, k + 1, Len(pool)) \in Seq(Conns)
    <3> SUFFICES ASSUME NEW k \in DOMAIN pool
                 PROVE  SubSeq(pool, 1, k - 1) \o SubSeq(pool, k + 1, Len(pool)) \in Seq(Conns)
      OBVIOUS
    <3>1. pool \in Seq(Conns) /\ k \in 1 .. Len(pool) /\ Len(pool) \in Nat
      <4>1. pool \in Seq(Conns)
        BY DEF TypeOK
      <4> QED
        BY <4>1, LenProperties
    <3>2. \A m \in 1 .. Len(pool) : pool[m] \in Conns
      BY <3>1
    <3>3. SubSeq(pool, 1, k - 1) \in Seq(Conns)
      <4>1. 1 \in Int /\ k - 1 \in Int /\ \A m \in 1 .. k - 1 : pool[m] \in Conns
        BY <3>1, <3>2
      <4> QED
        BY <4>1, SubSeqProperties
    <3>4. SubSeq(pool, k + 1, Len(pool)) \in Seq(Conns)
      <4>1. k + 1 \in Int /\ Len(pool) \in Int /\ \A m \in k + 1 .. Len(pool) : pool[m] \in Conns
        BY <3>1, <3>2
      <4> QED
        BY <4>1, SubSeqProperties
    <3> QED
      BY <3>3, <3>4, ConcatProperties
  <2>2. pool' \in Seq(Conns)
    BY <1>9, <2>1 DEF RemoveNode
  <2>3. hpc' \in [Conns -> ReceiverStates] /\ hpc'[c] = "gone"
        /\ \A d \in Conns : d # c => hpc'[d] = hpc[d]
    BY <1>9, GotoType DEF RemoveNode, ReceiverStates
  <2> QED
    BY <1>9, <2>2, <2>3 DEF TypeOK, RemoveNode, ReceiverStates
<1> QED
  BY <1>1, <1>2, <1>3, <1>4, <1>5, <1>6, <1>7, <1>8, <1>9, <1>10, <1>11, <1>12, <1>13, <1>14
     DEF Receiver, Environment

\* Every step keeps the types.
LEMMA TypeStep == TypeOK /\ [Next]_vars => TypeOK'
<1> SUFFICES ASSUME TypeOK, [Next]_vars PROVE TypeOK'
  OBVIOUS
<1>1. CASE UNCHANGED vars
  BY <1>1 DEF vars, lockVars, sharedVars, peerVars, wireVars, requesterVars,
              receiverVars, TypeOK
<1> QED
  BY <1>1, RequesterType, ReceiverType DEF Next

\* Type correctness.
THEOREM TypeCorrect == Spec => []TypeOK
  BY InitType, TypeStep, PTL DEF Spec
-----------------------------------------------------------------------------
(***************************************************************************)
(* Whole pieces.  As long as no block was cut short the right bytes of the *)
(* file only grow, and only PieceComplete, which has compared the hash     *)
(* under the FILE lock, makes a piece PIECE_COMPLETED.                     *)
(***************************************************************************)

\* What is right on disk stays right.
LEMMA DiskGrows ==
  ASSUME [Next]_vars, cut' = {}
  PROVE  cut = {} /\ disk \subseteq disk'
<1> USE DEF vars, lockVars, sharedVars, peerVars, wireVars, requesterVars, receiverVars
<1>1. CASE Requester
  BY <1>1 DEF Requester, ChoosePiece, FindPeer, TakeSlot, AskPeer, BookRequest, LeaveLoop,
              StartEndGame, ChooseLast, WalkAsk, WalkMark, WalkNext, WalkFreedNode
<1>2. ASSUME NEW c \in Conns, Receiver(c) \/ Environment(c)
      PROVE  cut = {} /\ disk \subseteq disk'
  <2>1. CASE HandlePiece(c, FALSE)
    BY <2>1 DEF HandlePiece, Arrives, WriteBlock
  <2>2. CASE HandlePiece(c, TRUE)
    BY <2>2 DEF HandlePiece, Arrives
  <2>3. CASE ~HandlePiece(c, FALSE) /\ ~HandlePiece(c, TRUE)
    BY <1>2, <2>3 DEF Receiver, Environment, Connect, HandleBitfield, HearPiece, CountPiece,
                      CloseBitfield, ClaimPiece, PieceComplete, PieceIncomplete, Disconnect,
                      ScanPiece, UncountPiece, TurnBack, RemoveNode
  <2> QED
    BY <2>1, <2>2, <2>3
<1>3. CASE UNCHANGED vars
  BY <1>3
<1> QED
  BY <1>1, <1>2, <1>3 DEF Next

\* A piece becomes PIECE_COMPLETED only when it is whole.
LEMMA CompletedByHash ==
  ASSUME TypeOK, [Next]_vars, NEW i \in Pieces, pieces_state_arr'[i] = PIECE_COMPLETED
  PROVE  pieces_state_arr[i] = PIECE_COMPLETED \/ Whole(i)
<1> USE DEF vars, lockVars, sharedVars, peerVars, wireVars, requesterVars, receiverVars
<1>1. pieces_state_arr \in [Pieces -> {PIECE_REQUESTING, PIECE_COMPLETED, PIECE_HAVNT}
                                        \cup {Claim(d) : d \in Conns}]
  BY DEF TypeOK
<1>2. CASE Requester
  BY <1>1, <1>2
     DEF Requester, ChoosePiece, FindPeer, TakeSlot, AskPeer, BookRequest, LeaveLoop,
         StartEndGame, ChooseLast, WalkAsk, WalkMark, WalkNext, WalkFreedNode,
         RequestPiece, PIECE_REQUESTING, PIECE_COMPLETED
<1>3. ASSUME NEW c \in Conns, Receiver(c) \/ Environment(c)
      PROVE  pieces_state_arr[i] = PIECE_COMPLETED \/ Whole(i)
  <2>1. CASE ClaimPiece(c)
    <3>1. Claim(c) # PIECE_COMPLETED
      BY DownloadAssumption DEF Claim, PIECE_END_GAME_GETED, PIECE_COMPLETED
    <3> QED
      BY <1>1, <2>1, <3>1 DEF ClaimPiece
  <2>2. CASE PieceComplete(c)
    BY <1>1, <2>2 DEF PieceComplete, HashMatches
  <2>3. CASE TurnBack(c)
    BY <1>1, <2>3 DEF TurnBack, PIECE_HAVNT, PIECE_COMPLETED
  <2>4. CASE ~(ClaimPiece(c) \/ PieceComplete(c) \/ TurnBack(c))
    <3>1. pieces_state_arr' = pieces_state_arr
      BY <1>3, <2>4 DEF Receiver, Environment, Connect, HandleBitfield, HearPiece, CountPiece,
                        CloseBitfield, HandlePiece, PieceIncomplete, Disconnect, ScanPiece,
                        UncountPiece, RemoveNode
    <3> QED
      BY <3>1
  <2> QED
    BY <2>1, <2>2, <2>3, <2>4
<1>4. CASE UNCHANGED vars
  BY <1>4
<1> QED
  BY <1>2, <1>3, <1>4 DEF Next
-----------------------------------------------------------------------------
(***************************************************************************)
(* What holds in all phases: the first is not come back to, and nothing is *)
(* on its way from a peer that is not served.                              *)
(***************************************************************************)

\* The hash of piece i is checked by c's receiver.
Checks(c, i) == hpc[c] = "checking" /\ cursor[c] = i

\* Which phase the threads are in.
Phases ==
  /\ rpc \in {"find", "ask", "book", "spin"} => is_end_game = 0
  /\ rpc \in {"walk", "mark", "next"} => is_end_game = 1
  /\ rpc = "spin" \/ is_end_game = 1 => ~Requesting
  /\ \A c \in Conns : hpc[c] = "claiming" => is_end_game = 1

Silent == \A c \in Conns : hpc[c] \in Leaving \cup {"absent", "gone"} => wire[c] = <<>>

\* The invariant of all phases.
Course == Phases /\ Silent

\* Neither the end game nor what went amiss before it is taken back.
LEMMA NeverBack ==
  ASSUME TypeOK, [Next]_vars
  PROVE  (BeforeEndGame' => BeforeEndGame) /\ amiss \subseteq amiss'
<1> USE DEF vars, lockVars, sharedVars, peerVars, wireVars, requesterVars, receiverVars,
            BeforeEndGame
<1>1. CASE Requester
  BY <1>1 DEF Requester, ChoosePiece, FindPeer, TakeSlot, AskPeer, BookRequest, LeaveLoop,
              StartEndGame, ChooseLast, WalkAsk, WalkMark, WalkNext, WalkFreedNode, Note
<1>2. ASSUME NEW c \in Conns, Receiver(c) \/ Environment(c)
      PROVE  UNCHANGED is_end_game /\ amiss \subseteq amiss'
  BY <1>2 DEF Receiver, Environment, Connect, HandleBitfield, HearPiece, CountPiece,
              CloseBitfield, HandlePiece, ClaimPiece, PieceComplete, PieceIncomplete,
              Disconnect, ScanPiece, UncountPiece, TurnBack, RemoveNode, Note
<1> QED
  BY <1>1, <1>2 DEF Next

\* What request_a_piece puts on the wire, and an arrival takes off it.
LEMMA RequestOnWire ==
  ASSUME TypeOK, NEW c \in Conns, NEW i \in Pieces, RequestPiece(c, i),
         NEW d \in Conns, NEW j \in Pieces, OnWire(d, j)'
  PROVE  OnWire(d, j) \/ (Alive(c) /\ d = c /\ j = i)
<1> DEFINE asks == [s \in 1 .. SubPieces |-> <<i, s>>]
           n == Len(wire[d])
<1>1. asks \in Seq(Blocks) /\ Len(asks) = SubPieces /\ \A s \in 1 .. SubPieces : asks[s] = <<i, s>>
  BY RequestsOfPiece, DownloadAssumption
<1>2. wire[d] \in Seq(Blocks) /\ n \in Nat /\ DOMAIN wire[d] = 1 .. n
  BY LenProperties DEF TypeOK
<1>3. PICK k \in DOMAIN wire'[d] : wire'[d][k][1] = j
  BY DEF OnWire
<1>4. CASE wire'[d] = wire[d]
  BY <1>3, <1>4 DEF OnWire
<1>5. CASE Alive(c) /\ d = c /\ wire'[d] = wire[d] \o asks
  <2> HIDE DEF asks, n
  <2>1. DOMAIN wire'[d] = 1 .. n + SubPieces
    BY <1>1, <1>2, <1>5, ConcatProperties, LenProperties DEF n
  <2>2. wire'[d][k] = IF k <= n THEN wire[d][k] ELSE asks[k - n]
    BY <1>1, <1>2, <1>3, <1>5, <2>1, ConcatProperties DEF n
  <2>3. CASE k <= n
    BY <1>2, <1>3, <2>1, <2>2, <2>3 DEF OnWire
  <2>4. CASE ~(k <= n)
    <3>1. k - n \in 1 .. SubPieces
      BY <1>2, <1>3, <2>1, <2>4, DownloadAssumption
    <3> QED
      BY <1>1, <1>3, <1>5, <2>2, <2>4, <3>1
  <2> QED
    BY <2>3, <2>4
<1> QED
  BY <1>4, <1>5 DEF TypeOK, RequestPiece

\* A block that arrives was on its way, and its arrival puts none on its way.
LEMMA ArrivalOnWire ==
  ASSUME TypeOK, NEW c \in Conns, NEW torn \in BOOLEAN, Arrives(c, torn), wire[c] # <<>>
  PROVE  /\ OnWire(c, Head(wire[c])[1])
         /\ \A d \in Conns, j \in Pieces : OnWire(d, j)' => OnWire(d, j)
<1>1. wire[c] \in Seq(Blocks) /\ Len(wire[c]) \in Nat \ {0}
      /\ DOMAIN wire[c] = 1 .. Len(wire[c]) /\ Head(wire[c]) = wire[c][1]
  BY LenProperties, EmptySeq DEF TypeOK
<1>2. OnWire(c, Head(wire[c])[1])
  BY <1>1 DEF OnWire
<1>3. ASSUME NEW d \in Conns, NEW j \in Pieces, OnWire(d, j)' PROVE OnWire(d, j)
  <2>1. PICK k \in DOMAIN wire'[d] : wire'[d][k][1] = j
    BY <1>3 DEF OnWire
  <2>2. CASE wire'[d] = wire[d]
    BY <2>1, <2>2 DEF OnWire
  <2>3. CASE d = c /\ wire'[d] = <<>>
    BY <2>1, <2>3
  <2>4. CASE d = c /\ wire'[d] = Tail(wire[c])
    <3>1. DOMAIN Tail(wire[c]) = 1 .. Len(wire[c]) - 1
      BY <1>1, HeadTailProperties, LenProperties
    <3>2. Tail(wire[c])[k] = wire[c][k + 1] /\ k + 1 \in DOMAIN wire[c]
      BY <1>1, <2>1, <2>4, <3>1, HeadTailProperties
    <3> QED
      BY <2>1, <2>4, <3>2 DEF OnWire
  <2> QED
    BY <2>2, <2>3, <2>4 DEF Arrives, TypeOK
<1> QED
  BY <1>2, <1>3

\* Nothing is on its way from a connection that was lost.
LEMMA EmptyOnWire ==
  ASSUME TypeOK, NEW c \in Conns, wire' = [wire EXCEPT ![c] = <<>>]
  PROVE  \A d \in Conns, j \in Pieces : OnWire(d, j)' => OnWire(d, j) /\ d # c
  BY DEF TypeOK, OnWire

\* What is known of the peers has a row for each, and changes entry by entry.
LEMMA RecordRows ==
  ASSUME TypeOK
  PROVE  peer_pieces_state \in [Conns -> [Pieces -> PeerStates]]
  BY DEF TypeOK, PeerStates

\* Initially nobody is connected.
LEMMA CourseInit == Init => Course
BY DEF Init, Course, Phases, Silent

\* The requester enters the end game once, and only then leaves the first loop.
LEMMA RequesterCourse ==
  ASSUME TypeOK, Course, Requester
  PROVE  Course'
<1> USE DEF vars, lockVars, sharedVars, peerVars, wireVars, requesterVars, receiverVars
<1>1. Phases /\ Silent
  BY DEF Course
<1>2. Silent'
  <2>1. CASE wire' = wire
    <3>1. hpc' = hpc
      BY DEF Requester, ChoosePiece, FindPeer, TakeSlot, AskPeer, BookRequest, LeaveLoop,
             StartEndGame, ChooseLast, WalkAsk, WalkMark, WalkNext, WalkFreedNode
    <3> QED
      BY <1>1, <2>1, <3>1 DEF Silent
  <2>2. CASE AskPeer \/ WalkAsk
    <3>1. hpc' = hpc /\ rPeer \in Conns
      BY <2>2 DEF AskPeer, WalkAsk, TypeOK
    <3>2. wire' = wire \/ RequestPiece(rPeer, rIndex)
      BY <2>2 DEF AskPeer, WalkAsk
    <3>3. \A c \in Conns : wire'[c] = wire[c] \/ Alive(c)
      BY <3>1, <3>2 DEF RequestPiece, TypeOK
    <3> QED
      BY <1>1, <3>1, <3>3 DEF Silent, Alive
  <2>3. CASE ~(AskPeer \/ WalkAsk)
    <3>1. wire' = wire
      BY <2>3 DEF Requester, ChoosePiece, FindPeer, TakeSlot, BookRequest, LeaveLoop,
                  StartEndGame, ChooseLast, WalkMark, WalkNext, WalkFreedNode
    <3> QED
      BY <2>1, <3>1
  <2> QED
    BY <2>2, <2>3
<1>3. Phases'
  <2>1. rest_pieces_num \in Int /\ MinRest \in Nat /\ is_end_game \in {0, 1}
    BY DownloadAssumption DEF TypeOK
  <2>2. CASE BookRequest
    BY <1>1, <2>1, <2>2 DEF BookRequest, Booked, Phases, Requesting
  <2>3. CASE ~BookRequest
    <3>1. UNCHANGED <<isseed, rest_pieces_num, hpc>>
      BY <2>3 DEF Requester, ChoosePiece, FindPeer, TakeSlot, AskPeer, LeaveLoop,
                  StartEndGame, ChooseLast, WalkAsk, WalkMark, WalkNext, WalkFreedNode
    <3> QED
      BY <1>1, <2>1, <2>3, <3>1
         DEF Requester, ChoosePiece, FindPeer, TakeSlot, AfterLock, AskPeer, LeaveLoop,
             StartEndGame, ChooseLast, WalkAsk, WalkMark, WalkNext, StepFrom, WalkFreedNode,
             Phases, Requesting
  <2> QED
    BY <2>2, <2>3
<1> QED
  BY <1>2, <1>3 DEF Course

\* A receiver is silent before it serves its peer and when the peer leaves, and
\* claims in the end game only.
LEMMA ReceiverCourse ==
  ASSUME TypeOK, Course, NEW c \in Conns, Receiver(c) \/ Environment(c)
  PROVE  Course'
<1> USE DEF vars, lockVars, sharedVars, peerVars, wireVars, requesterVars, receiverVars
<1>1. Phases /\ Silent
  BY DEF Course
<1>2. UNCHANGED <<rest_pieces_num, is_end_game, rpc>> /\ (isseed = 1 => isseed' = 1)
  BY DEF Receiver, Environment, Connect, HandleBitfield, HearPiece, CountPiece,
         CloseBitfield, HandlePiece, ClaimPiece, PieceComplete, PieceIncomplete,
         Disconnect, ScanPiece, UncountPiece, TurnBack, RemoveNode
<1>3. \A d \in Conns : d # c => hpc'[d] = hpc[d] /\ wire'[d] = wire[d]
  <2>1. hpc' = hpc \/ \E to \in ReceiverStates : hpc' = [hpc EXCEPT ![c] = to]
    BY DEF Receiver, Environment, Connect, HandleBitfield, HearPiece, CountPiece,
           CloseBitfield, HandlePiece, ClaimPiece, PieceComplete, PieceIncomplete,
           Disconnect, ScanPiece, UncountPiece, TurnBack, RemoveNode, Goto, ReceiverStates
  <2>2. wire' = wire \/ \E w : wire' = [wire EXCEPT ![c] = w]
    BY DEF Receiver, Environment, Connect, HandleBitfield, HearPiece, CountPiece,
           CloseBitfield, HandlePiece, Arrives, ClaimPiece, PieceComplete, PieceIncomplete,
           Disconnect, ScanPiece, UncountPiece, TurnBack, RemoveNode
  <2> QED
    BY <2>1, <2>2 DEF TypeOK
<1>4. hpc'[c] = "claiming" => hpc[c] = "claiming" \/ is_end_game = 1
  BY DEF Receiver, Environment, Connect, HandleBitfield, HearPiece, CountPiece,
         CloseBitfield, HandlePiece, ClaimPiece, PieceComplete, PieceIncomplete,
         Disconnect, ScanPiece, UncountPiece, TurnBack, RemoveNode, Goto, TypeOK
<1>5. Phases'
  BY <1>1, <1>2, <1>3, <1>4 DEF Phases, Requesting, TypeOK
<1>6. hpc'[c] \in Leaving \cup {"absent", "gone"} => wire'[c] = <<>>
  <2>1. CASE Disconnect(c)
    BY <2>1 DEF Disconnect, TypeOK
  <2>2. CASE ScanPiece(c) \/ UncountPiece(c) \/ TurnBack(c) \/ RemoveNode(c)
    <3>1. hpc[c] \in Leaving /\ wire' = wire
      BY <2>2 DEF ScanPiece, UncountPiece, TurnBack, RemoveNode, Goto, Leaving
    <3> QED
      BY <1>1, <3>1 DEF Silent
  <2>3. CASE ~(Disconnect(c) \/ ScanPiece(c) \/ UncountPiece(c) \/ TurnBack(c) \/ RemoveNode(c))
    <3>1. hpc'[c] \in {"new", "reading", "counting", "serving", "claiming", "checking"}
      BY <2>3 DEF Receiver, Environment, Connect, HandleBitfield, HearPiece, CountPiece,
                  CloseBitfield, HandlePiece, ClaimPiece, PieceComplete, PieceIncomplete,
                  Goto, TypeOK
    <3> QED
      BY <3>1 DEF Leaving
  <2> QED
    BY <2>1, <2>2, <2>3
<1>7. Silent'
  BY <1>1, <1>3, <1>6 DEF Silent
<1> QED
  BY <1>5, <1>7 DEF Course

\* Every step keeps the course.
LEMMA CourseStep ==
  ASSUME TypeOK, Course, [Next]_vars
  PROVE  Course'
<1>1. CASE UNCHANGED vars
  BY <1>1 DEF vars, lockVars, sharedVars, peerVars, wireVars, requesterVars, receiverVars,
              Course, Phases, Silent, Requesting
<1> QED
  BY <1>1, RequesterCourse, ReceiverCourse DEF Next
-----------------------------------------------------------------------------
(***************************************************************************)
(* The phase before the end game, as long as nobody was misled.  A piece   *)
(* is the business of one connection at most: its blocks are on that wire, *)
(* its hash is checked by that receiver, the requester is about to book it *)
(* there, or it is booked there, by what that peer announced, and turned   *)
(* back if that peer leaves.  A piece that is wanted is nobody's business. *)
(***************************************************************************)
MayTurn(c, i) ==
  /\ peer_pieces_state[c][i] = PEER_BE_REQUESTED
  /\ Heard(c, i)
  /\ hpc[c] # "gone"
  /\ hpc[c] \in Leaving => cursor[c] <= i

\* The requester asked c for i and has not recorded it yet.
Books(c, i) == rpc = "book" /\ rPeer = c /\ rIndex = i

Involved(c, i) == OnWire(c, i) \/ Checks(c, i) \/ MayTurn(c, i) \/ Books(c, i)

\* No piece is claimed.
Settled == \A i \in Pieces :
  pieces_state_arr[i] \in {PIECE_REQUESTING, PIECE_COMPLETED, PIECE_HAVNT}

\* Nobody has to do with a piece that is wanted ...
WantedIsFree == \A i \in Pieces, c \in Conns :
  pieces_state_arr[i] = PIECE_HAVNT => ~Involved(c, i)

\* ... one connection at most with any other ...
OneOwner == \A i \in Pieces, c, d \in Conns : Involved(c, i) /\ Involved(d, i) => c = d

\* ... and a piece on its way, or being checked, is requested, or was found complete
\* early.
OnItsWay == \A i \in Pieces, c \in Conns :
  OnWire(c, i) \/ Checks(c, i) =>
    \/ pieces_state_arr[i] = PIECE_REQUESTING
    \/ "early" \in amiss /\ pieces_state_arr[i] = PIECE_COMPLETED

\* What TurnBack found without a further look is still so.
TurnedBack == \A c \in Conns :
  hpc[c] = "turning" => /\ peer_pieces_state[c][cursor[c]] = PEER_BE_REQUESTED
                        /\ pieces_state_arr[cursor[c]] = PIECE_REQUESTING

\* A piece is not booked before it is booked: until then no disconnect turns it back.
NotYetBooked == rpc = "book" => \A c \in Conns : ~MayTurn(c, rIndex)

\* What the requester chose is wanted, and announced by the peer it found.
Chosen == rpc \in {"find", "lock", "asleep", "ask"} => pieces_state_arr[rIndex] = PIECE_HAVNT

ChosenHeld == rpc \in {"lock", "asleep", "ask", "book"} => rIndex \in Holds[rPeer]

\* A disconnect goes by what its peer announced.
HeardOnly == \A c \in Conns, i \in Pieces :
  hpc[c] \in Leaving /\ peer_pieces_state[c][i] = PEER_BE_REQUESTED => i \in Holds[c]

\* One owner for every piece that is requested.
Owners == /\ Settled /\ WantedIsFree /\ OneOwner /\ OnItsWay /\ TurnedBack
          /\ NotYetBooked /\ Chosen /\ ChosenHeld /\ HeardOnly

\* The blocks of a piece are asked for, and arrive, in their order.
InOrder == \A c \in Conns : \A k, m \in DOMAIN wire[c] :
  k < m /\ wire[c][k][1] = wire[c][m][1] => wire[c][k][2] < wire[c][m][2]

\* The invariant of the phase before the end game.
Normal == BeforeEndGame /\ NotMisled => Owners /\ InOrder

\* Initially nobody is involved in anything.
LEMMA NormalInit == Init => Normal
<1> SUFFICES ASSUME Init PROVE Owners /\ InOrder
  BY DEF Normal
<1> USE DownloadAssumption DEF PIECE_REQUESTING, PIECE_COMPLETED, PIECE_HAVNT
<1>1. \A c \in Conns, i \in Pieces : ~Involved(c, i)
  BY DEF Init, Involved, OnWire, Checks, MayTurn, Books, PEER_HAVNT, PEER_BE_REQUESTED
<1>2. Settled
  BY DEF Init, Settled
<1>3. TurnedBack /\ NotYetBooked /\ Chosen /\ ChosenHeld /\ HeardOnly
  BY DEF Init, TurnedBack, NotYetBooked, Chosen, ChosenHeld, HeardOnly, Leaving
<1>4. Owners
  BY <1>1, <1>2, <1>3 DEF Owners, WantedIsFree, OneOwner, OnItsWay, Involved
<1>5. InOrder
  BY DEF Init, InOrder
<1> QED
  BY <1>4, <1>5

\* A step that leaves the states of the pieces alone and involves nobody anew.
LEMMA SameOwners ==
  ASSUME Owners, UNCHANGED pieces_state_arr, amiss \subseteq amiss',
         \A c \in Conns, i \in Pieces : Involved(c, i)' => Involved(c, i),
         \A c \in Conns, i \in Pieces :
           OnWire(c, i)' \/ Checks(c, i)' => OnWire(c, i) \/ Checks(c, i),
         TurnedBack', NotYetBooked', Chosen', ChosenHeld', HeardOnly'
  PROVE  Owners'
<1>1. Settled' /\ WantedIsFree'
  BY DEF Owners, Settled, WantedIsFree
<1>2. OneOwner'
  BY DEF Owners, OneOwner
<1>3. OnItsWay'
  BY DEF Owners, OnItsWay
<1> QED
  BY <1>1, <1>2, <1>3 DEF Owners

\* A connection that is turning a piece back is the one involved in it.
LEMMA TurningInvolved ==
  ASSUME TypeOK, TurnedBack, HeardOnly, NEW c \in Conns, hpc[c] = "turning"
  PROVE  /\ cursor[c] \in Pieces /\ MayTurn(c, cursor[c])
         /\ pieces_state_arr[cursor[c]] = PIECE_REQUESTING
<1>1. cursor[c] \in Pieces
  BY DEF TypeOK
<1>2. cursor[c] <= cursor[c]
  BY <1>1 DEF Pieces
<1>3. /\ peer_pieces_state[c][cursor[c]] = PEER_BE_REQUESTED
      /\ pieces_state_arr[cursor[c]] = PIECE_REQUESTING
  BY DEF TurnedBack
<1>4. Heard(c, cursor[c])
  BY <1>1, <1>3 DEF HeardOnly, Heard, Leaving
<1> QED
  BY <1>1, <1>2, <1>3, <1>4 DEF MayTurn

\* The requester makes itself and one connection the owner of a piece that is free.
LEMMA RequesterOwners ==
  ASSUME TypeOK, Course, Owners, BeforeEndGame, Requester, BeforeEndGame', NotMisled'
  PROVE  Owners'
<1> USE DEF vars, lockVars, sharedVars, peerVars, wireVars, requesterVars, receiverVars
<1>0. Phases /\ Settled /\ WantedIsFree /\ OneOwner /\ OnItsWay /\ TurnedBack
      /\ NotYetBooked /\ Chosen /\ ChosenHeld /\ HeardOnly
  BY DEF Course, Owners
<1>1. CASE ChoosePiece \/ FindPeer \/ TakeSlot \/ LeaveLoop
  <2>1. UNCHANGED <<pieces_state_arr, peer_pieces_state, wire, hpc, cursor>>
        /\ rpc # "book" /\ rpc' # "book" /\ amiss \subseteq amiss'
    BY <1>1 DEF ChoosePiece, FindPeer, Note, TakeSlot, AfterLock, LeaveLoop, BeforeEndGame
  <2>2. \A c \in Conns, i \in Pieces :
          (OnWire(c, i)' <=> OnWire(c, i)) /\ (Checks(c, i)' <=> Checks(c, i))
          /\ (MayTurn(c, i)' <=> MayTurn(c, i)) /\ (Books(c, i)' <=> Books(c, i))
    BY <2>1 DEF OnWire, Checks, MayTurn, Books, Heard
  <2>3. TurnedBack' /\ NotYetBooked' /\ HeardOnly'
    BY <1>0, <2>1 DEF TurnedBack, NotYetBooked, HeardOnly
  <2>4. Chosen'
    BY <1>0, <1>1, <2>1 DEF ChoosePiece, FindPeer, TakeSlot, AfterLock, LeaveLoop,
                       BeforeEndGame, Chosen, IsRarest, Wanted, Requesting
  <2>5. ChosenHeld'
    <3>1. CASE FindPeer
      BY <3>1 DEF FindPeer, Note, NotMisled, BeforeEndGame, Heard, ChosenHeld
    <3>2. CASE ~FindPeer
      BY <1>0, <1>1, <3>2 DEF ChoosePiece, TakeSlot, AfterLock, LeaveLoop, BeforeEndGame,
                              ChosenHeld
    <3> QED
      BY <3>1, <3>2
  <2> QED
    BY <2>1, <2>2, <2>3, <2>4, <2>5, SameOwners DEF Involved
<1>2. CASE BookRequest
  <2>1. rPeer \in Conns /\ rIndex \in Pieces /\ PEER_BE_REQUESTED \in PeerStates
    BY <1>2 DEF TypeOK, BookRequest, PeerStates, PEER_BE_REQUESTED
  <2>2. \A d \in Conns, j \in Pieces :
          peer_pieces_state'[d][j] = IF d = rPeer /\ j = rIndex THEN PEER_BE_REQUESTED
                                                               ELSE peer_pieces_state[d][j]
    BY <1>2, <2>1, RecordRows DEF BookRequest
  <2>3. UNCHANGED <<pieces_state_arr, wire, hpc, cursor, amiss>> /\ rpc = "book"
        /\ rpc' = "choose"
    BY <1>2 DEF BookRequest
  <2>4. \A c \in Conns, i \in Pieces :
          (OnWire(c, i)' <=> OnWire(c, i)) /\ (Checks(c, i)' <=> Checks(c, i))
          /\ ~Books(c, i)'
    BY <2>3 DEF OnWire, Checks, Books
  <2>5. \A c \in Conns, i \in Pieces : MayTurn(c, i)' => MayTurn(c, i) \/ Books(c, i)
    BY <2>2, <2>3 DEF MayTurn, Books, Heard
  <2>6. TurnedBack'
    BY <1>0, <2>2, <2>3 DEF TurnedBack, TypeOK
  <2>7. NotYetBooked' /\ Chosen' /\ ChosenHeld'
    BY <2>3 DEF NotYetBooked, Chosen, ChosenHeld
  <2>8. HeardOnly'
    BY <1>0, <2>2, <2>3 DEF HeardOnly, ChosenHeld
  <2> QED
    BY <2>3, <2>4, <2>5, <2>6, <2>7, <2>8, SameOwners DEF Involved
<1>3. CASE AskPeer
  <2> DEFINE c == rPeer  i == rIndex
  <2>1. c \in Conns /\ i \in Pieces /\ pieces_state_arr[i] = PIECE_HAVNT
    BY <1>0, <1>3 DEF TypeOK, AskPeer, Chosen
  <2>2. /\ pieces_state_arr' = [pieces_state_arr EXCEPT ![i] = PIECE_REQUESTING]
        /\ RequestPiece(c, i) /\ rpc' = "book" /\ rpc = "ask"
        /\ UNCHANGED <<peer_pieces_state, hpc, cursor, rIndex, rPeer, amiss>>
    BY <1>3 DEF AskPeer, RequestPiece
  <2>3. \A j \in Pieces :
          pieces_state_arr'[j] = IF j = i THEN PIECE_REQUESTING ELSE pieces_state_arr[j]
    BY <2>1, <2>2 DEF TypeOK
  <2>4. \A d \in Conns, j \in Pieces :
          /\ OnWire(d, j)' => OnWire(d, j) \/ (d = c /\ j = i)
          /\ Checks(d, j)' <=> Checks(d, j)
          /\ MayTurn(d, j)' <=> MayTurn(d, j)
          /\ Books(d, j)' => d = c /\ j = i
    BY <2>1, <2>2, RequestOnWire DEF Checks, MayTurn, Books, Heard
  <2>5. \A d \in Conns, j \in Pieces : Involved(d, j)' => Involved(d, j) \/ (d = c /\ j = i)
    BY <2>2, <2>4 DEF Involved, Books
  <2>6. \A d \in Conns : ~Involved(d, i)
    BY <1>0, <2>1 DEF WantedIsFree
  <2> HIDE DEF c, i
  <2>7. Settled' /\ WantedIsFree'
    BY <1>0, <2>3, <2>5 DEF Settled, WantedIsFree, PIECE_REQUESTING, PIECE_HAVNT
  <2>8. OneOwner'
    BY <1>0, <2>5, <2>6 DEF OneOwner
  <2>9. OnItsWay'
    BY <1>0, <2>2, <2>3, <2>4 DEF OnItsWay
  <2>10. TurnedBack' /\ HeardOnly'
    BY <1>0, <2>2, <2>3 DEF TurnedBack, HeardOnly, TypeOK
  <2>11. NotYetBooked'
    BY <2>1, <2>2, <2>4, <2>6 DEF NotYetBooked, Involved, i
  <2>12. Chosen' /\ ChosenHeld'
    BY <1>0, <2>2 DEF Chosen, ChosenHeld
  <2> QED
    BY <2>7, <2>8, <2>9, <2>10, <2>11, <2>12 DEF Owners
<1> QED
  BY <1>0, <1>1, <1>2, <1>3
     DEF Requester, BeforeEndGame, Phases, StartEndGame, ChooseLast, WalkAsk, WalkMark,
         WalkNext, WalkFreedNode

\* A receiver takes a piece it owns a step further, or gives it up.
LEMMA ReceiverOwners ==
  ASSUME TypeOK, Course, Owners, BeforeEndGame, NEW c \in Conns, Receiver(c) \/ Environment(c),
         NotMisled'
  PROVE  Owners'
<1> USE DownloadAssumption
    DEF vars, lockVars, sharedVars, peerVars, wireVars, requesterVars, receiverVars
<1>0. Phases /\ Silent /\ Settled /\ WantedIsFree /\ OneOwner /\ OnItsWay /\ TurnedBack
      /\ NotYetBooked /\ Chosen /\ ChosenHeld /\ HeardOnly
  BY DEF Course, Owners
<1>1. UNCHANGED <<is_end_game, rpc, rIndex, rPeer>> /\ amiss \subseteq amiss'
  BY DEF Receiver, Environment, Connect, HandleBitfield, HearPiece, CountPiece,
         CloseBitfield, HandlePiece, ClaimPiece, PieceComplete, PieceIncomplete,
         Disconnect, ScanPiece, UncountPiece, TurnBack, RemoveNode, Note
<1>2. (\A d \in Conns, j \in Pieces : Books(d, j)' <=> Books(d, j)) /\ ChosenHeld'
  BY <1>0, <1>1 DEF Books, ChosenHeld
<1>3. ASSUME \A d \in Conns, j \in Pieces : MayTurn(d, j)' => MayTurn(d, j)
      PROVE  NotYetBooked'
  <2>1. rIndex \in Pieces
    BY DEF TypeOK
  <2> QED
    BY <1>0, <1>1, <1>3, <2>1 DEF NotYetBooked
\* A step that leaves the states of the pieces alone.
<1>4. ASSUME UNCHANGED pieces_state_arr, TurnedBack', HeardOnly',
             \A d \in Conns, j \in Pieces : MayTurn(d, j)' => MayTurn(d, j),
             \A d \in Conns, j \in Pieces :
               OnWire(d, j)' \/ Checks(d, j)' => OnWire(d, j) \/ Checks(d, j)
      PROVE  Owners'
  <2>1. \A d \in Conns, j \in Pieces : Involved(d, j)' => Involved(d, j)
    BY <1>2, <1>4 DEF Involved
  <2>2. Chosen'
    BY <1>0, <1>1, <1>4 DEF Chosen
  <2> QED
    BY <1>1, <1>2, <1>3, <1>4, <2>1, <2>2, SameOwners
\* A step of a peer that is heard: it moves c among the states before it leaves, and
\* marks as requested nothing that c has.
<1>5. ASSUME UNCHANGED <<pieces_state_arr, wire>>,
             \A d \in Conns : d # c => /\ hpc'[d] = hpc[d] /\ cursor'[d] = cursor[d]
                                       /\ peer_pieces_state'[d] = peer_pieces_state[d],
             hpc'[c] \in {"new", "reading", "counting", "serving"},
             \A j \in Pieces : MayTurn(c, j)' => MayTurn(c, j)
      PROVE  Owners'
  <2>1. TurnedBack' /\ HeardOnly'
    BY <1>0, <1>5 DEF TurnedBack, HeardOnly, Leaving
  <2>2. \A d \in Conns, j \in Pieces : MayTurn(d, j)' => MayTurn(d, j)
    <3> SUFFICES ASSUME NEW d \in Conns, NEW j \in Pieces, MayTurn(d, j)', d # c
                 PROVE  MayTurn(d, j)
      BY <1>5
    <3> QED
      BY <1>5 DEF MayTurn, Heard
  <2>3. \A d \in Conns, j \in Pieces :
          OnWire(d, j)' \/ Checks(d, j)' => OnWire(d, j) \/ Checks(d, j)
    BY <1>5 DEF OnWire, Checks
  <2> QED
    BY <1>4, <1>5, <2>1, <2>2, <2>3
<1>6. CASE Connect(c)
  <2>1. hpc'[c] = "new" /\ UNCHANGED <<pieces_state_arr, wire, cursor>>
        /\ \A d \in Conns : d # c => hpc'[d] = hpc[d] /\ peer_pieces_state'[d] = peer_pieces_state[d]
    BY <1>6 DEF Connect, Goto, TypeOK
  <2>2. \A j \in Pieces : ~MayTurn(c, j)'
    BY <2>1 DEF MayTurn, Heard
  <2> QED
    BY <1>5, <2>1, <2>2
<1>7. CASE HandleBitfield(c)
  <2>1. hpc'[c] = "reading" /\ cursor'[c] = 0
        /\ UNCHANGED <<pieces_state_arr, wire, peer_pieces_state>>
        /\ \A d \in Conns : d # c => hpc'[d] = hpc[d] /\ cursor'[d] = cursor[d]
    BY <1>7 DEF HandleBitfield, Goto, TypeOK
  <2>2. \A j \in Pieces : ~MayTurn(c, j)'
    BY <2>1 DEF MayTurn, Heard, Pieces
  <2> QED
    BY <1>5, <2>1, <2>2
<1>8. CASE HearPiece(c)
  <2> DEFINE i == cursor[c]
  <2>1. i \in Pieces /\ hpc[c] = "reading"
    BY <1>8 DEF HearPiece, Goto, TypeOK, Pieces
  <2>2. /\ UNCHANGED <<pieces_state_arr, wire>>
        /\ \A d \in Conns : d # c => /\ hpc'[d] = hpc[d] /\ cursor'[d] = cursor[d]
                                     /\ peer_pieces_state'[d] = peer_pieces_state[d]
        /\ \/ i \in Holds[c] /\ hpc'[c] = "counting" /\ cursor'[c] = i
           \/ i \notin Holds[c] /\ hpc'[c] = "reading" /\ cursor'[c] = i + 1
    BY <1>8 DEF HearPiece, Announces, Goto, TypeOK
  <2>3. i \in Holds[c] => peer_pieces_state'[c][i] = PEER_HAVE
    BY <1>8, <2>1 DEF HearPiece, Announces, TypeOK
  <2>4. \A j \in Pieces : j # i => peer_pieces_state'[c][j] = peer_pieces_state[c][j]
    BY <1>8 DEF HearPiece, TypeOK
  <2>5. i \notin Holds[c] => peer_pieces_state'[c] = peer_pieces_state[c]
    BY <1>8 DEF HearPiece, Announces
  <2>6. \A j \in Pieces : (j <= i /\ j # i => j < i) /\ (j < i + 1 /\ j # i => j < i)
    BY <2>1 DEF Pieces
  <2> HIDE DEF i
  <2>7. ASSUME NEW j \in Pieces, MayTurn(c, j)' PROVE MayTurn(c, j)
    <3>1. j # i /\ peer_pieces_state[c][j] = PEER_BE_REQUESTED
      BY <2>2, <2>3, <2>4, <2>7 DEF MayTurn, Heard, PEER_HAVE, PEER_BE_REQUESTED
    <3>2. j < i /\ j \in Holds[c]
      BY <2>2, <2>6, <2>7, <3>1 DEF MayTurn, Heard
    <3> QED
      BY <2>1, <3>1, <3>2 DEF MayTurn, Heard, Leaving, i
  <2> QED
    BY <1>5, <2>2, <2>7
<1>9. CASE CountPiece(c) \/ CloseBitfield(c)
  <2>1. /\ UNCHANGED <<pieces_state_arr, wire, peer_pieces_state>>
        /\ \A d \in Conns : d # c => hpc'[d] = hpc[d] /\ cursor'[d] = cursor[d]
        /\ \/ hpc[c] = "counting" /\ hpc'[c] = "reading" /\ cursor'[c] = cursor[c] + 1
           \/ hpc[c] = "reading" /\ hpc'[c] = "serving" /\ cursor[c] = NumPieces
    BY <1>9 DEF CountPiece, CloseBitfield, Goto, TypeOK
  <2>2. cursor[c] \in Int /\ \A j \in Pieces : j \in Int /\ j < NumPieces
    BY DEF TypeOK, Pieces
  <2>3. \A j \in Pieces : MayTurn(c, j)' => MayTurn(c, j)
    BY <2>1, <2>2 DEF MayTurn, Heard, Leaving
  <2> QED
    BY <1>5, <2>1, <2>3
<1>10. ASSUME NEW torn \in BOOLEAN, HandlePiece(c, torn) PROVE Owners'
  <2> DEFINE i == Head(wire[c])[1]
  <2>1. i \in Pieces /\ OnWire(c, i) /\ \A d \in Conns, j \in Pieces : OnWire(d, j)' => OnWire(d, j)
    BY <1>10, ArrivalType, ArrivalOnWire DEF HandlePiece
  <2>2. pieces_state_arr' = pieces_state_arr
    BY <1>10 DEF HandlePiece
  <2>3. /\ hpc[c] = "serving" /\ hpc'[c] = "checking" /\ cursor'[c] = i
        /\ \A d \in Conns : d # c => hpc'[d] = hpc[d] /\ cursor'[d] = cursor[d]
        /\ peer_pieces_state' = peer_pieces_state
    BY <1>10 DEF HandlePiece, Goto, BeforeEndGame, TypeOK
  <2> HIDE DEF i
  <2>4. \A d \in Conns, j \in Pieces : MayTurn(d, j)' => MayTurn(d, j)
    BY <2>3 DEF MayTurn, Heard, Leaving
  <2>5. \A d \in Conns, j \in Pieces :
          OnWire(d, j)' \/ Checks(d, j)' => OnWire(d, j) \/ Checks(d, j)
    BY <2>1, <2>3 DEF Checks
  <2>6. TurnedBack' /\ HeardOnly'
    BY <1>0, <2>2, <2>3 DEF TurnedBack, HeardOnly, Leaving
  <2> QED
    BY <1>4, <2>2, <2>4, <2>5, <2>6
<1>11. CASE ClaimPiece(c)
  BY <1>0, <1>11 DEF ClaimPiece, Goto, Phases, BeforeEndGame
<1>12. CASE PieceComplete(c)
  <2> DEFINE i == cursor[c]
  <2>1. i \in Pieces /\ Checks(c, i)
        /\ hpc[c] = "checking" /\ hpc'[c] = "serving"
        /\ \A d \in Conns : d # c => hpc'[d] = hpc[d]
    BY <1>12, CompleteType DEF Checks
  <2>2. /\ pieces_state_arr' = [pieces_state_arr EXCEPT ![i] = PIECE_COMPLETED]
        /\ peer_pieces_state' = [peer_pieces_state EXCEPT ![c][i] = PEER_HAVE]
        /\ UNCHANGED <<wire, cursor>>
        /\ (\E d \in Conns : OnWire(d, i)) => "early" \in amiss'
    BY <1>12 DEF PieceComplete, Note, BeforeEndGame
  <2>3. PEER_HAVE \in PeerStates
    BY DEF PeerStates, PEER_HAVE
  <2>4. \A d \in Conns, j \in Pieces :
          peer_pieces_state'[d][j] = IF d = c /\ j = i THEN PEER_HAVE ELSE peer_pieces_state[d][j]
    BY <2>1, <2>2, <2>3, RecordRows
  <2>5. \A j \in Pieces :
          pieces_state_arr'[j] = IF j = i THEN PIECE_COMPLETED ELSE pieces_state_arr[j]
    BY <2>1, <2>2 DEF TypeOK
  <2>6. \A d \in Conns, j \in Pieces :
          (OnWire(d, j)' <=> OnWire(d, j)) /\ (Checks(d, j)' => Checks(d, j) /\ d # c)
          /\ (MayTurn(d, j)' => MayTurn(d, j))
    BY <2>1, <2>2, <2>4 DEF OnWire, Checks, MayTurn, Heard, Leaving, PEER_HAVE, PEER_BE_REQUESTED
  <2>7. pieces_state_arr[i] \in {PIECE_REQUESTING, PIECE_COMPLETED}
    BY <1>0, <2>1 DEF OnItsWay
  <2>8. \A d \in Conns : Involved(d, i) => d = c
    BY <1>0, <2>1 DEF OneOwner, Involved
  <2> HIDE DEF i
  <2>9. \A d \in Conns, j \in Pieces : Involved(d, j)' => Involved(d, j)
    BY <1>2, <2>6 DEF Involved
  <2>10. Settled' /\ WantedIsFree'
    BY <1>0, <2>5, <2>9 DEF Settled, WantedIsFree, PIECE_HAVNT, PIECE_COMPLETED
  <2>11. OneOwner'
    BY <1>0, <2>9 DEF OneOwner
  <2>12. OnItsWay'
    <3> SUFFICES ASSUME NEW j \in Pieces, NEW d \in Conns, OnWire(d, j)' \/ Checks(d, j)'
                 PROVE  \/ pieces_state_arr'[j] = PIECE_REQUESTING
                        \/ "early" \in amiss' /\ pieces_state_arr'[j] = PIECE_COMPLETED
      BY DEF OnItsWay
    <3>1. OnWire(d, j) \/ Checks(d, j)
      BY <2>6
    <3>2. CASE j # i
      BY <1>0, <1>1, <2>5, <3>1, <3>2 DEF OnItsWay
    <3>3. CASE j = i
      <4>1. ~Checks(d, j)'
        BY <2>6, <2>8, <3>3 DEF Involved
      <4>2. "early" \in amiss'
        BY <2>2, <2>6, <3>3, <4>1
      <4> QED
        BY <2>5, <3>3, <4>2
    <3> QED
      BY <3>2, <3>3
  <2>13. TurnedBack'
    <3> SUFFICES ASSUME NEW d \in Conns, hpc'[d] = "turning"
                 PROVE  /\ peer_pieces_state'[d][cursor'[d]] = PEER_BE_REQUESTED
                        /\ pieces_state_arr'[cursor'[d]] = PIECE_REQUESTING
      BY DEF TurnedBack
    <3>1. d # c /\ hpc[d] = "turning" /\ cursor'[d] = cursor[d]
      BY <2>1, <2>2
    <3>2. cursor[d] \in Pieces /\ MayTurn(d, cursor[d]) /\ pieces_state_arr[cursor[d]] = PIECE_REQUESTING
      BY <1>0, <3>1, TurningInvolved
    <3>3. cursor[d] # i
      BY <2>8, <3>1, <3>2 DEF Involved
    <3> QED
      BY <2>4, <2>5, <3>1, <3>2, <3>3 DEF MayTurn
  <2>14. NotYetBooked'
    BY <1>3, <2>6
  <2>15. Chosen'
    <3>1. rIndex \in Pieces /\ rIndex' = rIndex /\ rpc' = rpc
      BY <1>1 DEF TypeOK
    <3>2. pieces_state_arr[rIndex] = PIECE_HAVNT => rIndex # i
      BY <2>7 DEF PIECE_HAVNT, PIECE_REQUESTING, PIECE_COMPLETED
    <3> QED
      BY <1>0, <2>5, <3>1, <3>2 DEF Chosen
  <2>16. HeardOnly'
    BY <1>0, <2>1, <2>4 DEF HeardOnly, Leaving, PEER_HAVE, PEER_BE_REQUESTED
  <2> QED
    BY <1>2, <2>10, <2>11, <2>12, <2>13, <2>14, <2>15, <2>16 DEF Owners
<1>13. CASE PieceIncomplete(c)
  <2>1. UNCHANGED <<pieces_state_arr, peer_pieces_state, wire, cursor>>
        /\ hpc[c] = "checking" /\ hpc'[c] = "serving" /\ (\A d \in Conns : d # c => hpc'[d] = hpc[d])
    BY <1>13 DEF PieceIncomplete, Goto, TypeOK
  <2>2. \A j \in Pieces : MayTurn(c, j)' => MayTurn(c, j)
    BY <2>1 DEF MayTurn, Heard, Leaving
  <2> QED
    BY <1>5, <2>1, <2>2
<1>14. CASE Disconnect(c)
  <2>1. /\ pieces_state_arr' = pieces_state_arr /\ peer_pieces_state' = peer_pieces_state
        /\ wire' = [wire EXCEPT ![c] = <<>>]
        /\ hpc[c] \in {"new", "serving"} /\ hpc'[c] = "scanning" /\ cursor'[c] = 0
        /\ \A d \in Conns : d # c => hpc'[d] = hpc[d] /\ cursor'[d] = cursor[d]
    BY <1>14 DEF Disconnect, TypeOK
  <2>2. \A j \in Pieces : peer_pieces_state[c][j] = PEER_BE_REQUESTED => Heard(c, j)
    BY <1>14 DEF Disconnect, Note, NotMisled, BeforeEndGame
  <2>3. \A d \in Conns, j \in Pieces : MayTurn(d, j)' => MayTurn(d, j)
    <3> SUFFICES ASSUME NEW d \in Conns, NEW j \in Pieces, MayTurn(d, j)' PROVE MayTurn(d, j)
      OBVIOUS
    <3>1. CASE d = c
      BY <2>1, <2>2, <3>1 DEF MayTurn, Leaving
    <3>2. CASE d # c
      BY <2>1, <3>2 DEF MayTurn, Heard
    <3> QED
      BY <3>1, <3>2
  <2>4. \A d \in Conns, j \in Pieces :
          OnWire(d, j)' \/ Checks(d, j)' => OnWire(d, j) \/ Checks(d, j)
    BY <2>1, EmptyOnWire DEF Checks
  <2>5. TurnedBack'
    BY <1>0, <2>1 DEF TurnedBack
  <2>6. HeardOnly'
    BY <1>0, <2>1, <2>2 DEF HeardOnly, Heard
  <2> QED
    BY <1>4, <2>1, <2>3, <2>4, <2>5, <2>6
<1>15. CASE ScanPiece(c) \/ UncountPiece(c)
  <2>1. /\ cursor[c] \in Pieces /\ hpc[c] \in {"scanning", "uncounting"}
        /\ UNCHANGED <<pieces_state_arr, peer_pieces_state, wire>>
        /\ \A d \in Conns : d # c => hpc'[d] = hpc[d] /\ cursor'[d] = cursor[d]
        /\ \/ hpc'[c] = "uncounting" /\ cursor'[c] = cursor[c]
           \/ hpc'[c] = "turning" /\ cursor'[c] = cursor[c] /\ Turns(c, cursor[c])
           \/ hpc'[c] = "scanning" /\ cursor'[c] = cursor[c] + 1
    <3>1. cursor[c] \in 0 .. NumPieces /\ (hpc[c] = "uncounting" => cursor[c] \in Pieces)
      BY DEF TypeOK
    <3>2. CASE ScanPiece(c)
      <4>1. /\ cursor[c] \in Pieces /\ hpc[c] = "scanning"
            /\ UNCHANGED <<pieces_state_arr, peer_pieces_state, wire>>
        BY <3>1, <3>2 DEF ScanPiece, Goto, Pieces, sharedVars, peerVars, wireVars
      <4>2. \/ hpc' = [hpc EXCEPT ![c] = "uncounting"] /\ UNCHANGED cursor
            \/ /\ hpc' = [hpc EXCEPT ![c] = "scanning"]
               /\ cursor' = [cursor EXCEPT ![c] = cursor[c] + 1]
        BY <3>2 DEF ScanPiece, Goto
      <4>3. hpc \in [Conns -> ReceiverStates] /\ cursor \in [Conns -> 0 .. NumPieces]
        BY DEF TypeOK, ReceiverStates
      <4> QED
        BY <4>1, <4>2, <4>3
    <3>3. CASE UncountPiece(c)
      <4>1. /\ cursor[c] \in Pieces /\ hpc[c] = "uncounting"
            /\ UNCHANGED <<pieces_state_arr, peer_pieces_state, wire>>
        BY <3>1, <3>3 DEF UncountPiece, peerVars, wireVars
      <4>2. \/ /\ hpc' = [hpc EXCEPT ![c] = "turning"] /\ UNCHANGED cursor
               /\ Turns(c, cursor[c])
            \/ /\ hpc' = [hpc EXCEPT ![c] = "scanning"]
               /\ cursor' = [cursor EXCEPT ![c] = cursor[c] + 1]
        BY <3>3 DEF UncountPiece, Goto
      <4>3. hpc \in [Conns -> ReceiverStates] /\ cursor \in [Conns -> 0 .. NumPieces]
        BY DEF TypeOK, ReceiverStates
      <4> QED
        BY <4>1, <4>2, <4>3
    <3> QED
      BY <1>15, <3>2, <3>3
  <2>2. \A d \in Conns, j \in Pieces : MayTurn(d, j)' => MayTurn(d, j)
    <3>1. \A j \in Pieces : cursor[c] + 1 <= j => cursor[c] <= j
      BY <2>1 DEF Pieces
    <3> QED
      BY <2>1, <3>1 DEF MayTurn, Heard, Leaving
  <2>3. \A d \in Conns, j \in Pieces :
          OnWire(d, j)' \/ Checks(d, j)' => OnWire(d, j) \/ Checks(d, j)
    BY <2>1 DEF OnWire, Checks
  <2>4. TurnedBack' /\ HeardOnly'
    BY <1>0, <2>1 DEF TurnedBack, HeardOnly, Turns, Leaving
  <2> QED
    BY <1>4, <2>1, <2>2, <2>3, <2>4
<1>16. CASE TurnBack(c)
  <2> DEFINE i == cursor[c]
  <2>1. hpc[c] = "turning"
    BY <1>16 DEF TurnBack, Goto
  <2>2. i \in Pieces /\ MayTurn(c, i) /\ pieces_state_arr[i] = PIECE_REQUESTING
    BY <1>0, <2>1, TurningInvolved
  <2>3. /\ pieces_state_arr' = [pieces_state_arr EXCEPT ![i] = PIECE_HAVNT]
        /\ UNCHANGED <<peer_pieces_state, wire>>
        /\ hpc'[c] = "scanning" /\ cursor'[c] = i + 1
        /\ \A d \in Conns : d # c => hpc'[d] = hpc[d] /\ cursor'[d] = cursor[d]
    BY <1>16 DEF TurnBack, Goto, TypeOK
  <2>4. \A j \in Pieces :
          pieces_state_arr'[j] = IF j = i THEN PIECE_HAVNT ELSE pieces_state_arr[j]
    BY <2>2, <2>3 DEF TypeOK
  <2>5. i + 1 > i /\ \A j \in Pieces : i + 1 <= j => i <= j /\ j # i
    BY <2>2 DEF Pieces
  <2>6. wire[c] = <<>>
    BY <1>0, <2>1 DEF Silent, Leaving
  <2> HIDE DEF i
  <2>7. \A d \in Conns, j \in Pieces :
          /\ OnWire(d, j)' => OnWire(d, j) /\ d # c
          /\ Checks(d, j)' => Checks(d, j) /\ d # c
          /\ MayTurn(d, j)' => MayTurn(d, j) /\ ~(d = c /\ j = i)
    <3>1. \A d \in Conns, j \in Pieces : OnWire(d, j)' => OnWire(d, j) /\ d # c
      BY <2>3, <2>6 DEF OnWire
    <3>2. \A d \in Conns, j \in Pieces : Checks(d, j)' => Checks(d, j) /\ d # c
      BY <2>3 DEF Checks
    <3>3. ASSUME NEW d \in Conns, NEW j \in Pieces, MayTurn(d, j)'
          PROVE  MayTurn(d, j) /\ ~(d = c /\ j = i)
      <4>1. CASE d = c
        BY <2>1, <2>3, <2>5, <3>3, <4>1 DEF MayTurn, Heard, Leaving, i
      <4>2. CASE d # c
        BY <2>3, <3>3, <4>2 DEF MayTurn, Heard
      <4> QED
        BY <4>1, <4>2
    <3> QED
      BY <3>1, <3>2, <3>3
  <2>8. \A d \in Conns : Involved(d, i) => d = c
    BY <1>0, <2>2 DEF OneOwner, Involved
  <2>9. \A d \in Conns : ~Books(d, i)
    BY <1>0, <2>2 DEF NotYetBooked, Books
  <2>10. \A d \in Conns, j \in Pieces : Involved(d, j)' => Involved(d, j) /\ j # i
    BY <1>2, <2>7, <2>8, <2>9 DEF Involved
  <2>11. Settled'
    BY <1>0, <2>4 DEF Settled
  <2>12. WantedIsFree' /\ OneOwner'
    BY <1>0, <2>4, <2>10 DEF WantedIsFree, OneOwner, PIECE_HAVNT, PIECE_REQUESTING
  <2>13. OnItsWay'
    <3> SUFFICES ASSUME NEW j \in Pieces, NEW d \in Conns, OnWire(d, j)' \/ Checks(d, j)'
                 PROVE  \/ pieces_state_arr'[j] = PIECE_REQUESTING
                        \/ "early" \in amiss' /\ pieces_state_arr'[j] = PIECE_COMPLETED
      BY DEF OnItsWay
    <3>1. (OnWire(d, j) \/ Checks(d, j)) /\ j # i
      BY <2>7, <2>10 DEF Involved
    <3> QED
      BY <1>0, <1>1, <2>4, <3>1 DEF OnItsWay
  <2>14. TurnedBack'
    <3> SUFFICES ASSUME NEW d \in Conns, hpc'[d] = "turning"
                 PROVE  /\ peer_pieces_state'[d][cursor'[d]] = PEER_BE_REQUESTED
                        /\ pieces_state_arr'[cursor'[d]] = PIECE_REQUESTING
      BY DEF TurnedBack
    <3>1. d # c /\ hpc[d] = "turning" /\ cursor'[d] = cursor[d]
      BY <2>3
    <3>2. cursor[d] \in Pieces /\ MayTurn(d, cursor[d]) /\ pieces_state_arr[cursor[d]] = PIECE_REQUESTING
      BY <1>0, <3>1, TurningInvolved
    <3>3. cursor[d] # i
      BY <2>8, <3>1, <3>2 DEF Involved
    <3> QED
      BY <2>3, <2>4, <3>1, <3>2, <3>3 DEF MayTurn
  <2>15. NotYetBooked'
    BY <1>3, <2>7
  <2>16. Chosen' /\ HeardOnly'
    <3>1. \A j \in Pieces : pieces_state_arr[j] = PIECE_HAVNT => pieces_state_arr'[j] = PIECE_HAVNT
      BY <2>4
    <3>2. rIndex \in Pieces
      BY DEF TypeOK
    <3>3. Chosen'
      BY <1>0, <1>1, <3>1, <3>2 DEF Chosen
    <3>4. \A d \in Conns : hpc'[d] \in Leaving => hpc[d] \in Leaving
      BY <2>1, <2>3 DEF Leaving
    <3>5. HeardOnly'
      BY <1>0, <2>3, <3>4 DEF HeardOnly
    <3> QED
      BY <3>3, <3>5
  <2> QED
    BY <1>2, <2>11, <2>12, <2>13, <2>14, <2>15, <2>16 DEF Owners
<1>17. CASE RemoveNode(c)
  <2>1. UNCHANGED <<pieces_state_arr, peer_pieces_state, wire, cursor>>
        /\ hpc[c] = "scanning" /\ hpc'[c] = "gone" /\ (\A d \in Conns : d # c => hpc'[d] = hpc[d])
    BY <1>17 DEF RemoveNode, Goto, TypeOK
  <2>2. \A d \in Conns, j \in Pieces : MayTurn(d, j)' => MayTurn(d, j)
    BY <2>1 DEF MayTurn, Heard
  <2>3. \A d \in Conns, j \in Pieces :
          OnWire(d, j)' \/ Checks(d, j)' => OnWire(d, j) \/ Checks(d, j)
    BY <2>1 DEF OnWire, Checks
  <2>4. TurnedBack' /\ HeardOnly'
    BY <1>0, <2>1 DEF TurnedBack, HeardOnly, Leaving
  <2> QED
    BY <1>4, <2>1, <2>2, <2>3, <2>4
<1> QED
  BY <1>6, <1>7, <1>8, <1>9, <1>10, <1>11, <1>12, <1>13, <1>14, <1>15, <1>16, <1>17
     DEF Receiver, Environment
-----------------------------------------------------------------------------
(***************************************************************************)
(* The order of the blocks on a wire, and the invariant of all phases.     *)
(***************************************************************************)

\* What request_a_piece does to the wires: nothing, or its requests go behind what is
\* on the wire of the connection.
LEMMA AskedWire ==
  ASSUME TypeOK, NEW c \in Conns, NEW i \in Pieces, RequestPiece(c, i), wire' # wire
  PROVE  /\ \A d \in Conns : d # c => wire'[d] = wire[d]
         /\ Len(wire[c]) \in Nat
         /\ DOMAIN wire[c] = 1 .. Len(wire[c])
         /\ DOMAIN wire'[c] = 1 .. Len(wire[c]) + SubPieces
         /\ \A k \in 1 .. Len(wire[c]) : wire'[c][k] = wire[c][k]
         /\ \A k \in Len(wire[c]) + 1 .. Len(wire[c]) + SubPieces :
              wire'[c][k] = <<i, k - Len(wire[c])>>
<1> DEFINE asks == [s \in 1 .. SubPieces |-> <<i, s>>]
           n == Len(wire[c])
<1>1. asks \in Seq(Blocks) /\ Len(asks) = SubPieces /\ \A s \in 1 .. SubPieces : asks[s] = <<i, s>>
  BY RequestsOfPiece, DownloadAssumption
<1>2. wire[c] \in Seq(Blocks) /\ n \in Nat /\ DOMAIN wire[c] = 1 .. n
  BY LenProperties DEF TypeOK
<1>3. (\A d \in Conns : d # c => wire'[d] = wire[d]) /\ wire'[c] = wire[c] \o asks
  BY DEF RequestPiece, TypeOK
<1> HIDE DEF asks, n
<1>4. DOMAIN wire'[c] = 1 .. n + SubPieces
      /\ \A k \in 1 .. n + SubPieces :
           wire'[c][k] = IF k <= n THEN wire[c][k] ELSE asks[k - n]
  <2>1. /\ DOMAIN (wire[c] \o asks) = 1 .. Len(wire[c]) + Len(asks)
        /\ \A k \in 1 .. Len(wire[c]) + Len(asks) :
             (wire[c] \o asks)[k] = IF k <= Len(wire[c]) THEN wire[c][k]
                                                        ELSE asks[k - Len(wire[c])]
    BY <1>1, <1>2, LongerWire
  <2> QED
    BY <1>1, <1>3, <2>1 DEF n
<1>5. \A k \in 1 .. n : k \in 1 .. n + SubPieces /\ k <= n
  BY <1>2, DownloadAssumption
<1>6. \A k \in n + 1 .. n + SubPieces :
        k \in 1 .. n + SubPieces /\ ~(k <= n) /\ k - n \in 1 .. SubPieces
  BY <1>2, DownloadAssumption
<1>7. /\ \A k \in 1 .. n : wire'[c][k] = wire[c][k]
      /\ \A k \in n + 1 .. n + SubPieces : wire'[c][k] = <<i, k - n>>
  BY <1>1, <1>4, <1>5, <1>6
<1> QED
  BY <1>2, <1>3, <1>4, <1>7 DEF n

\* The requests of a piece are appended in order to a wire that has none of it.
LEMMA AskInOrder ==
  ASSUME TypeOK, InOrder, NEW c \in Conns, NEW i \in Pieces, RequestPiece(c, i), ~OnWire(c, i)
  PROVE  InOrder'
<1> DEFINE n == Len(wire[c])
<1>1. CASE wire' = wire
  BY <1>1 DEF InOrder
<1>2. CASE wire' # wire
  <2>1. /\ \A d \in Conns : d # c => wire'[d] = wire[d]
        /\ n \in Nat /\ DOMAIN wire[c] = 1 .. n /\ DOMAIN wire'[c] = 1 .. n + SubPieces
        /\ \A k \in 1 .. n : wire'[c][k] = wire[c][k]
        /\ \A k \in n + 1 .. n + SubPieces : wire'[c][k] = <<i, k - n>>
    BY <1>2, AskedWire
  <2>2. \A k \in 1 .. n : wire[c][k][1] # i
    BY <2>1 DEF OnWire
  <2> HIDE DEF n
  <2> SUFFICES ASSUME NEW d \in Conns, NEW k \in DOMAIN wire'[d], NEW m \in DOMAIN wire'[d],
                      k < m, wire'[d][k][1] = wire'[d][m][1]
               PROVE  wire'[d][k][2] < wire'[d][m][2]
    BY DEF InOrder
  <2>3. CASE d # c
    BY <2>1, <2>3 DEF InOrder
  <2>4. CASE d = c /\ m <= n
    <3>1. k \in 1 .. n /\ m \in 1 .. n
      BY <2>1, <2>4, DownloadAssumption
    <3> QED
      BY <2>1, <2>4, <3>1 DEF InOrder
  <2>5. CASE d = c /\ ~(m <= n)
    <3>1. m \in n + 1 .. n + SubPieces
      BY <2>1, <2>5, DownloadAssumption
    <3>2. wire'[d][m] = <<i, m - n>>
      BY <2>1, <2>5, <3>1
    <3>3. ~(k \in 1 .. n)
      BY <2>1, <2>2, <2>5, <3>2
    <3>4. k \in n + 1 .. n + SubPieces
      BY <2>1, <2>5, <3>3, DownloadAssumption
    <3>5. wire'[d][k] = <<i, k - n>>
      BY <2>1, <2>5, <3>4
    <3>6. k - n < m - n
      BY <2>1, <3>1, <3>4, DownloadAssumption
    <3> QED
      BY <3>2, <3>5, <3>6
  <2> QED
    BY <2>3, <2>4, <2>5
<1> QED
  BY <1>1, <1>2

\* What an arrival leaves of the wire is all of it but its head, or nothing.
LEMMA ArrivedWire ==
  ASSUME TypeOK, NEW c \in Conns, NEW torn \in BOOLEAN, Arrives(c, torn), wire[c] # <<>>
  PROVE  /\ \A d \in Conns : d # c => wire'[d] = wire[d]
         /\ Len(wire[c]) \in Nat \ {0}
         /\ DOMAIN wire[c] = 1 .. Len(wire[c]) /\ Head(wire[c]) = wire[c][1]
         /\ \A k \in DOMAIN wire'[c] :
              /\ ~torn /\ k \in 1 .. Len(wire[c]) - 1 /\ k + 1 \in 1 .. Len(wire[c])
              /\ \A m \in 1 .. k : m \in 1 .. Len(wire[c]) - 1 /\ wire'[c][m] = wire[c][m + 1]
<1> DEFINE w == wire[c]  n == Len(w)
<1>1. w \in Seq(Blocks) /\ n \in Nat \ {0} /\ DOMAIN w = 1 .. n /\ Head(w) = w[1]
  BY LenProperties, EmptySeq DEF TypeOK
<1>2. \A d \in Conns : d # c => wire'[d] = wire[d]
  BY DEF Arrives, TypeOK
<1>3. \A k \in DOMAIN wire'[c] :
        /\ ~torn /\ k \in 1 .. n - 1 /\ k + 1 \in 1 .. n
        /\ \A m \in 1 .. k : m \in 1 .. n - 1 /\ wire'[c][m] = w[m + 1]
  <2>1. CASE wire'[c] = Tail(w) /\ ~torn
    <3>1. Tail(w) \in Seq(Blocks) /\ Len(Tail(w)) = n - 1
          /\ \A k \in 1 .. n - 1 : Tail(w)[k] = w[k + 1]
      BY <1>1, HeadTailProperties
    <3>2. DOMAIN Tail(w) = 1 .. n - 1
      BY <3>1, LenProperties
    <3> QED
      BY <1>1, <2>1, <3>1, <3>2
  <2>2. CASE wire'[c] = <<>>
    BY <2>2
  <2> QED
    BY <2>1, <2>2 DEF Arrives, TypeOK
<1> QED
  BY <1>1, <1>2, <1>3

\* A block that arrives leaves the wire in order, and the last one of a piece leaves
\* none of it.
LEMMA ArrivalInOrder ==
  ASSUME TypeOK, InOrder, NEW c \in Conns, NEW torn \in BOOLEAN, Arrives(c, torn), wire[c] # <<>>
  PROVE  /\ InOrder'
         /\ \A i \in Pieces : Head(wire[c]) = <<i, SubPieces>> => ~OnWire(c, i)'
<1> DEFINE w == wire[c]  n == Len(w)
<1>1. /\ \A d \in Conns : d # c => wire'[d] = wire[d]
      /\ n \in Nat \ {0} /\ DOMAIN w = 1 .. n /\ Head(w) = w[1]
      /\ \A k \in DOMAIN wire'[c] :
           /\ ~torn /\ k \in 1 .. n - 1 /\ k + 1 \in 1 .. n
           /\ \A m \in 1 .. k : m \in 1 .. n - 1 /\ wire'[c][m] = w[m + 1]
  BY ArrivedWire
<1>2. \A k \in DOMAIN wire'[c] :
        k \in 1 .. n - 1 /\ k + 1 \in 1 .. n /\ wire'[c][k] = w[k + 1]
  <2>1. \A k \in DOMAIN wire'[c] : k \in 1 .. k
    BY <1>1
  <2> QED
    BY <1>1, <2>1
<1>3. \A k \in 1 .. n : w[k][1] \in Pieces /\ w[k][2] \in 1 .. SubPieces
  <2>1. w \in Seq(Blocks)
    BY DEF TypeOK
  <2>2. \A k \in 1 .. n : w[k] \in Blocks
    BY <2>1, ElementOfSeq
  <2> QED
    BY <2>2 DEF Blocks
<1> HIDE DEF n
<1>4. InOrder'
  <2> SUFFICES ASSUME NEW d \in Conns, NEW k \in DOMAIN wire'[d], NEW m \in DOMAIN wire'[d],
                      k < m, wire'[d][k][1] = wire'[d][m][1]
               PROVE  wire'[d][k][2] < wire'[d][m][2]
    BY DEF InOrder
  <2>1. CASE d # c
    BY <1>1, <2>1 DEF InOrder
  <2>2. CASE d = c
    <3>1. /\ k \in 1 .. n - 1 /\ m \in 1 .. n - 1
          /\ wire'[c][k] = w[k + 1] /\ wire'[c][m] = w[m + 1]
          /\ k + 1 \in 1 .. n /\ m + 1 \in 1 .. n
      BY <1>2, <2>2
    <3>2. k + 1 < m + 1 /\ k + 1 \in DOMAIN wire[c] /\ m + 1 \in DOMAIN wire[c]
      BY <1>1, <3>1
    <3>3. wire[c][k + 1][1] = wire[c][m + 1][1]
      BY <2>2, <3>1
    <3>4. wire[c][k + 1][2] < wire[c][m + 1][2]
      BY <3>2, <3>3 DEF InOrder
    <3> QED
      BY <2>2, <3>1, <3>4
  <2> QED
    BY <2>1, <2>2
<1>5. ASSUME NEW i \in Pieces, w[1] = <<i, SubPieces>>, NEW k \in DOMAIN wire'[c],
             wire'[c][k][1] = i
      PROVE  FALSE
  <2>1. k \in 1 .. n - 1 /\ wire'[c][k] = w[k + 1] /\ k + 1 \in 1 .. n
    BY <1>2
  <2>2. 1 < k + 1 /\ 1 \in DOMAIN wire[c] /\ k + 1 \in DOMAIN wire[c]
    BY <1>1, <2>1
  <2>3. wire[c][1][2] < wire[c][k + 1][2]
    BY <1>5, <2>1, <2>2 DEF InOrder
  <2>4. wire[c][k + 1][2] \in 1 .. SubPieces
    BY <1>3, <2>1
  <2> QED
    BY <1>5, <2>3, <2>4, DownloadAssumption
<1> QED
  BY <1>1, <1>4, <1>5 DEF OnWire

\* Every step of the phase keeps the order.
LEMMA InOrderStep ==
  ASSUME TypeOK, Owners, InOrder, Course, BeforeEndGame, Next
  PROVE  InOrder'
<1> USE DEF vars, lockVars, sharedVars, peerVars, wireVars, requesterVars, receiverVars
<1>1. CASE UNCHANGED wire
  BY <1>1 DEF InOrder
<1>2. CASE AskPeer
  <2>1. rPeer \in Conns /\ rIndex \in Pieces /\ RequestPiece(rPeer, rIndex)
    BY <1>2 DEF TypeOK, AskPeer
  <2>2. ~OnWire(rPeer, rIndex)
    BY <1>2, <2>1 DEF AskPeer, Owners, Chosen, WantedIsFree, Involved
  <2> QED
    BY <2>1, <2>2, AskInOrder
<1>3. CASE Requester
  BY <1>1, <1>2, <1>3
     DEF Requester, ChoosePiece, FindPeer, TakeSlot, BookRequest, LeaveLoop, StartEndGame,
         ChooseLast, WalkAsk, WalkMark, WalkNext, WalkFreedNode, Course, Phases, BeforeEndGame
<1>4. ASSUME NEW c \in Conns, Receiver(c) \/ Environment(c)
      PROVE  InOrder'
  <2>1. ASSUME NEW torn \in BOOLEAN, HandlePiece(c, torn) PROVE InOrder'
    BY <2>1, ArrivalInOrder DEF HandlePiece
  <2>2. CASE Disconnect(c)
    <3>1. wire'[c] = <<>> /\ \A d \in Conns : d # c => wire'[d] = wire[d]
      BY <2>2 DEF Disconnect, TypeOK
    <3> QED
      BY <3>1 DEF InOrder
  <2>3. CASE ~(HandlePiece(c, FALSE) \/ HandlePiece(c, TRUE) \/ Disconnect(c))
    <3>1. UNCHANGED wire
      BY <1>4, <2>3 DEF Receiver, Environment, Connect, HandleBitfield, HearPiece, CountPiece,
                        CloseBitfield, ClaimPiece, PieceComplete, PieceIncomplete, ScanPiece,
                        UncountPiece, TurnBack, RemoveNode
    <3> QED
      BY <1>1, <3>1
  <2> QED
    BY <2>1, <2>2, <2>3
<1> QED
  BY <1>3, <1>4 DEF Next

\* Every step keeps the invariant of the phase; the one into the end game, and the one
\* that misleads, by leaving it.
LEMMA NormalStep ==
  ASSUME TypeOK, Course, Normal, [Next]_vars
  PROVE  Normal'
<1> SUFFICES ASSUME BeforeEndGame', NotMisled' PROVE (Owners /\ InOrder)'
  BY DEF Normal
<1>1. BeforeEndGame /\ Owners /\ InOrder /\ amiss \subseteq amiss'
  BY NeverBack DEF Normal, NotMisled
<1>2. CASE UNCHANGED vars
  <2> USE DEF vars, lockVars, sharedVars, peerVars, wireVars, requesterVars, receiverVars
  <2>1. \A c \in Conns, i \in Pieces :
          (OnWire(c, i)' <=> OnWire(c, i)) /\ (Checks(c, i)' <=> Checks(c, i))
          /\ (MayTurn(c, i)' <=> MayTurn(c, i)) /\ (Books(c, i)' <=> Books(c, i))
    BY <1>2 DEF OnWire, Checks, MayTurn, Books, Heard
  <2>2. TurnedBack' /\ NotYetBooked' /\ Chosen' /\ ChosenHeld' /\ HeardOnly'
    BY <1>1, <1>2 DEF Owners, TurnedBack, NotYetBooked, Chosen, ChosenHeld, HeardOnly,
                      MayTurn, Heard
  <2>3. Owners'
    BY <1>1, <1>2, <2>1, <2>2, SameOwners DEF Involved
  <2> QED
    BY <1>1, <1>2, <2>3 DEF InOrder
<1> QED
  BY <1>1, <1>2, RequesterOwners, ReceiverOwners, InOrderStep DEF Next

\* The invariant of all phases, and what it says of the one before the end game.
Reached == TypeOK /\ Course /\ Normal

\* Both hold in every reachable state.
THEOREM NormalCorrect == Spec => []Reached
<1>1. Init => Course /\ Normal
  BY CourseInit, NormalInit
<1>2. TypeOK /\ Course /\ Normal /\ [Next]_vars => (Course /\ Normal)'
  BY CourseStep, NormalStep
<1> QED
  BY <1>1, <1>2, TypeCorrect, PTL DEF Spec, Reached

\* The piece the requester chose is still wanted when it asks for it, however long it
\* waited for LOCK_PIECE in between.
THEOREM ChosenCorrect == Spec => []ChosenStillWanted
<1>1. Reached => ChosenStillWanted
  BY DEF Reached, Normal, Owners, Chosen, ChosenStillWanted
<1> QED
  BY <1>1, NormalCorrect, PTL

\* Before the end game no block is on its way twice, and what is on its way belongs
\* to a piece marked as requested, or found complete early.
THEOREM AskedOnceCorrect == Spec => []AskedOnce
<1>1. Reached => AskedOnce
  <2> SUFFICES ASSUME Reached, BeforeEndGame, NotMisled, NEW c \in Conns, NEW k \in DOMAIN wire[c]
               PROVE  /\ \/ wire[c][k][1] \in InState(PIECE_REQUESTING)
                         \/ "early" \in amiss /\ wire[c][k][1] \in InState(PIECE_COMPLETED)
                      /\ \A d \in Conns : \A m \in DOMAIN wire[d] :
                           wire[d][m] = wire[c][k] => d = c /\ m = k
    BY DEF AskedOnce
  <2>1. TypeOK /\ OnItsWay /\ OneOwner /\ InOrder
    BY DEF Reached, Normal, Owners
  <2>2. \A d \in Conns : \A m \in DOMAIN wire[d] :
          m \in Nat /\ wire[d][m][1] \in Pieces /\ wire[d][m][2] \in Nat
    <3> SUFFICES ASSUME NEW d \in Conns, NEW m \in DOMAIN wire[d]
                 PROVE  m \in Nat /\ wire[d][m][1] \in Pieces /\ wire[d][m][2] \in Nat
      OBVIOUS
    <3>1. wire[d] \in Seq(Blocks)
      BY <2>1 DEF TypeOK
    <3>2. m \in Nat /\ wire[d][m] \in Blocks
      BY <3>1, LenProperties, ElementOfSeq
    <3> QED
      BY <3>2, DownloadAssumption DEF Blocks
  <2>3. OnWire(c, wire[c][k][1]) /\ wire[c][k][1] \in Pieces
    BY <2>2 DEF OnWire
  <2>4. \/ pieces_state_arr[wire[c][k][1]] = PIECE_REQUESTING
        \/ "early" \in amiss /\ pieces_state_arr[wire[c][k][1]] = PIECE_COMPLETED
    BY <2>1, <2>3 DEF OnItsWay
  <2>5. ASSUME NEW d \in Conns, NEW m \in DOMAIN wire[d], wire[d][m] = wire[c][k]
        PROVE  d = c /\ m = k
    <3>1. OnWire(d, wire[c][k][1])
      BY <2>5 DEF OnWire
    <3>2. d = c
      BY <2>1, <2>3, <3>1 DEF OneOwner, Involved
    <3>3. ~(k < m) /\ ~(m < k)
      BY <2>1, <2>2, <2>5, <3>2 DEF InOrder
    <3> QED
      BY <2>2, <3>2, <3>3
  <2> QED
    BY <2>3, <2>4, <2>5 DEF InState
<1> QED
  BY <1>1, NormalCorrect, PTL

\* If nothing went amiss, a block that is written belongs to a piece that is not
\* complete, torn or not.
LEMMA WrittenIsMissing ==
  ASSUME Reached, amiss = {}, NEW c \in Conns, NEW torn \in BOOLEAN, HandlePiece(c, torn),
         NEW i \in Pieces, pieces_state_arr[i] = PIECE_COMPLETED, Whole(i)
  PROVE  Whole(i)'
<1> USE DEF Reached
<1>1. Head(wire[c]) \in Blocks /\ Head(wire[c])[1] \in Pieces
  BY ArrivalType
<1>2. Claim(c) # PIECE_COMPLETED
  BY DownloadAssumption DEF Claim, PIECE_END_GAME_GETED, PIECE_COMPLETED
<1>3. CASE disk' = disk
  BY <1>3 DEF Whole, WholeIn
<1>4. CASE WriteBlock(Head(wire[c]), torn) /\ pieces_state_arr[Head(wire[c])[1]] \in {PIECE_REQUESTING, Claim(c)}
  <2>1. i # Head(wire[c])[1]
    BY <1>2, <1>4 DEF PIECE_REQUESTING, PIECE_COMPLETED
  <2> QED
    BY <1>4, <2>1 DEF Whole, WholeIn, WriteBlock
<1>5. CASE BeforeEndGame /\ WriteBlock(Head(wire[c]), torn)
  <2>1. OnWire(c, Head(wire[c])[1])
    BY ArrivalOnWire DEF HandlePiece
  <2>2. pieces_state_arr[Head(wire[c])[1]] = PIECE_REQUESTING
    BY <1>1, <1>5, <2>1 DEF Normal, NotMisled, Owners, OnItsWay
  <2> QED
    BY <1>4, <1>5, <2>2
<1> QED
  BY <1>3, <1>4, <1>5 DEF HandlePiece, BeforeEndGame

\* A piece that is complete is whole, in all phases and whatever memory and file the
\* client found, if no block was cut short; and when blocks are, what they spoil is
\* no complete piece, if nothing went amiss before the end game.
THEOREM CompletedIsWholeCorrect == Spec => []CompletedIsWhole
<1>1. Init => CompletedIsWhole
  BY DEF Init, CompletedIsWhole, InState, PIECE_COMPLETED, PIECE_HAVNT
<1>2. Reached /\ CompletedIsWhole /\ [Next]_vars => CompletedIsWhole'
  <2> SUFFICES ASSUME Reached, CompletedIsWhole, [Next]_vars, cut' = {} \/ amiss' = {},
                      NEW i \in InState(PIECE_COMPLETED)'
               PROVE  Whole(i)'
    BY DEF CompletedIsWhole
  <2>1. i \in Pieces /\ pieces_state_arr'[i] = PIECE_COMPLETED
    BY DEF InState
  <2>2. cut = {} \/ amiss = {}
    BY DiskGrows, NeverBack DEF Reached
  <2>3. Whole(i)
    BY <2>1, <2>2, CompletedByHash DEF Reached, CompletedIsWhole, InState
  <2>4. CASE disk \subseteq disk'
    BY <2>3, <2>4 DEF Whole, WholeIn
  <2>5. CASE ~(disk \subseteq disk')
    <3>1. amiss = {}
      BY <2>5, DiskGrows, NeverBack DEF Reached
    <3>2. PICK c \in Conns, torn \in BOOLEAN : HandlePiece(c, torn)
      BY <2>5 DEF Next, Requester, ChoosePiece, FindPeer, TakeSlot, AskPeer, BookRequest,
              LeaveLoop, StartEndGame, ChooseLast, WalkAsk, WalkMark, WalkNext, WalkFreedNode,
              Receiver, Environment, Connect, HandleBitfield, HearPiece, CountPiece,
              CloseBitfield, ClaimPiece, PieceComplete, PieceIncomplete, Disconnect,
              ScanPiece, UncountPiece, TurnBack, RemoveNode,
              vars, lockVars, sharedVars, peerVars, wireVars, requesterVars, receiverVars
    <3>3. pieces_state_arr[i] = PIECE_COMPLETED
      BY <2>1, <3>2 DEF HandlePiece
    <3> QED
      BY <2>1, <2>3, <3>1, <3>2, <3>3, WrittenIsMissing
  <2> QED
    BY <2>4, <2>5
<1> QED
  BY <1>1, <1>2, NormalCorrect, PTL DEF Spec
-----------------------------------------------------------------------------
(***************************************************************************)
(* What the counters count, before the end game.                           *)
(***************************************************************************)

\* A set of pieces loses or gains one when a piece is marked.
LEMMA CountPieces ==
  ASSUME NEW S \in SUBSET Pieces, NEW i \in Pieces
  PROVE  /\ Cardinality(S) \in Nat
         /\ i \in S => Cardinality(S) > 0 /\ Cardinality(S \ {i}) = Cardinality(S) - 1
         /\ i \notin S => Cardinality(S \cup {i}) = Cardinality(S) + 1
<1>1. IsFiniteSet(Pieces)
  BY FS_Interval, DownloadAssumption DEF Pieces
<1>2. IsFiniteSet(S) /\ Cardinality(S) \in Nat
  BY <1>1, FS_Subset, FS_CardinalityType
<1>3. i \in S => Cardinality(S) > 0
  BY <1>2, FS_EmptySet
<1> QED
  BY <1>2, <1>3, FS_AddElement, FS_RemoveElement

\* Pieces not marked are in the states they were in.
LEMMA SameStates ==
  ASSUME UNCHANGED pieces_state_arr, NEW t
  PROVE  InState(t)' = InState(t)
  BY DEF InState

\* The states of the pieces change by three actions only, each of which marks one piece.
LEMMA Marks ==
  ASSUME Reached, Next, BeforeEndGame, NotMisled
  PROVE  \/ UNCHANGED pieces_state_arr /\ ~AskPeer /\ ~(\E c \in Conns : PieceComplete(c) \/ TurnBack(c))
         \/ /\ AskPeer
            /\ rIndex \in Pieces /\ pieces_state_arr[rIndex] = PIECE_HAVNT
            /\ pieces_state_arr' = [pieces_state_arr EXCEPT ![rIndex] = PIECE_REQUESTING]
         \/ \E c \in Conns :
              /\ PieceComplete(c)
              /\ cursor[c] \in Pieces
              /\ \/ pieces_state_arr[cursor[c]] = PIECE_REQUESTING
                 \/ "early" \in amiss /\ pieces_state_arr[cursor[c]] = PIECE_COMPLETED
              /\ pieces_state_arr' = [pieces_state_arr EXCEPT ![cursor[c]] = PIECE_COMPLETED]
         \/ \E c \in Conns :
              /\ TurnBack(c) /\ hpc[c] = "turning"
              /\ cursor[c] \in Pieces /\ pieces_state_arr[cursor[c]] = PIECE_REQUESTING
              /\ pieces_state_arr' = [pieces_state_arr EXCEPT ![cursor[c]] = PIECE_HAVNT]
<1> USE DEF vars, lockVars, sharedVars, peerVars, wireVars, requesterVars, receiverVars
<1>0. TypeOK /\ Phases /\ Chosen /\ OnItsWay /\ TurnedBack /\ HeardOnly
  BY DEF Reached, Normal, Owners, Course
<1>1. CASE AskPeer
  <2>1. /\ pieces_state_arr' = [pieces_state_arr EXCEPT ![rIndex] = PIECE_REQUESTING]
        /\ rpc = "ask"
    BY <1>1 DEF AskPeer, RequestPiece
  <2> QED
    BY <1>0, <1>1, <2>1 DEF TypeOK, Chosen
<1>2. ASSUME NEW c \in Conns, PieceComplete(c)
      PROVE  /\ cursor[c] \in Pieces
             /\ \/ pieces_state_arr[cursor[c]] = PIECE_REQUESTING
                \/ "early" \in amiss /\ pieces_state_arr[cursor[c]] = PIECE_COMPLETED
             /\ pieces_state_arr' = [pieces_state_arr EXCEPT ![cursor[c]] = PIECE_COMPLETED]
  <2>1. cursor[c] \in Pieces /\ Checks(c, cursor[c])
    BY <1>0, <1>2, CompleteType DEF Checks
  <2> QED
    BY <1>0, <1>2, <2>1 DEF PieceComplete, OnItsWay
<1>3. ASSUME NEW c \in Conns, TurnBack(c)
      PROVE  /\ hpc[c] = "turning"
             /\ cursor[c] \in Pieces /\ pieces_state_arr[cursor[c]] = PIECE_REQUESTING
             /\ pieces_state_arr' = [pieces_state_arr EXCEPT ![cursor[c]] = PIECE_HAVNT]
  <2>1. hpc[c] = "turning"
    BY <1>3 DEF TurnBack, Goto
  <2> QED
    BY <1>0, <1>3, <2>1, TurningInvolved DEF TurnBack
<1>4. CASE ~AskPeer /\ ~(\E c \in Conns : PieceComplete(c) \/ TurnBack(c))
  <2>1. CASE Requester
    BY <1>0, <1>4, <2>1
       DEF Requester, Phases, BeforeEndGame, ChoosePiece, FindPeer, TakeSlot, BookRequest,
           LeaveLoop, StartEndGame, ChooseLast, WalkAsk, WalkMark, WalkNext, WalkFreedNode
  <2>2. ASSUME NEW c \in Conns, Receiver(c) \/ Environment(c)
        PROVE  UNCHANGED pieces_state_arr
    <3>1. ~ClaimPiece(c)
      BY <1>0 DEF ClaimPiece, Goto, Phases, BeforeEndGame
    <3> QED
      BY <1>4, <2>2, <3>1
         DEF Receiver, Environment, Connect, HandleBitfield, HearPiece, CountPiece,
             CloseBitfield, HandlePiece, PieceIncomplete, Disconnect, ScanPiece, UncountPiece,
             RemoveNode
  <2> QED
    BY <1>4, <2>1, <2>2 DEF Next
<1> QED
  BY <1>1, <1>2, <1>3, <1>4

\* What a mark does to the pieces in a state.
LEMMA MarkCounts ==
  ASSUME TypeOK, NEW i \in Pieces, NEW to,
         pieces_state_arr' = [pieces_state_arr EXCEPT ![i] = to]
  PROVE  /\ \A s : Cardinality(InState(s)) \in Nat
         /\ \A s : s # to /\ s = pieces_state_arr[i] =>
              /\ Cardinality(InState(s)) > 0
              /\ Cardinality(InState(s)') = Cardinality(InState(s)) - 1
         /\ to # pieces_state_arr[i] =>
              Cardinality(InState(to)') = Cardinality(InState(to)) + 1
         /\ \A s : (s # to /\ s # pieces_state_arr[i]) \/ to = pieces_state_arr[i] =>
              Cardinality(InState(s)') = Cardinality(InState(s))
<1>1. \A s : InState(s) \in SUBSET Pieces
  BY DEF InState
<1>2. \A j \in Pieces : pieces_state_arr'[j] = IF j = i THEN to ELSE pieces_state_arr[j]
  BY DEF TypeOK
<1>3. ASSUME NEW s, s # to, s = pieces_state_arr[i]
      PROVE  InState(s)' = InState(s) \ {i} /\ i \in InState(s)
  BY <1>2, <1>3 DEF InState
<1>4. to # pieces_state_arr[i] => InState(to)' = InState(to) \cup {i} /\ i \notin InState(to)
  BY <1>2 DEF InState
<1>5. ASSUME NEW s, (s # to /\ s # pieces_state_arr[i]) \/ to = pieces_state_arr[i]
      PROVE  InState(s)' = InState(s)
  BY <1>2, <1>5 DEF InState
<1> QED
  BY <1>1, <1>3, <1>4, <1>5, CountPieces

\* The pieces still to be requested, the one being booked among them.
ToRequest == Cardinality(InState(PIECE_HAVNT)) + One(rpc = "book")

\* It is a number, before and after a step.
LEMMA ToRequestType == ToRequest \in Int /\ ToRequest' \in Int
<1>1. IsFiniteSet(Pieces)
  BY FS_Interval, DownloadAssumption DEF Pieces
<1> QED
  BY <1>1, FS_Subset, FS_CardinalityType DEF InState, ToRequest, One

\* The requester books what it asked for; only a disconnect makes a piece wanted
\* again, and that is not booked.
LEMMA ToRequestStep ==
  ASSUME Reached, [Next]_vars, BeforeEndGame', NotMisled'
  PROVE  \/ ToRequest' - ToRequest = rest_pieces_num' - rest_pieces_num
         \/ /\ ToRequest' = ToRequest + 1 /\ rest_pieces_num' = rest_pieces_num
            /\ \E c \in Conns : hpc[c] = "turning"
<1> USE DEF vars, lockVars, sharedVars, peerVars, wireVars, requesterVars, receiverVars
<1>0. TypeOK /\ BeforeEndGame /\ NotMisled /\ Phases /\ rest_pieces_num \in Int
      /\ Cardinality(InState(PIECE_HAVNT)) \in Nat
  <2>1. IsFiniteSet(Pieces)
    BY FS_Interval, DownloadAssumption DEF Pieces
  <2>2. Cardinality(InState(PIECE_HAVNT)) \in Nat
    BY <2>1, FS_Subset, FS_CardinalityType DEF InState
  <2> QED
    BY <2>2, NeverBack DEF Reached, Course, NotMisled, TypeOK
<1>1. CASE UNCHANGED vars
  BY <1>0, <1>1, SameStates DEF ToRequest, One
<1>2. CASE Next /\ UNCHANGED pieces_state_arr /\ ~AskPeer
           /\ ~(\E c \in Conns : PieceComplete(c) \/ TurnBack(c))
  <2>1. CASE BookRequest
    <3>1. rest_pieces_num' = rest_pieces_num - 1 /\ rpc = "book" /\ rpc' # "book"
      BY <2>1 DEF BookRequest, Booked
    <3> QED
      BY <1>0, <1>2, <3>1, SameStates DEF ToRequest, One
  <2>2. CASE ~BookRequest
    <3>1. UNCHANGED rest_pieces_num /\ (rpc = "book" <=> rpc' = "book")
      BY <1>2, <2>2
         DEF Next, Requester, ChoosePiece, FindPeer, TakeSlot, AfterLock, LeaveLoop,
             StartEndGame, ChooseLast, WalkAsk, WalkMark, WalkNext, StepFrom, WalkFreedNode,
             Receiver, Environment, Connect, HandleBitfield, HearPiece, CountPiece,
             CloseBitfield, HandlePiece, ClaimPiece, PieceIncomplete, Disconnect, ScanPiece,
             UncountPiece, RemoveNode
    <3> QED
      BY <1>0, <1>2, <3>1, SameStates DEF ToRequest, One
  <2> QED
    BY <2>1, <2>2
<1>3. CASE /\ AskPeer
           /\ rIndex \in Pieces /\ pieces_state_arr[rIndex] = PIECE_HAVNT
           /\ pieces_state_arr' = [pieces_state_arr EXCEPT ![rIndex] = PIECE_REQUESTING]
  <2>1. UNCHANGED rest_pieces_num /\ rpc = "ask" /\ rpc' = "book"
    BY <1>3 DEF AskPeer
  <2>2. PIECE_HAVNT # PIECE_REQUESTING
    BY DEF PIECE_REQUESTING, PIECE_HAVNT
  <2>3. Cardinality(InState(PIECE_HAVNT)') = Cardinality(InState(PIECE_HAVNT)) - 1
    <3>1. \A s : s # PIECE_REQUESTING /\ s = pieces_state_arr[rIndex] =>
            Cardinality(InState(s)') = Cardinality(InState(s)) - 1
      BY <1>0, <1>3, MarkCounts
    <3> QED
      BY <1>3, <2>2, <3>1
  <2> QED
    BY <1>0, <2>1, <2>3 DEF ToRequest, One
<1>4. ASSUME NEW c \in Conns, PieceComplete(c), cursor[c] \in Pieces,
             pieces_state_arr[cursor[c]] \in {PIECE_REQUESTING, PIECE_COMPLETED},
             pieces_state_arr' = [pieces_state_arr EXCEPT ![cursor[c]] = PIECE_COMPLETED]
      PROVE  ToRequest' - ToRequest = rest_pieces_num' - rest_pieces_num
  <2>1. UNCHANGED <<rpc, rest_pieces_num>>
    BY <1>4 DEF PieceComplete
  <2>2. PIECE_HAVNT # PIECE_REQUESTING /\ PIECE_HAVNT # PIECE_COMPLETED
    BY DEF PIECE_REQUESTING, PIECE_HAVNT, PIECE_COMPLETED
  <2>3. Cardinality(InState(PIECE_HAVNT)') = Cardinality(InState(PIECE_HAVNT))
    <3>1. PIECE_HAVNT # PIECE_COMPLETED /\ PIECE_HAVNT # pieces_state_arr[cursor[c]]
      BY <1>4, <2>2
    <3>2. \A s : (s # PIECE_COMPLETED /\ s # pieces_state_arr[cursor[c]])
                  \/ PIECE_COMPLETED = pieces_state_arr[cursor[c]] =>
            Cardinality(InState(s)') = Cardinality(InState(s))
      BY <1>0, <1>4, MarkCounts
    <3> QED
      BY <3>1, <3>2
  <2> QED
    BY <1>0, <2>1, <2>3 DEF ToRequest, One
<1>5. ASSUME NEW c \in Conns, TurnBack(c), cursor[c] \in Pieces,
             pieces_state_arr[cursor[c]] = PIECE_REQUESTING,
             pieces_state_arr' = [pieces_state_arr EXCEPT ![cursor[c]] = PIECE_HAVNT]
      PROVE  ToRequest' = ToRequest + 1 /\ rest_pieces_num' = rest_pieces_num
  <2>1. UNCHANGED <<rpc, rest_pieces_num>>
    BY <1>5 DEF TurnBack
  <2>2. PIECE_HAVNT # PIECE_REQUESTING
    BY DEF PIECE_REQUESTING, PIECE_HAVNT
  <2>3. Cardinality(InState(PIECE_HAVNT)') = Cardinality(InState(PIECE_HAVNT)) + 1
    BY <1>0, <1>5, <2>2, MarkCounts
  <2> QED
    BY <1>0, <2>1, <2>3 DEF ToRequest, One
<1> QED
  BY <1>0, <1>1, <1>2, <1>3, <1>4, <1>5, Marks

\* At the start nothing is booked, and the pieces to request are those missing.
LEMMA ToRequestInit ==
  ASSUME Init
  PROVE  rest_pieces_num = ToRequest
<1>1. InState(PIECE_HAVNT) = Missing(disk)
  BY DEF Init, InState, Missing, Whole, PIECE_HAVNT, PIECE_COMPLETED
<1>2. Cardinality(Missing(disk)) \in Nat
  <2>1. IsFiniteSet(Pieces)
    BY FS_Interval, DownloadAssumption DEF Pieces
  <2> QED
    BY <2>1, FS_Subset, FS_CardinalityType DEF Missing
<1> QED
  BY <1>1, <1>2 DEF Init, ToRequest, One

\* rest_pieces_num is never more than the pieces still to be requested, whoever leaves.
THEOREM RestNeverOverstatesCorrect == Spec => []RestNeverOverstates
<1>1. Init => RestNeverOverstates
  <2> SUFFICES ASSUME Init PROVE RestNeverOverstates
    OBVIOUS
  <2>1. TypeOK /\ rest_pieces_num = ToRequest
    BY InitType, ToRequestInit
  <2> QED
    BY <2>1 DEF RestNeverOverstates, ToRequest, TypeOK
<1>2. Reached /\ RestNeverOverstates /\ [Next]_vars => RestNeverOverstates'
  <2> SUFFICES ASSUME Reached, RestNeverOverstates, [Next]_vars, BeforeEndGame', NotMisled'
               PROVE  rest_pieces_num' <= ToRequest'
    BY DEF RestNeverOverstates, ToRequest
  <2>1. rest_pieces_num <= ToRequest
    BY NeverBack DEF RestNeverOverstates, ToRequest, Reached, NotMisled
  <2>2. rest_pieces_num \in Int /\ rest_pieces_num' \in Int
    BY TypeStep DEF Reached, TypeOK
  <2> QED
    BY <2>1, <2>2, ToRequestStep, ToRequestType
<1> QED
  BY <1>1, <1>2, NormalCorrect, PTL DEF Spec

\* A peer that started to leave has left.
LEMMA NoneLeftBack ==
  ASSUME TypeOK, [Next]_vars, NoneLeft'
  PROVE  NoneLeft
<1> USE DEF vars, lockVars, sharedVars, peerVars, wireVars, requesterVars, receiverVars
<1>1. CASE UNCHANGED hpc
  BY <1>1 DEF NoneLeft
<1>2. CASE Requester
  BY <1>1, <1>2 DEF Requester, ChoosePiece, FindPeer, TakeSlot, AskPeer, BookRequest,
                    LeaveLoop, StartEndGame, ChooseLast, WalkAsk, WalkMark, WalkNext,
                    WalkFreedNode
<1>3. ASSUME NEW c \in Conns, Receiver(c) \/ Environment(c)
      PROVE  NoneLeft
  <2>1. hpc' = hpc \/ \E to : hpc' = [hpc EXCEPT ![c] = to]
    BY <1>3 DEF Receiver, Environment, Connect, HandleBitfield, HearPiece, CountPiece,
                CloseBitfield, HandlePiece, ClaimPiece, PieceComplete, PieceIncomplete,
                Disconnect, ScanPiece, UncountPiece, TurnBack, RemoveNode, Goto
  <2>2. \A d \in Conns : d # c => hpc[d] \notin Leaving \cup {"gone"}
    BY <2>1 DEF NoneLeft, TypeOK
  <2>3. hpc[c] \in Leaving \cup {"gone"} => hpc'[c] \in Leaving \cup {"gone"}
    BY <1>3 DEF Receiver, Environment, Connect, HandleBitfield, HearPiece, CountPiece,
                CloseBitfield, HandlePiece, ClaimPiece, PieceComplete, PieceIncomplete,
                Disconnect, ScanPiece, UncountPiece, TurnBack, RemoveNode, Goto, Leaving, TypeOK
  <2> QED
    BY <2>2, <2>3 DEF NoneLeft
<1> QED
  BY <1>1, <1>2, <1>3 DEF Next

\* And as long as no peer leaves it is exactly that.
THEOREM RestCorrect == Spec => []RestExact
<1>1. Init => RestExact
  BY ToRequestInit DEF RestExact, ToRequest
<1>2. Reached /\ RestExact /\ [Next]_vars => RestExact'
  <2> SUFFICES ASSUME Reached, RestExact, [Next]_vars, BeforeEndGame', NotMisled', NoneLeft'
               PROVE  rest_pieces_num' = ToRequest'
    BY DEF RestExact, ToRequest
  <2>1. NoneLeft /\ BeforeEndGame /\ NotMisled
    BY NoneLeftBack, NeverBack DEF Reached, NotMisled
  <2>2. rest_pieces_num = ToRequest
    BY <2>1 DEF RestExact, ToRequest
  <2>3. rest_pieces_num' \in Int /\ rest_pieces_num \in Int
    BY TypeStep DEF Reached, TypeOK
  <2>4. ~\E c \in Conns : hpc[c] = "turning"
    BY <2>1 DEF NoneLeft, Leaving
  <2> QED
    BY <2>2, <2>3, <2>4, ToRequestStep, ToRequestType
<1> QED
  BY <1>1, <1>2, NormalCorrect, PTL DEF Spec

\* have_pieces_num, by which the end game is started, is the number of complete pieces.
THEOREM HaveExactCorrect == Spec => []HaveExact
<1>1. Init => HaveExact
  <2> SUFFICES ASSUME Init PROVE have_pieces_num = Cardinality(InState(PIECE_COMPLETED))
    BY DEF HaveExact
  <2>1. InState(PIECE_COMPLETED) = Pieces \ Missing(disk)
    BY DEF Init, InState, Missing, Whole, PIECE_HAVNT, PIECE_COMPLETED
  <2>2. IsFiniteSet(Pieces) /\ Cardinality(Pieces) = NumPieces
    BY FS_Interval, DownloadAssumption DEF Pieces
  <2>3. Pieces \cap Missing(disk) = Missing(disk)
    BY DEF Missing
  <2>4. Cardinality(Pieces \ Missing(disk)) = NumPieces - Cardinality(Missing(disk))
    BY <2>2, <2>3, FS_Difference
  <2> QED
    BY <2>1, <2>4 DEF Init
<1>2. Reached /\ HaveExact /\ [Next]_vars => HaveExact'
  <2> USE DEF vars, lockVars, sharedVars, peerVars, wireVars, requesterVars, receiverVars
  <2> SUFFICES ASSUME Reached, HaveExact, [Next]_vars, BeforeEndGame', amiss' = {}
               PROVE  have_pieces_num' = Cardinality(InState(PIECE_COMPLETED)')
    BY DEF HaveExact
  <2>1. TypeOK /\ BeforeEndGame /\ amiss = {} /\ NotMisled /\ "early" \notin amiss
        /\ have_pieces_num = Cardinality(InState(PIECE_COMPLETED))
    BY NeverBack DEF Reached, HaveExact, NotMisled
  <2>2. PIECE_COMPLETED # PIECE_REQUESTING /\ PIECE_COMPLETED # PIECE_HAVNT
    BY DEF PIECE_REQUESTING, PIECE_HAVNT, PIECE_COMPLETED
  <2>3. CASE ~\E c \in Conns : PieceComplete(c)
    <3>1. have_pieces_num' = have_pieces_num
      BY <2>3 DEF Next, Requester, ChoosePiece, FindPeer, TakeSlot, AskPeer, BookRequest,
              LeaveLoop, StartEndGame, ChooseLast, WalkAsk, WalkMark, WalkNext, WalkFreedNode,
              Receiver, Environment, Connect, HandleBitfield, HearPiece, CountPiece,
              CloseBitfield, HandlePiece, ClaimPiece, PieceIncomplete, Disconnect, ScanPiece,
              UncountPiece, TurnBack, RemoveNode
    <3>2. \/ UNCHANGED pieces_state_arr
          \/ \E i \in Pieces, to \in {PIECE_REQUESTING, PIECE_HAVNT} :
               /\ pieces_state_arr[i] # PIECE_COMPLETED
               /\ pieces_state_arr' = [pieces_state_arr EXCEPT ![i] = to]
      <4>1. CASE UNCHANGED vars
        BY <4>1
      <4>2. CASE Next
        BY <2>1, <2>2, <2>3, <4>2, Marks
      <4> QED
        BY <4>1, <4>2
    <3>3. CASE UNCHANGED pieces_state_arr
      BY <2>1, <3>1, <3>3, SameStates
    <3>4. ASSUME NEW i \in Pieces, NEW to \in {PIECE_REQUESTING, PIECE_HAVNT},
                 pieces_state_arr[i] # PIECE_COMPLETED,
                 pieces_state_arr' = [pieces_state_arr EXCEPT ![i] = to]
          PROVE  Cardinality(InState(PIECE_COMPLETED)') = Cardinality(InState(PIECE_COMPLETED))
      <4>1. PIECE_COMPLETED # to
        BY <2>2
      <4> QED
        <5>1. \A s : s # to /\ s # pieces_state_arr[i] =>
                Cardinality(InState(s)') = Cardinality(InState(s))
          BY <2>1, <3>4, MarkCounts
        <5> QED
          BY <3>4, <4>1, <5>1
    <3> QED
      BY <2>1, <3>1, <3>2, <3>3, <3>4
  <2>4. ASSUME NEW c \in Conns, PieceComplete(c)
        PROVE  have_pieces_num' = Cardinality(InState(PIECE_COMPLETED)')
    <3> DEFINE i == cursor[c]
    <3>1. /\ have_pieces_num' = have_pieces_num + 1 /\ hpc[c] = "checking"
          /\ pieces_state_arr' = [pieces_state_arr EXCEPT ![i] = PIECE_COMPLETED]
      BY <2>4 DEF PieceComplete, Goto
    <3>2. i \in Pieces /\ Checks(c, i)
      BY <2>1, <3>1 DEF TypeOK, Checks
    <3>3. pieces_state_arr[i] = PIECE_REQUESTING
      BY <2>1, <3>2 DEF Reached, Normal, Owners, OnItsWay
    <3>4. PIECE_COMPLETED # pieces_state_arr[i]
      BY <2>2, <3>3
    <3> HIDE DEF i
    <3>5. Cardinality(InState(PIECE_COMPLETED)') = Cardinality(InState(PIECE_COMPLETED)) + 1
      BY <2>1, <3>1, <3>2, <3>4, MarkCounts
    <3> QED
      BY <2>1, <3>1, <3>5
  <2> QED
    BY <2>3, <2>4
<1> QED
  BY <1>1, <1>2, NormalCorrect, PTL DEF Spec

\* Before the end game no step takes a complete piece back.
THEOREM CompletedStaysCorrect == Spec => CompletedStays
<1>1. Reached /\ [Next]_vars
        => [BeforeEndGame /\ NotMisled
              => InState(PIECE_COMPLETED) \subseteq InState(PIECE_COMPLETED)']_vars
  <2> SUFFICES ASSUME Reached, Next, BeforeEndGame, NotMisled, NEW i \in InState(PIECE_COMPLETED)
               PROVE  i \in InState(PIECE_COMPLETED)'
    OBVIOUS
  <2>1. i \in Pieces /\ pieces_state_arr[i] = PIECE_COMPLETED /\ TypeOK
    BY DEF InState, Reached
  <2>2. PIECE_COMPLETED # PIECE_REQUESTING /\ PIECE_COMPLETED # PIECE_HAVNT
    BY DEF PIECE_REQUESTING, PIECE_HAVNT, PIECE_COMPLETED
  <2>3. ASSUME NEW j, NEW s,
               pieces_state_arr' = [pieces_state_arr EXCEPT ![j] = s],
               j # i \/ s = PIECE_COMPLETED
        PROVE  i \in InState(PIECE_COMPLETED)'
    BY <2>1, <2>3 DEF InState, TypeOK
  <2>4. \/ UNCHANGED pieces_state_arr
        \/ \E j, s : /\ pieces_state_arr' = [pieces_state_arr EXCEPT ![j] = s]
                     /\ pieces_state_arr[j] # PIECE_COMPLETED \/ s = PIECE_COMPLETED
    BY <2>2, Marks
  <2> QED
    BY <2>1, <2>3, <2>4 DEF InState
<1> QED
  BY <1>1, NormalCorrect, PTL DEF Spec, CompletedStays

\* The slots of the window in use: a piece requested, or about to be.
Slots == Cardinality(InState(PIECE_REQUESTING)) + One(rpc = "ask")

\* They are a number.
LEMMA SlotsType == Slots \in Nat /\ Cardinality(InState(PIECE_REQUESTING)) \in Nat
<1>1. IsFiniteSet(Pieces)
  BY FS_Interval, DownloadAssumption DEF Pieces
<1>2. Cardinality(InState(PIECE_REQUESTING)) \in Nat
  BY <1>1, FS_Subset, FS_CardinalityType DEF InState
<1> QED
  BY <1>2 DEF Slots, One

\* Every step takes a slot, gives one back that is in use, or leaves the window alone.
LEMMA SlotsStep ==
  ASSUME Reached, Next, BeforeEndGame, amiss = {}
  PROVE  [Window!Next]_(Window!vars)
<1> USE DEF vars, lockVars, sharedVars, peerVars, wireVars, requesterVars, receiverVars
<1> DEFINE Asleep == IF rpc = "asleep" THEN "asleep" ELSE "free"
<1>0. TypeOK /\ Phases /\ NotMisled /\ "early" \notin amiss
      /\ PIECE_REQUESTING # PIECE_HAVNT /\ PIECE_REQUESTING # PIECE_COMPLETED
  BY DEF Reached, Course, NotMisled, PIECE_REQUESTING, PIECE_HAVNT, PIECE_COMPLETED
<1>1. Slots \in Nat /\ Cardinality(InState(PIECE_REQUESTING)) \in Nat
  BY SlotsType
<1>2. ASSUME UNCHANGED <<lockVars, Slots, Asleep>> PROVE UNCHANGED Window!vars
  BY <1>2 DEF Window!vars, Slots
<1>3. ASSUME UnlockPiece, UNCHANGED rpc, NEW i \in Pieces, NEW s \in {PIECE_HAVNT, PIECE_COMPLETED},
             pieces_state_arr[i] = PIECE_REQUESTING,
             pieces_state_arr' = [pieces_state_arr EXCEPT ![i] = s]
      PROVE  Window!Next
  <2>1. PIECE_REQUESTING # s
    BY <1>0
  <2>2. /\ Cardinality(InState(PIECE_REQUESTING)) > 0
        /\ Cardinality(InState(PIECE_REQUESTING)') = Cardinality(InState(PIECE_REQUESTING)) - 1
    <3>1. \A t : t # s /\ t = pieces_state_arr[i] =>
            /\ Cardinality(InState(t)) > 0
            /\ Cardinality(InState(t)') = Cardinality(InState(t)) - 1
      BY <1>0, <1>3, MarkCounts
    <3> QED
      BY <1>3, <2>1, <3>1
  <2>3. Slots > 0 /\ Slots' = Slots - 1 /\ UNCHANGED Asleep
    BY <1>1, <1>3, <2>2 DEF Slots, One
  <2> QED
    BY <1>3, <2>3 DEF Window!Next, Window!Release, Window!UnlockPiece, UnlockPiece, Slots
<1>4. CASE TakeSlot
  <2>1. InState(PIECE_REQUESTING)' = InState(PIECE_REQUESTING)
    BY <1>4, SameStates DEF TakeSlot
  <2>2. CASE rpc = "lock" /\ LockReturns /\ rpc' = "ask"
    <3>1. Slots' = Slots + 1
      BY <1>1, <2>1, <2>2 DEF Slots, One
    <3> QED
      BY <2>2, <3>1 DEF Window!Next, Window!Pass, Window!LockReturns, LockReturns, Slots
  <2>3. CASE rpc = "lock" /\ LockBlocks /\ rpc' = "asleep"
    <3>1. Slots' = Slots
      BY <2>1, <2>3 DEF Slots, One
    <3> QED
      BY <2>3, <3>1 DEF Window!Next, Window!FallAsleep, Window!LockBlocks, LockBlocks, Slots
  <2>4. CASE rpc = "asleep" /\ LockGranted /\ rpc' = "ask"
    <3>1. Slots' = Slots + 1
      BY <1>1, <2>1, <2>4 DEF Slots, One
    <3> QED
      BY <2>4, <3>1 DEF Window!Next, Window!WakeUp, Window!LockGranted, LockGranted, Slots
  <2> QED
    BY <1>4, <2>2, <2>3, <2>4 DEF TakeSlot, AfterLock, BeforeEndGame
<1>5. CASE /\ AskPeer
           /\ rIndex \in Pieces /\ pieces_state_arr[rIndex] = PIECE_HAVNT
           /\ pieces_state_arr' = [pieces_state_arr EXCEPT ![rIndex] = PIECE_REQUESTING]
  <2>1. UNCHANGED lockVars /\ rpc = "ask" /\ rpc' = "book"
    BY <1>5 DEF AskPeer
  <2>2. Cardinality(InState(PIECE_REQUESTING)') = Cardinality(InState(PIECE_REQUESTING)) + 1
    BY <1>0, <1>5, MarkCounts
  <2>3. Slots' = Slots
    BY <1>1, <2>1, <2>2 DEF Slots, One
  <2> QED
    BY <1>2, <2>1, <2>3
<1>6. ASSUME NEW c \in Conns, PieceComplete(c), cursor[c] \in Pieces,
             pieces_state_arr[cursor[c]] = PIECE_REQUESTING,
             pieces_state_arr' = [pieces_state_arr EXCEPT ![cursor[c]] = PIECE_COMPLETED]
      PROVE  Window!Next
  BY <1>3, <1>6 DEF PieceComplete
<1>7. ASSUME NEW c \in Conns, TurnBack(c), cursor[c] \in Pieces,
             pieces_state_arr[cursor[c]] = PIECE_REQUESTING,
             pieces_state_arr' = [pieces_state_arr EXCEPT ![cursor[c]] = PIECE_HAVNT]
      PROVE  Window!Next
  BY <1>3, <1>7 DEF TurnBack
<1>8. CASE /\ UNCHANGED pieces_state_arr /\ ~AskPeer /\ ~TakeSlot
           /\ ~(\E c \in Conns : PieceComplete(c) \/ TurnBack(c))
  <2>1. UNCHANGED lockVars /\ (rpc' = "asleep" <=> rpc = "asleep") /\ (rpc' = "ask" <=> rpc = "ask")
    <3>1. CASE Requester
      BY <1>0, <1>8, <3>1
         DEF Requester, Phases, BeforeEndGame, ChoosePiece, FindPeer, BookRequest, LeaveLoop,
             StartEndGame, ChooseLast, WalkAsk, WalkMark, WalkNext, WalkFreedNode
    <3>2. ASSUME NEW c \in Conns, Receiver(c) \/ Environment(c)
          PROVE  UNCHANGED <<lockVars, rpc>>
      BY <1>8, <3>2
         DEF Receiver, Environment, Connect, HandleBitfield, HearPiece, CountPiece,
             CloseBitfield, HandlePiece, ClaimPiece, PieceIncomplete, Disconnect, ScanPiece,
             UncountPiece, RemoveNode
    <3> QED
      BY <1>8, <3>1, <3>2 DEF Next
  <2>2. UNCHANGED <<Slots, Asleep>>
    BY <1>8, <2>1, SameStates DEF Slots, One
  <2> QED
    BY <1>2, <2>1, <2>2
<1> QED
  BY <1>0, <1>4, <1>5, <1>6, <1>7, <1>8, Marks

\* Initially no slot is in use.
LEMMA SlotsInit == Init => Window!Init
<1> SUFFICES ASSUME Init PROVE Window!Init
  OBVIOUS
<1>1. InState(PIECE_REQUESTING) = {}
  BY DEF Init, InState, PIECE_REQUESTING, PIECE_COMPLETED, PIECE_HAVNT
<1>2. Cardinality(InState(PIECE_REQUESTING)) + One(rpc = "ask") = 0
  BY <1>1, FS_EmptySet DEF Init, One
<1> QED
  BY <1>2 DEF Init, LockInit, Window!Init, Window!LockInit

\* The download uses the window of LOCK_PIECE and UNLOCK_PIECE as PieceWindow assumes,
\* with no release that gives back what nobody holds.
THEOREM UsesWindowCorrect == Spec => UsesWindow
<1>1. Reached /\ [Next]_vars
        => [BeforeEndGame /\ amiss = {} => [Window!Next]_(Window!vars)]_vars
  BY SlotsStep
<1> QED
  BY <1>1, SlotsInit, NormalCorrect, PTL DEF Spec, UsesWindow

\* What PieceWindow promises of its counter, its bound and its sleeper, of the
\* download before the end game.
WindowKept == BeforeEndGame /\ amiss = {} =>
  Window!CounterExact /\ Window!WindowBound /\ Window!SleepsOnlyWhenFull

\* A step of the window keeps its promises.
LEMMA WindowStep ==
  ASSUME TypeOK, TypeOK', Slots \in Nat, Slots' \in Nat,
         [Window!Next]_(Window!vars),
         Window!CounterExact, Window!WindowBound, Window!SleepsOnlyWhenFull
  PROVE  (Window!CounterExact /\ Window!WindowBound /\ Window!SleepsOnlyWhenFull)'
<1> USE WindowCapAssumption
    DEF Window!CounterExact, Window!WindowBound, Window!SleepsOnlyWhenFull, Window!Pending
<1> DEFINE s == Cardinality(InState(PIECE_REQUESTING)) + One(rpc = "ask")
<1>1. /\ s \in Nat /\ s' \in Nat
      /\ pieces_requesting \in Int /\ pieces_requesting' \in Int
      /\ pieces_state_mutex \in {"free", "taken"} /\ pieces_state_mutex' \in {"free", "taken"}
  BY DEF Slots, TypeOK
<1>2. CASE Window!Pass
  <2>1. s' = s + 1
    BY <1>2 DEF Window!Pass
  <2> HIDE DEF s
  <2> QED
    BY <1>1, <1>2, <2>1 DEF s, Window!Pass, Window!LockReturns
<1>3. CASE Window!FallAsleep
  BY <1>1, <1>3 DEF Window!FallAsleep, Window!LockBlocks
<1>4. CASE Window!WakeUp
  BY <1>1, <1>4 DEF Window!WakeUp, Window!LockGranted
<1>5. CASE Window!Release
  BY <1>1, <1>5 DEF Window!Release, Window!UnlockPiece
<1>6. CASE UNCHANGED Window!vars
  BY <1>1, <1>6 DEF Window!vars
<1> QED
  BY <1>2, <1>3, <1>4, <1>5, <1>6 DEF Window!Next, Window!ReleaseAgain

\* So before the end game at most WindowCap pieces are requested at a time, the
\* counter of the macros is the number of slots in use, and the requester never sleeps
\* in LOCK_PIECE while the window has room.
THEOREM WindowKeptCorrect == Spec => []WindowKept
<1>1. Init => WindowKept
  <2> SUFFICES ASSUME Init PROVE WindowKept
    OBVIOUS
  <2>1. InState(PIECE_REQUESTING) = {}
    BY DEF Init, InState, PIECE_REQUESTING, PIECE_COMPLETED, PIECE_HAVNT
  <2>2. Cardinality(InState(PIECE_REQUESTING)) + One(rpc = "ask") = 0
    BY <2>1, FS_EmptySet DEF Init, One
  <2> QED
    BY <2>2, WindowCapAssumption
       DEF Init, LockInit, WindowKept, Window!CounterExact, Window!WindowBound,
           Window!SleepsOnlyWhenFull, Window!Pending
<1>2. Reached /\ Slots \in Nat /\ (Slots \in Nat)' /\ WindowKept /\ [Next]_vars => WindowKept'
  <2> SUFFICES ASSUME Reached, Slots \in Nat, (Slots \in Nat)', WindowKept, [Next]_vars,
                      BeforeEndGame', amiss' = {}
               PROVE  (Window!CounterExact /\ Window!WindowBound /\ Window!SleepsOnlyWhenFull)'
    BY DEF WindowKept
  <2>1. BeforeEndGame /\ amiss = {} /\ TypeOK /\ TypeOK'
    BY NeverBack, TypeStep DEF Reached
  <2>2. [Window!Next]_(Window!vars)
    <3>1. CASE UNCHANGED vars
      BY <3>1 DEF vars, lockVars, sharedVars, requesterVars, Window!vars, InState
    <3> QED
      BY <2>1, <3>1, SlotsStep
  <2> QED
    BY <2>1, <2>2, WindowStep DEF WindowKept
<1>3. Slots \in Nat
  BY SlotsType
<1> QED
  BY <1>1, <1>2, <1>3, NormalCorrect, PTL DEF Spec
-----------------------------------------------------------------------------
(***************************************************************************)
(* What an earlier session may leave.  The blocks of a piece arrive in     *)
(* their order, so its last block is the last to come, and the piece is    *)
(* not whole before.  If that holds of the file the client starts with, no *)
(* piece is found complete while blocks of it are to come.                 *)
(***************************************************************************)

\* Sub-piece r of the piece of block k on wire c is here, or comes before it.
HereBefore(c, k, r) ==
  \/ <<wire[c][k][1], r>> \in disk
  \/ \E m \in 1 .. k - 1 : wire[c][m] = <<wire[c][k][1], r>>

NoneIsSkipped == \A c \in Conns : \A k \in DOMAIN wire[c] :
  \A r \in 1 .. wire[c][k][2] - 1 : HereBefore(c, k, r)

\* While blocks of a piece are on their way its last one is not here ...
LastToCome == \A c \in Conns, i \in Pieces : OnWire(c, i) => <<i, SubPieces>> \notin disk

\* ... and when it is, the piece is whole ...
LastIsLast == \A i \in Pieces : <<i, SubPieces>> \in disk => Whole(i)

\* ... which the receiver that got it finds out at once.
WholeIsSeen == \A i \in Pieces :
  Whole(i) => pieces_state_arr[i] = PIECE_COMPLETED \/ \E c \in Conns : Checks(c, i)

\* The last block of every piece is the last.
Order == NoneIsSkipped /\ LastToCome /\ LastIsLast /\ WholeIsSeen

\* Nothing went amiss, in all phases, and before the end game because of the order.
Seemly == NotMisled => amiss = {} /\ (BeforeEndGame => Order)

\* The invariant of a client that was not misled and is in the first phase.
Settling == Reached /\ Owners /\ InOrder /\ Order /\ BeforeEndGame /\ amiss = {}

\* A step that leaves wires and file alone keeps the order of blocks.
LEMMA SameOrder ==
  ASSUME Order, UNCHANGED <<wire, disk>>, WholeIsSeen'
  PROVE  Order'
<1>1. LastToCome' /\ LastIsLast'
  BY DEF Order, LastToCome, LastIsLast, Whole, WholeIn, OnWire
<1>2. \A c \in Conns : \A k, r : HereBefore(c, k, r)' <=> HereBefore(c, k, r)
  BY DEF HereBefore
<1>3. NoneIsSkipped'
  BY <1>2 DEF Order, NoneIsSkipped
<1> QED
  BY <1>1, <1>3 DEF Order

\* No block is skipped by what is asked for.
LEMMA AskSkipsNone ==
  ASSUME TypeOK, NoneIsSkipped, UNCHANGED disk,
         NEW c \in Conns, NEW i \in Pieces, RequestPiece(c, i)
  PROVE  NoneIsSkipped'
<1> DEFINE n == Len(wire[c])
<1>1. CASE wire' = wire
  <2>1. \A d \in Conns : \A k, r : HereBefore(d, k, r)' <=> HereBefore(d, k, r)
    BY <1>1 DEF HereBefore
  <2> QED
    BY <1>1, <2>1 DEF NoneIsSkipped
<1>2. CASE wire' # wire
  <2>1. /\ \A d \in Conns : d # c => wire'[d] = wire[d]
        /\ n \in Nat /\ DOMAIN wire[c] = 1 .. n /\ DOMAIN wire'[c] = 1 .. n + SubPieces
        /\ \A k \in 1 .. n : wire'[c][k] = wire[c][k]
        /\ \A k \in n + 1 .. n + SubPieces : wire'[c][k] = <<i, k - n>>
    BY <1>2, AskedWire
  <2> HIDE DEF n
  <2> SUFFICES ASSUME NEW d \in Conns, NEW k \in DOMAIN wire'[d],
                      NEW r \in 1 .. wire'[d][k][2] - 1
               PROVE  HereBefore(d, k, r)'
    BY DEF NoneIsSkipped
  <2>2. CASE d # c
    <3>1. HereBefore(d, k, r) /\ wire'[d] = wire[d]
      BY <2>1, <2>2 DEF NoneIsSkipped
    <3> QED
      BY <3>1 DEF HereBefore
  <2>3. CASE d = c /\ k <= n
    <3>1. k \in 1 .. n /\ wire'[c][k] = wire[c][k]
      BY <2>1, <2>3, DownloadAssumption
    <3>2. HereBefore(c, k, r)
      BY <2>1, <2>3, <3>1 DEF NoneIsSkipped
    <3>3. \A m \in 1 .. k - 1 : m \in 1 .. n /\ wire'[c][m] = wire[c][m]
      BY <2>1, <3>1
    <3> QED
      BY <2>3, <3>1, <3>2, <3>3 DEF HereBefore
  <2>4. CASE d = c /\ ~(k <= n)
    <3>1. k \in n + 1 .. n + SubPieces /\ wire'[c][k] = <<i, k - n>>
      BY <2>1, <2>4, DownloadAssumption
    <3>2. r \in 1 .. (k - n) - 1
      BY <2>4, <3>1
    <3>3. n + r \in n + 1 .. n + SubPieces /\ n + r \in 1 .. k - 1 /\ (n + r) - n = r
      <4>1. n \in Nat /\ SubPieces \in Nat /\ k \in n + 1 .. n + SubPieces
        BY <2>1, <3>1, DownloadAssumption
      <4> QED
        BY <3>2, <4>1
    <3>4. wire'[c][n + r] = <<i, r>>
      BY <2>1, <3>3
    <3> QED
      BY <2>4, <3>1, <3>3, <3>4 DEF HereBefore
  <2> QED
    BY <2>2, <2>3, <2>4
<1> QED
  BY <1>1, <1>2

\* The requester asks for a piece of which nothing is on its way and the last block is
\* not here.
LEMMA RequesterOrder ==
  ASSUME Settling, Requester
  PROVE  Order'
<1> USE DEF vars, lockVars, sharedVars, peerVars, wireVars, requesterVars, receiverVars
<1>0. TypeOK /\ Phases /\ WantedIsFree /\ Chosen
      /\ NoneIsSkipped /\ LastToCome /\ LastIsLast /\ WholeIsSeen
  BY DEF Settling, Reached, Course, Owners, Order
<1>1. CASE AskPeer
  <2> DEFINE c == rPeer  i == rIndex
  <2>1. c \in Conns /\ i \in Pieces /\ pieces_state_arr[i] = PIECE_HAVNT
    BY <1>0, <1>1 DEF TypeOK, AskPeer, Chosen
  <2>2. /\ pieces_state_arr' = [pieces_state_arr EXCEPT ![i] = PIECE_REQUESTING]
        /\ RequestPiece(c, i)
        /\ UNCHANGED <<disk, hpc, cursor>>
    BY <1>1 DEF AskPeer, RequestPiece
  <2>3. \A d \in Conns : ~Checks(d, i)
    BY <1>0, <2>1 DEF WantedIsFree, Involved
  <2>4. <<i, SubPieces>> \notin disk /\ ~Whole(i)
    <3>1. ~Whole(i)
      BY <1>0, <2>1, <2>3 DEF WholeIsSeen, PIECE_HAVNT, PIECE_COMPLETED
    <3> QED
      BY <1>0, <2>1, <3>1 DEF LastIsLast
  <2>5. LastIsLast'
    BY <1>0, <2>2 DEF LastIsLast, Whole, WholeIn
  <2>6. WholeIsSeen'
    <3> SUFFICES ASSUME NEW j \in Pieces, Whole(j)
                 PROVE  pieces_state_arr'[j] = PIECE_COMPLETED \/ \E d \in Conns : Checks(d, j)'
      BY <2>2 DEF WholeIsSeen, Whole, WholeIn
    <3>1. j # i
      BY <2>4
    <3>2. pieces_state_arr'[j] = pieces_state_arr[j]
      BY <1>0, <2>1, <2>2, <3>1 DEF TypeOK
    <3> QED
      BY <1>0, <2>2, <3>2 DEF WholeIsSeen, Checks
  <2>7. LastToCome'
    <3> SUFFICES ASSUME NEW d \in Conns, NEW j \in Pieces, OnWire(d, j)'
                 PROVE  <<j, SubPieces>> \notin disk
      BY <2>2 DEF LastToCome
    <3> QED
      BY <1>0, <2>1, <2>2, <2>4, RequestOnWire DEF LastToCome
  <2>8. NoneIsSkipped'
    BY <1>0, <2>1, <2>2, AskSkipsNone
  <2> QED
    BY <2>5, <2>6, <2>7, <2>8 DEF Order
<1>2. CASE ~AskPeer
  <2>1. UNCHANGED <<wire, disk, pieces_state_arr, hpc, cursor>>
    BY <1>0, <1>2 DEF Settling, Phases, BeforeEndGame, Requester, ChoosePiece, FindPeer, TakeSlot,
                BookRequest, LeaveLoop, StartEndGame, ChooseLast, WalkAsk, WalkMark, WalkNext,
                WalkFreedNode
  <2>2. WholeIsSeen'
    BY <1>0, <2>1 DEF WholeIsSeen, Whole, WholeIn, Checks
  <2> QED
    BY <2>1, <2>2, SameOrder DEF Settling
<1> QED
  BY <1>1, <1>2

\* A block that arrives leaves no gap: what was before it is here, and so is it, unless
\* it was torn and nothing comes after it.
LEMMA ArrivalSkips ==
  ASSUME TypeOK, NEW c \in Conns, NEW torn \in BOOLEAN, Arrives(c, torn), wire[c] # <<>>,
         NEW i \in Pieces, NEW s \in 1 .. SubPieces, Head(wire[c]) = <<i, s>>,
         WriteBlock(<<i, s>>, torn), NoneIsSkipped,
         \A d \in Conns : OnWire(d, i) => d = c
  PROVE  NoneIsSkipped' /\ \A r \in 1 .. s - 1 : <<i, r>> \in disk
<1> DEFINE w == wire[c]  n == Len(w)
<1>1. /\ \A d \in Conns : d # c => wire'[d] = wire[d]
      /\ n \in Nat \ {0} /\ DOMAIN w = 1 .. n /\ Head(w) = w[1]
      /\ \A k \in DOMAIN wire'[c] :
           /\ ~torn /\ k \in 1 .. n - 1 /\ k + 1 \in 1 .. n
           /\ \A m \in 1 .. k : m \in 1 .. n - 1 /\ wire'[c][m] = w[m + 1]
  BY ArrivedWire
<1>2. w[1] = <<i, s>> /\ 1 \in 1 .. n
  BY <1>1
<1>3. \A r \in 1 .. s - 1 : <<i, r>> \in disk
  <2> SUFFICES ASSUME NEW r \in 1 .. s - 1 PROVE <<i, r>> \in disk
    OBVIOUS
  <2>1. HereBefore(c, 1, r)
    BY <1>1, <1>2 DEF NoneIsSkipped
  <2> QED
    BY <1>2, <2>1 DEF HereBefore
<1>4. \A b : b \in disk /\ b[1] # i => b \in disk'
  BY DEF WriteBlock
<1>5. ~torn => disk' = disk \cup {<<i, s>>}
  BY DEF WriteBlock
<1> HIDE DEF n
<1>6. ASSUME NEW d \in Conns, NEW k \in DOMAIN wire'[d],
             NEW r \in 1 .. wire'[d][k][2] - 1
      PROVE  HereBefore(d, k, r)'
  <2>1. CASE d # c
    <3>1. HereBefore(d, k, r) /\ wire'[d] = wire[d]
      BY <1>1, <1>6, <2>1 DEF NoneIsSkipped
    <3>2. wire[d][k][1] # i
      BY <1>6, <2>1, <3>1 DEF OnWire
    <3>3. <<wire[d][k][1], r>> \in disk => <<wire[d][k][1], r>> \in disk'
      BY <1>4, <3>2
    <3> HIDE DEF w
    <3> QED
      BY <3>1, <3>3 DEF HereBefore
  <2>2. CASE d = c
    <3>1. /\ ~torn /\ k \in 1 .. n - 1 /\ k + 1 \in 1 .. n /\ wire'[c][k] = w[k + 1]
          /\ \A m \in 1 .. k : m \in 1 .. n - 1 /\ wire'[c][m] = w[m + 1]
      <4>1. k \in DOMAIN wire'[c]
        BY <1>6, <2>2
      <4>2. k \in 1 .. k
        BY <1>1, <4>1
      <4> QED
        BY <1>1, <4>1, <4>2
    <3>2. HereBefore(c, k + 1, r)
      BY <1>1, <1>6, <2>2, <3>1 DEF NoneIsSkipped
    <3>3. CASE <<w[k + 1][1], r>> \in disk
      BY <1>5, <2>2, <3>1, <3>3 DEF HereBefore
    <3>4. ASSUME NEW m \in 1 .. (k + 1) - 1, w[m] = <<w[k + 1][1], r>>
          PROVE  HereBefore(c, k, r)'
      <4>1. CASE m = 1
        BY <1>2, <1>5, <3>1, <3>4, <4>1 DEF HereBefore
      <4>2. CASE m # 1
        <5>1. m - 1 \in 1 .. k - 1 /\ m - 1 \in 1 .. k /\ (m - 1) + 1 = m
          <6>1. k \in Int /\ m \in Int /\ 1 <= m /\ m <= k
            <7>1. n \in Nat /\ k \in 1 .. n - 1
              BY <1>1, <3>1
            <7> HIDE DEF w
            <7> QED
              BY <7>1, <3>4
          <6> HIDE DEF w
          <6> QED
            BY <6>1, <4>2
        <5>2. wire'[c][m - 1] = w[m]
          BY <3>1, <5>1
        <5> QED
          BY <3>1, <3>4, <5>1, <5>2 DEF HereBefore
      <4> QED
        BY <4>1, <4>2
    <3> QED
      BY <2>2, <3>2, <3>3, <3>4 DEF HereBefore
  <2> QED
    BY <2>1, <2>2
<1> QED
  BY <1>3, <1>6 DEF NoneIsSkipped

\* A receiver writes blocks in the order of their piece, and checks a piece it has
\* written to before it takes the next block.
LEMMA ReceiverOrder ==
  ASSUME Settling, NEW c \in Conns, Receiver(c) \/ Environment(c)
  PROVE  Order'
<1> USE DownloadAssumption
    DEF vars, lockVars, sharedVars, peerVars, wireVars, requesterVars, receiverVars
<1>0. /\ TypeOK /\ Phases /\ OneOwner /\ OnItsWay /\ TurnedBack /\ HeardOnly /\ InOrder
      /\ NoneIsSkipped /\ LastToCome /\ LastIsLast /\ WholeIsSeen /\ Order
      /\ is_end_game = 0 /\ amiss = {}
  BY DEF Settling, Reached, Course, Owners, Order, BeforeEndGame
\* A step that leaves the file alone, and of one piece that is not whole, or is marked,
\* what it says.
<1>1. ASSUME UNCHANGED disk, NEW i,
             \A j \in Pieces : j # i => pieces_state_arr'[j] = pieces_state_arr[j],
             \A d \in Conns, j \in Pieces : j # i => (Checks(d, j) => Checks(d, j)'),
             i \in Pieces => ~Whole(i) \/ pieces_state_arr'[i] = PIECE_COMPLETED
      PROVE  WholeIsSeen'
  <2> SUFFICES ASSUME NEW j \in Pieces, Whole(j)
               PROVE  pieces_state_arr'[j] = PIECE_COMPLETED \/ \E d \in Conns : Checks(d, j)'
    BY <1>1 DEF WholeIsSeen, Whole, WholeIn
  <2>1. CASE j = i
    BY <1>1, <2>1
  <2>2. CASE j # i
    BY <1>0, <1>1, <2>2 DEF WholeIsSeen
  <2> QED
    BY <2>1, <2>2
<1>2. CASE \/ Connect(c) \/ HandleBitfield(c) \/ HearPiece(c) \/ CountPiece(c)
           \/ CloseBitfield(c) \/ ScanPiece(c) \/ UncountPiece(c) \/ RemoveNode(c)
  <2>1. UNCHANGED <<wire, disk, pieces_state_arr>>
    BY <1>2 DEF Connect, HandleBitfield, HearPiece, CountPiece, CloseBitfield, ScanPiece,
                UncountPiece, RemoveNode
  <2>2. \A d \in Conns : hpc[d] = "checking" => hpc'[d] = "checking" /\ cursor'[d] = cursor[d]
    <3>1. hpc[c] # "checking"
      BY <1>2 DEF Connect, HandleBitfield, HearPiece, CountPiece, CloseBitfield, ScanPiece,
                  UncountPiece, RemoveNode, Goto
    <3>2. \A d \in Conns : d # c => hpc'[d] = hpc[d]
      <4>1. \E to : hpc' = [hpc EXCEPT ![c] = to]
        BY <1>2 DEF Connect, HandleBitfield, HearPiece, CountPiece, CloseBitfield,
                    ScanPiece, UncountPiece, RemoveNode, Goto
      <4> QED
        BY <1>0, <4>1 DEF TypeOK
    <3>3. cursor' = cursor \/ \E k : cursor' = [cursor EXCEPT ![c] = k]
      BY <1>2 DEF Connect, HandleBitfield, HearPiece, CountPiece, CloseBitfield, ScanPiece,
                  UncountPiece, RemoveNode
    <3> QED
      BY <1>0, <3>1, <3>2, <3>3 DEF TypeOK
  <2>3. \A d \in Conns, j \in Pieces : Checks(d, j) => Checks(d, j)'
    BY <2>2 DEF Checks
  <2>4. WholeIsSeen'
    BY <1>0, <2>1, <2>3 DEF WholeIsSeen, Whole, WholeIn
  <2> QED
    BY <1>0, <2>1, <2>4, SameOrder
<1>3. CASE PieceComplete(c) \/ PieceIncomplete(c)
  <2>1. UNCHANGED <<wire, disk, cursor>>
        /\ hpc[c] = "checking" /\ cursor[c] \in Pieces
        /\ \A d \in Conns : d # c => hpc'[d] = hpc[d]
    BY <1>0, <1>3 DEF PieceComplete, PieceIncomplete, Goto, TypeOK
  <2>2. \A j \in Pieces : j # cursor[c] => pieces_state_arr'[j] = pieces_state_arr[j]
    BY <1>0, <1>3 DEF PieceComplete, PieceIncomplete, TypeOK
  <2>3. \A d \in Conns, j \in Pieces : j # cursor[c] => (Checks(d, j) => Checks(d, j)')
    BY <2>1 DEF Checks
  <2>4. ~Whole(cursor[c]) \/ pieces_state_arr'[cursor[c]] = PIECE_COMPLETED
    BY <1>0, <1>3, <2>1 DEF PieceComplete, PieceIncomplete, HashMatches, TypeOK
  <2>5. WholeIsSeen'
    BY <1>1, <2>1, <2>2, <2>3, <2>4
  <2> QED
    BY <1>0, <2>1, <2>5, SameOrder
<1>4. CASE TurnBack(c)
  <2> DEFINE i == cursor[c]
  <2>1. hpc[c] = "turning" /\ UNCHANGED <<wire, disk>>
    BY <1>4 DEF TurnBack, Goto
  <2>2. i \in Pieces /\ MayTurn(c, i) /\ pieces_state_arr[i] = PIECE_REQUESTING
    BY <1>0, <2>1, TurningInvolved
  <2>3. \A j \in Pieces : j # i => pieces_state_arr'[j] = pieces_state_arr[j]
    BY <1>0, <1>4 DEF TurnBack, TypeOK
  <2>4. \A d \in Conns, j \in Pieces : Checks(d, j) => Checks(d, j)'
    BY <1>0, <1>4 DEF TurnBack, Goto, Checks, TypeOK
  <2>5. ~Whole(i)
    <3>1. \A d \in Conns : Checks(d, i) => d = c
      BY <1>0, <2>2 DEF OneOwner, Involved
    <3>2. \A d \in Conns : ~Checks(d, i)
      BY <2>1, <3>1 DEF Checks
    <3> QED
      BY <1>0, <2>2, <3>2 DEF WholeIsSeen, PIECE_REQUESTING, PIECE_COMPLETED
  <2> HIDE DEF i
  <2>6. WholeIsSeen'
    BY <1>1, <2>1, <2>3, <2>4, <2>5
  <2> QED
    BY <1>0, <2>1, <2>6, SameOrder
<1>5. CASE Disconnect(c)
  <2>1. /\ UNCHANGED <<disk, pieces_state_arr>>
        /\ wire' = [wire EXCEPT ![c] = <<>>]
        /\ wire'[c] = <<>> /\ \A d \in Conns : d # c => wire'[d] = wire[d]
        /\ \A d \in Conns : hpc[d] = "checking" => hpc'[d] = "checking" /\ cursor'[d] = cursor[d]
    BY <1>0, <1>5 DEF Disconnect, TypeOK
  <2>2. \A d \in Conns, j \in Pieces : Checks(d, j) => Checks(d, j)'
    BY <2>1 DEF Checks
  <2>3. WholeIsSeen' /\ LastIsLast'
    BY <1>0, <2>1, <2>2 DEF WholeIsSeen, LastIsLast, Whole, WholeIn
  <2>4. LastToCome'
    BY <1>0, <2>1, EmptyOnWire DEF LastToCome
  <2>5. NoneIsSkipped'
    <3> SUFFICES ASSUME NEW d \in Conns, NEW k \in DOMAIN wire'[d],
                        NEW r \in 1 .. wire'[d][k][2] - 1
                 PROVE  HereBefore(d, k, r)'
      BY DEF NoneIsSkipped
    <3>1. d # c
      BY <2>1
    <3>2. HereBefore(d, k, r)
      BY <1>0, <2>1, <3>1 DEF NoneIsSkipped
    <3> QED
      BY <2>1, <3>1, <3>2 DEF HereBefore
  <2> QED
    BY <2>3, <2>4, <2>5 DEF Order
<1>6. ASSUME NEW torn \in BOOLEAN, HandlePiece(c, torn) PROVE Order'
  <2>0. wire[c] # <<>> /\ Arrives(c, torn) /\ Head(wire[c]) \in Blocks
    BY <1>0, <1>6, HeadTailProperties DEF HandlePiece, TypeOK
  <2> PICK i \in Pieces, s \in 1 .. SubPieces : Head(wire[c]) = <<i, s>>
    <3>1. Head(wire[c]) \in Pieces \X (1 .. SubPieces)
      BY <2>0 DEF Blocks
    <3> QED
      BY <3>1
  <2>1. wire[c] # <<>> /\ Arrives(c, torn) /\ WriteBlock(<<i, s>>, torn)
        /\ pieces_state_arr' = pieces_state_arr
    <3>1. WriteBlock(Head(wire[c]), torn) /\ pieces_state_arr' = pieces_state_arr
      BY <1>0, <1>6 DEF HandlePiece
    <3> QED
      BY <2>0, <3>1
  <2>2. s = SubPieces => ~OnWire(c, i)'
    BY <1>0, <2>1, ArrivalInOrder
  <2>3. OnWire(c, i) /\ \A d \in Conns, j \in Pieces : OnWire(d, j)' => OnWire(d, j)
    BY <1>0, <2>1, ArrivalOnWire
  <2>4. /\ pieces_state_arr[i] = PIECE_REQUESTING /\ <<i, SubPieces>> \notin disk
        /\ \A d \in Conns : OnWire(d, i) \/ Checks(d, i) => d = c
    BY <1>0, <2>3 DEF OnItsWay, LastToCome, OneOwner, Involved
  <2>5. NoneIsSkipped' /\ \A r \in 1 .. s - 1 : <<i, r>> \in disk
    BY <1>0, <2>1, <2>4, ArrivalSkips
  <2>6. /\ hpc[c] = "serving" /\ Checks(c, i)'
        /\ \A d \in Conns, j \in Pieces : Checks(d, j) => Checks(d, j)'
    <3>1. /\ hpc[c] = "serving" /\ hpc' = [hpc EXCEPT ![c] = "checking"]
          /\ cursor' = [cursor EXCEPT ![c] = Head(wire[c])[1]]
      BY <1>0, <1>6 DEF HandlePiece, Goto
    <3>2. hpc'[c] = "checking" /\ cursor'[c] = i
      BY <1>0, <2>1, <3>1 DEF TypeOK
    <3>3. \A d \in Conns : d # c => hpc'[d] = hpc[d] /\ cursor'[d] = cursor[d]
      BY <1>0, <3>1 DEF TypeOK
    <3> QED
      BY <3>1, <3>2, <3>3 DEF Checks
  <2>7. disk' = IF torn THEN disk \ {<<i, s>>} ELSE disk \cup {<<i, s>>}
    BY <2>1 DEF WriteBlock
  <2>8. \A j \in Pieces, r \in 1 .. SubPieces : j # i => (<<j, r>> \in disk' <=> <<j, r>> \in disk)
    BY <2>7
  <2>9. \A j \in Pieces : j # i => (Whole(j)' <=> Whole(j))
    BY <2>8 DEF Whole, WholeIn
  <2>10. SubPieces \in 1 .. SubPieces
    OBVIOUS
  <2>11. LastToCome'
    <3> SUFFICES ASSUME NEW d \in Conns, NEW j \in Pieces, OnWire(d, j)', <<j, SubPieces>> \in disk'
                 PROVE  FALSE
      BY DEF LastToCome
    <3>1. OnWire(d, j) /\ <<j, SubPieces>> \notin disk
      BY <1>0, <2>3 DEF LastToCome
    <3>2. j = i /\ s = SubPieces
      BY <2>7, <3>1
    <3> QED
      BY <2>2, <2>4, <3>1, <3>2
  <2>12. LastIsLast'
    <3> SUFFICES ASSUME NEW j \in Pieces, <<j, SubPieces>> \in disk' PROVE Whole(j)'
      BY DEF LastIsLast
    <3>1. CASE j # i
      BY <1>0, <2>8, <2>9, <2>10, <3>1 DEF LastIsLast
    <3>2. CASE j = i
      <4>1. ~torn /\ s = SubPieces
        BY <2>4, <2>7, <3>2
      <4>2. \A r \in 1 .. SubPieces : <<i, r>> \in disk'
        <5>1. \A r \in 1 .. SubPieces : r = SubPieces \/ r \in 1 .. SubPieces - 1
          OBVIOUS
        <5> QED
          BY <2>5, <2>7, <4>1, <5>1
      <4> QED
        BY <3>2, <4>2 DEF Whole, WholeIn
    <3> QED
      BY <3>1, <3>2
  <2>13. WholeIsSeen'
    <3> SUFFICES ASSUME NEW j \in Pieces, Whole(j)'
                 PROVE  pieces_state_arr'[j] = PIECE_COMPLETED \/ \E d \in Conns : Checks(d, j)'
      BY DEF WholeIsSeen
    <3>1. CASE j = i
      BY <2>6, <3>1
    <3>2. CASE j # i
      BY <1>0, <2>1, <2>6, <2>9, <3>2 DEF WholeIsSeen
    <3> QED
      BY <3>1, <3>2
  <2> QED
    BY <2>5, <2>11, <2>12, <2>13 DEF Order
<1>7. ~ClaimPiece(c)
  BY <1>0 DEF ClaimPiece, Goto, Phases
<1> QED
  BY <1>2, <1>3, <1>4, <1>5, <1>6, <1>7 DEF Receiver, Environment

\* The order holds at the start if it holds of the file.
LEMMA SeemlyInit == Init /\ LastIsLast => Seemly
<1> SUFFICES ASSUME Init, LastIsLast PROVE amiss = {} /\ Order
  BY DEF Seemly
<1>1. NoneIsSkipped /\ LastToCome
  BY DEF Init, NoneIsSkipped, LastToCome, OnWire
<1>2. WholeIsSeen
  BY DEF Init, WholeIsSeen
<1> QED
  BY <1>1, <1>2 DEF Init, Order

\* Every step keeps it: a piece on its way is not whole.
LEMMA SeemlyStep ==
  ASSUME Reached, Seemly, [Next]_vars
  PROVE  Seemly'
<1> SUFFICES ASSUME NotMisled' PROVE amiss' = {} /\ (BeforeEndGame' => Order')
  BY DEF Seemly
<1>1. NotMisled /\ (BeforeEndGame' => BeforeEndGame)
  BY NeverBack DEF Reached, NotMisled
<1>2. amiss = {} /\ (BeforeEndGame => Settling)
  BY <1>1 DEF Seemly, Reached, Normal, Settling
<1>3. CASE UNCHANGED vars
  <2>1. UNCHANGED <<wire, disk, pieces_state_arr, hpc, cursor, is_end_game, amiss>>
    BY <1>3 DEF vars, lockVars, sharedVars, peerVars, wireVars, requesterVars, receiverVars
  <2>2. WholeIsSeen => WholeIsSeen'
    BY <2>1 DEF WholeIsSeen, Whole, WholeIn, Checks
  <2>3. BeforeEndGame => Order'
    BY <1>2, <2>1, <2>2, SameOrder DEF Settling, Order
  <2> QED
    BY <1>1, <1>2, <2>1, <2>3
<1>4. CASE Requester
  <2>1. amiss' = amiss \/ amiss' = amiss \cup {"misread"}
    BY <1>4 DEF Requester, ChoosePiece, FindPeer, TakeSlot, AskPeer, BookRequest, LeaveLoop,
                StartEndGame, ChooseLast, WalkAsk, WalkMark, WalkNext, WalkFreedNode, Note
  <2>2. amiss' = {}
    BY <1>2, <2>1 DEF NotMisled
  <2> QED
    BY <1>1, <1>2, <1>4, <2>2, RequesterOrder
<1>5. ASSUME NEW c \in Conns, Receiver(c) \/ Environment(c)
      PROVE  amiss' = {} /\ (BeforeEndGame' => Order')
  <2>1. CASE PieceComplete(c)
    <3>1. CASE is_end_game = 0 /\ \E d \in Conns : OnWire(d, cursor[c])
      <4>1. LastToCome /\ Whole(cursor[c]) /\ cursor[c] \in Pieces
        BY <1>2, <2>1, <3>1 DEF Settling, Order, BeforeEndGame, PieceComplete, HashMatches, Goto,
                                Reached, TypeOK
      <4>2. <<cursor[c], SubPieces>> \notin disk
        BY <3>1, <4>1 DEF LastToCome
      <4>3. SubPieces \in 1 .. SubPieces
        BY DownloadAssumption
      <4> QED
        BY <4>1, <4>2, <4>3 DEF Whole, WholeIn
    <3>2. CASE ~(is_end_game = 0 /\ \E d \in Conns : OnWire(d, cursor[c]))
      <4>1. Note("early", \E d \in Conns : OnWire(d, cursor[c]))
        BY <2>1 DEF PieceComplete
      <4>2. amiss' = amiss
        BY <3>2, <4>1 DEF Note
      <4> QED
        BY <1>1, <1>2, <1>5, <4>2, ReceiverOrder
    <3> QED
      BY <3>1, <3>2
  <2>2. CASE ~PieceComplete(c)
    <3>1. amiss' = amiss \/ amiss' = amiss \cup {"misread"}
      BY <1>5, <2>2 DEF Receiver, Environment, Connect, HandleBitfield, HearPiece, CountPiece,
              CloseBitfield, HandlePiece, ClaimPiece, PieceIncomplete, Disconnect, ScanPiece,
              UncountPiece, TurnBack, RemoveNode, Note,
              vars, lockVars, sharedVars, peerVars, wireVars, requesterVars, receiverVars
    <3>2. amiss' = {}
      BY <1>2, <3>1 DEF NotMisled
    <3> QED
      BY <1>1, <1>2, <1>5, <3>2, ReceiverOrder
  <2> QED
    BY <2>1, <2>2
<1> QED
  BY <1>3, <1>4, <1>5 DEF Next

\* Nothing goes amiss but by leftover memory, if of no piece that is not whole the last
\* block is right in the file that the client starts with: no piece is then found
\* complete early, whoever leaves and whatever is cut short.
THEOREM NeverEarlyCorrect == Spec /\ LastIsLast => [](NotMisled => amiss = {})
<1>1. Init /\ LastIsLast => Seemly
  BY SeemlyInit
<1>2. Reached /\ Seemly /\ [Next]_vars => Seemly'
  BY SeemlyStep
<1>3. Seemly => (NotMisled => amiss = {})
  BY DEF Seemly
<1> QED
  BY <1>1, <1>2, <1>3, NormalCorrect, PTL DEF Spec
=============================================================================
