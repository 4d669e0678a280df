------------------------------ MODULE Download ------------------------------
(***************************************************************************)
(* How the client downloads a file: the requester thread (request_file)    *)
(* chooses pieces and peers and sends requests, one receiver thread per    *)
(* connection (message_handler) records what its peer has, writes the      *)
(* blocks that arrive and cleans up when the peer leaves.  They share the  *)
(* piece states, the availability counts, the peer pool and the piece      *)
(* window, and lock only some of it: FILE protects the file and the        *)
(* handlers, PEER the pool; the piece states are written under either lock *)
(* or under none.                                                          *)
(*                                                                         *)
(* A step is what a thread does between two points where another thread    *)
(* can change something it depends on.  The remote peers are external:     *)
(* each has a fixed set of pieces, announces it once, answers the requests *)
(* it received in order, and may disconnect.                               *)
(***************************************************************************)
EXTENDS PieceLock, Sequences, FiniteSets

CONSTANTS
  NumPieces,     \* num_pieces of the torrent
  SubPieces,     \* requests a piece is split into: sub_pieces_num
  MinRest,       \* min_rest_num
  Conns,         \* the descriptors connfd of the connections made
  Holds,         \* Holds[c]: the pieces the peer on connection c announces
  Leavers,       \* the connections that may be lost
  TornBlocks,    \* whether a lost connection may end inside a block: Recv then
                 \* reports the short block as received
  Leftover,      \* the arrays malloc may return for a peer_pieces_state
  InitialBlocks  \* what of the file may be on disk when the client starts

Pieces == 0 .. NumPieces - 1
Blocks == Pieces \X (1 .. SubPieces)

ASSUME DownloadAssumption ==
  /\ NumPieces \in Nat \ {0}
  /\ SubPieces \in Nat \ {0}
  /\ MinRest \in Nat
  /\ Conns \subseteq Nat /\ IsFiniteSet(Conns)
  /\ Holds \in [Conns -> SUBSET Pieces]
  /\ Leavers \subseteq Conns
  /\ TornBlocks \in BOOLEAN
  /\ Leftover \subseteq [Pieces -> Int]
  /\ InitialBlocks \subseteq SUBSET Blocks

\* mytorrent.h
PIECE_REQUESTING     == 0
PIECE_COMPLETED      == 1
PIECE_HAVNT          == 2
PIECE_END_GAME_GETED == 3   \* plus the descriptor of the peer that was first

PEER_HAVNT        == 0
PEER_HAVE         == 1
PEER_BE_REQUESTED == 2

NULL == -1

VARIABLES
  \* globalInfo and the statics of peer_wire.c
  pieces_state_arr, pieces_num_in_peers, rest_pieces_num,
  have_pieces_num, is_end_game, isseed,
  disk,          \* the blocks of the file whose bytes are right
  \* the pool: connections, newest first, and their peer_t
  pool, peer_pieces_state, downloaded_from,
  \* the connections: requests sent on each and not yet answered; those at EOF
  wire, cut,
  \* the requester: where it is, its index and p
  rpc, rIndex, rPeer,
  \* the receivers: where each is, the piece it is at, and what it has loaded of
  \* pieces_num_in_peers to change it
  hpc, cursor, loaded,
  \* recorded for the properties, read by no action: what went amiss before the
  \* end game
  amiss

sharedVars == <<pieces_state_arr, pieces_num_in_peers, rest_pieces_num,
                have_pieces_num, is_end_game, isseed, disk>>
peerVars == <<pool, peer_pieces_state, downloaded_from>>
wireVars == <<wire, cut>>
requesterVars == <<rpc, rIndex, rPeer>>
receiverVars == <<hpc, cursor, loaded>>
vars == <<lockVars, sharedVars, peerVars, wireVars, requesterVars, receiverVars, amiss>>
-----------------------------------------------------------------------------
\* gen_bitfield: a piece's hash matches when all its bytes are right.
WholeIn(i, blocks) == {i} \X (1 .. SubPieces) \subseteq blocks
Whole(i) == WholeIn(i, disk)

Missing(blocks) == {i \in Pieces : ~WholeIn(i, blocks)}

\* No receiver is in the part of a handler that holds the FILE lock ...
FileFree == \A c \in Conns : hpc[c] \notin {"reading", "counting", "claiming", "checking"}

\* ... or in the disconnect path that holds the PEER lock.
Leaving == {"scanning", "uncounting", "turning"}
PeerFree == \A c \in Conns : hpc[c] \notin Leaving

\* A request sent on c reaches its peer.
Alive(c) == hpc[c] \notin Leaving \cup {"absent", "gone"} /\ c \notin cut

\* A block of piece i is on its way from c.
OnWire(c, i) == \E k \in DOMAIN wire[c] : wire[c][k][1] = i

\* What the peer on c announced of piece i is recorded.
Heard(c, i) == /\ i \in Holds[c]
               /\ hpc[c] \notin {"absent", "new"}
               /\ hpc[c] = "reading" => i < cursor[c]
               /\ hpc[c] = "counting" => i <= cursor[c]

\* Something that goes amiss before the end game is recorded.
Note(fact, seen) == amiss' = IF is_end_game = 0 /\ seen THEN amiss \cup {fact} ELSE amiss

\* peerpool_remove_node has freed the pool node of c.
Freed(c) == hpc[c] = "gone"

\* The state arrays after init_pieces_state_arr and init_pieces_num_in_peers,
\* and have_pieces_num as request_file sets it when it starts.
Init ==
  /\ disk \in InitialBlocks
  /\ pieces_state_arr = [i \in Pieces |-> IF Whole(i) THEN PIECE_COMPLETED
                                                      ELSE PIECE_HAVNT]
  /\ rest_pieces_num = Cardinality(Missing(disk))
  /\ have_pieces_num = NumPieces - rest_pieces_num
  /\ pieces_num_in_peers = [i \in Pieces |-> 0]
  /\ is_end_game = 0
  /\ isseed = 0
  /\ pool = <<>>
  /\ peer_pieces_state = [c \in Conns |-> [i \in Pieces |-> PEER_HAVNT]]
  /\ downloaded_from = [c \in Conns |-> 0]
  /\ wire = [c \in Conns |-> <<>>]
  /\ cut = {}
  /\ LockInit
  /\ rpc = "choose" /\ rIndex = 0 /\ rPeer = NULL
  /\ hpc = [c \in Conns |-> "absent"]
  /\ cursor = [c \in Conns |-> 0]
  /\ loaded = [c \in Conns |-> 0]
  /\ amiss = {}
-----------------------------------------------------------------------------
(***************************************************************************)
(* The requester thread.                                                   *)
(***************************************************************************)

\* Slip: a piece that is on its way is chosen again.
WantedTwice == {i \in Pieces : /\ pieces_state_arr[i] # PIECE_COMPLETED
                               /\ pieces_num_in_peers[i] > 0}

\* which_piece_to_request: the first of the rarest pieces that are neither
\* here nor requested and that some peer has.
Wanted == {i \in Pieces : /\ pieces_state_arr[i] = PIECE_HAVNT
                          /\ pieces_num_in_peers[i] > 0}

Rarer(i, j) == \/ pieces_num_in_peers[i] < pieces_num_in_peers[j]
               \/ /\ pieces_num_in_peers[i] = pieces_num_in_peers[j]
                  /\ i <= j

IsRarest(i) == i \in Wanted /\ \A j \in Wanted : Rarer(i, j)

\* find_peer_have_piece: the first of the peers with the piece from which the
\* fewest pieces were requested.
Having(i) == {k \in DOMAIN pool : peer_pieces_state[pool[k]][i] > PEER_HAVNT}

LessAsked(k, m) ==
  \/ downloaded_from[pool[k]] < downloaded_from[pool[m]]
  \/ /\ downloaded_from[pool[k]] = downloaded_from[pool[m]]
     /\ k <= m

IsLeastAsked(k, i) == k \in Having(i) /\ \A m \in Having(i) : LessAsked(k, m)

\* request_a_piece: the piece is marked, and a request for each of its
\* sub-pieces is sent if the connection is up; a failed send is ignored.
RequestPiece(c, i) ==
  /\ pieces_state_arr' = [pieces_state_arr EXCEPT ![i] = PIECE_REQUESTING]
  /\ wire' = IF Alive(c)
             THEN [wire EXCEPT ![c] = @ \o [s \in 1 .. SubPieces |-> <<i, s>>]]
             ELSE wire

Requesting == isseed = 0 /\ rest_pieces_num > MinRest

\* request_file, the loop before the end game: a piece is chosen.
ChoosePiece ==
  /\ rpc = "choose" /\ Requesting
  /\ \E i \in Pieces : IsRarest(i) /\ rIndex' = i
  /\ rpc' = "find"
  /\ UNCHANGED <<lockVars, sharedVars, peerVars, wireVars, rPeer, receiverVars, amiss>>

\* find_peer_have_piece, under the PEER lock, finds a peer that announced the piece
\* or that what malloc returned makes look so, or returns NULL.
FindPeer ==
  /\ rpc = "find" /\ PeerFree
  /\ \/ \E k \in DOMAIN pool : /\ IsLeastAsked(k, rIndex)
                               /\ rPeer' = pool[k]
                               /\ rpc' = "lock"
                               /\ Note("misread", ~Heard(pool[k], rIndex))
     \/ Having(rIndex) = {} /\ rPeer' = NULL /\ rpc' = "choose" /\ UNCHANGED amiss
  /\ UNCHANGED <<lockVars, sharedVars, peerVars, wireVars, rIndex, receiverVars>>

\* Where the requester goes when LOCK_PIECE has returned: in the end game the
\* walk over the pool starts at its head.
AfterLock ==
  IF is_end_game = 0
  THEN rpc' = "ask" /\ UNCHANGED rPeer
  ELSE IF pool = <<>>
       THEN rpc' = "choose" /\ rPeer' = NULL
       ELSE rpc' = "walk" /\ rPeer' = Head(pool)

\* LOCK_PIECE returns at once, blocks, or returns after having blocked.
TakeSlot ==
  /\ \/ rpc = "lock" /\ LockReturns /\ AfterLock
     \/ rpc = "lock" /\ LockBlocks /\ rpc' = "asleep" /\ UNCHANGED rPeer
     \/ rpc = "asleep" /\ LockGranted /\ AfterLock
  /\ UNCHANGED <<sharedVars, peerVars, wireVars, rIndex, receiverVars, amiss>>

\* request_a_piece for the chosen piece and peer.
AskPeer ==
  /\ rpc = "ask"
  /\ RequestPiece(rPeer, rIndex)
  /\ rpc' = "book"
  /\ UNCHANGED <<lockVars, pieces_num_in_peers, rest_pieces_num, have_pieces_num,
                 is_end_game, isseed, disk, peerVars, cut, rIndex, rPeer,
                 receiverVars, amiss>>

\* Slip: the request is not counted off.
BookedFree == UNCHANGED rest_pieces_num

\* What is booked of a request: one piece less to be requested.
Booked == rest_pieces_num' = rest_pieces_num - 1

\* The assignments after it.  The peer may have left meanwhile: its peer_t is
\* never freed, so they are harmless, and useless.
BookRequest ==
  /\ rpc = "book"
  /\ peer_pieces_state' = [peer_pieces_state EXCEPT ![rPeer][rIndex] = PEER_BE_REQUESTED]
  /\ downloaded_from' = [downloaded_from EXCEPT ![rPeer] = @ + 1]
  /\ Booked
  /\ rpc' = "choose"
  /\ UNCHANGED <<lockVars, pieces_state_arr, pieces_num_in_peers, have_pieces_num,
                 is_end_game, isseed, disk, pool, wireVars, rIndex, rPeer,
                 receiverVars, amiss>>

\* The loop ends: all was requested, or request_file waits for the end game.
LeaveLoop ==
  /\ rpc = "choose" /\ is_end_game = 0 /\ ~Requesting
  /\ rpc' = IF rest_pieces_num <= 0 THEN "done" ELSE "spin"
  /\ UNCHANGED <<lockVars, sharedVars, peerVars, wireVars, rIndex, rPeer, receiverVars, amiss>>

EndGameDue == NumPieces - have_pieces_num <= MinRest

\* The busy wait ends when at most min_rest_num pieces are missing.
StartEndGame ==
  /\ rpc = "spin"
  /\ EndGameDue
  /\ is_end_game' = 1
  /\ rpc' = "choose"
  /\ UNCHANGED <<lockVars, pieces_state_arr, pieces_num_in_peers, rest_pieces_num,
                 have_pieces_num, isseed, disk, peerVars, wireVars, rIndex, rPeer,
                 receiverVars, amiss>>

\* request_file, the end game loop: a piece is chosen, or the file is complete.
ChooseLast ==
  /\ rpc = "choose" /\ is_end_game = 1
  /\ \/ isseed = 0 /\ rpc' = "lock" /\ \E i \in Pieces : IsRarest(i) /\ rIndex' = i
     \/ isseed = 1 /\ rpc' = "done" /\ UNCHANGED rIndex
  /\ UNCHANGED <<lockVars, sharedVars, peerVars, wireVars, rPeer, receiverVars, amiss>>

\* The walk over the pool, which holds no lock: a peer that has the piece and
\* was not asked for it is asked.
WalkAsk ==
  /\ rpc = "walk" /\ ~Freed(rPeer)
  /\ IF peer_pieces_state[rPeer][rIndex] = PEER_HAVE
     THEN RequestPiece(rPeer, rIndex) /\ rpc' = "mark"
     ELSE rpc' = "next" /\ UNCHANGED <<pieces_state_arr, wire>>
  /\ UNCHANGED <<lockVars, pieces_num_in_peers, rest_pieces_num, have_pieces_num,
                 is_end_game, isseed, disk, peerVars, cut, rIndex, rPeer,
                 receiverVars, amiss>>

WalkMark ==
  /\ rpc = "mark" /\ ~Freed(rPeer)
  /\ peer_pieces_state' = [peer_pieces_state EXCEPT ![rPeer][rIndex] = PEER_BE_REQUESTED]
  /\ rpc' = "next"
  /\ UNCHANGED <<lockVars, sharedVars, pool, downloaded_from, wireVars, rIndex,
                 rPeer, receiverVars, amiss>>

StepFrom(k) == IF k = Len(pool) THEN rpc' = "choose" /\ rPeer' = NULL
                                ELSE rpc' = "walk" /\ rPeer' = pool[k + 1]

WalkNext ==
  /\ rpc = "next" /\ ~Freed(rPeer)
  /\ \E k \in DOMAIN pool : pool[k] = rPeer /\ StepFrom(k)
  /\ UNCHANGED <<lockVars, sharedVars, peerVars, wireVars, rIndex, receiverVars, amiss>>

\* The node the walk stands on was freed: the read of it is undefined.  The
\* process dies, or the walk goes on at a node of the pool, or it ends.
WalkFreedNode ==
  /\ rpc \in {"walk", "mark", "next"} /\ Freed(rPeer)
  /\ \/ rpc' = "crashed" /\ UNCHANGED rPeer
     \/ rpc' = "choose" /\ rPeer' = NULL
     \/ \E k \in DOMAIN pool : rpc' = "walk" /\ rPeer' = pool[k]
  /\ UNCHANGED <<lockVars, sharedVars, peerVars, wireVars, rIndex, receiverVars, amiss>>

Requester == \/ ChoosePiece \/ FindPeer \/ TakeSlot \/ AskPeer \/ BookRequest
             \/ LeaveLoop \/ StartEndGame \/ ChooseLast
             \/ WalkAsk \/ WalkMark \/ WalkNext \/ WalkFreedNode
-----------------------------------------------------------------------------
(***************************************************************************)
(* The receiver thread of connection c.                                    *)
(***************************************************************************)
Running == rpc # "crashed"

Goto(c, from, to) == Running /\ hpc[c] = from /\ hpc' = [hpc EXCEPT ![c] = to]

\* handshake_handler, under the PEER lock: pool_add_peer puts a node at the head
\* of the pool and leaves peer_pieces_state as malloc returned it.
Connect(c) ==
  /\ PeerFree
  /\ Goto(c, "absent", "new")
  /\ pool' = <<c>> \o pool
  /\ \E garbage \in Leftover :
       peer_pieces_state' = [peer_pieces_state EXCEPT ![c] = garbage]
  /\ UNCHANGED <<lockVars, sharedVars, downloaded_from, wireVars, requesterVars, cursor,
                 loaded, amiss>>

\* handle_bitfield takes the FILE lock and goes over the pieces.
HandleBitfield(c) ==
  /\ FileFree /\ c \notin cut
  /\ Goto(c, "new", "reading")
  /\ cursor' = [cursor EXCEPT ![c] = 0]
  /\ UNCHANGED <<lockVars, sharedVars, peerVars, wireVars, requesterVars, loaded, amiss>>

\* The pieces for which it calls peer_have_piece: what is recorded of the others
\* stays.
Announces(c, i) == i \in Holds[c]

\* peer_have_piece records the piece and loads its count ...
HearPiece(c) ==
  LET i == cursor[c] IN
  /\ i < NumPieces
  /\ IF Announces(c, i)
     THEN /\ Goto(c, "reading", "counting")
          /\ peer_pieces_state' = [peer_pieces_state EXCEPT ![c][i] = PEER_HAVE]
          /\ loaded' = [loaded EXCEPT ![c] = pieces_num_in_peers[i]]
          /\ UNCHANGED cursor
     ELSE /\ Goto(c, "reading", "reading")
          /\ cursor' = [cursor EXCEPT ![c] = i + 1]
          /\ UNCHANGED <<peer_pieces_state, loaded>>
  /\ UNCHANGED <<lockVars, sharedVars, pool, downloaded_from, wireVars, requesterVars, amiss>>

\* ... and stores it increased, over what a disconnect, which holds another lock,
\* stored in between.
CountPiece(c) ==
  /\ Goto(c, "counting", "reading")
  /\ pieces_num_in_peers' = [pieces_num_in_peers EXCEPT ![cursor[c]] = loaded[c] + 1]
  /\ loaded' = [loaded EXCEPT ![c] = 0]
  /\ cursor' = [cursor EXCEPT ![c] = @ + 1]
  /\ UNCHANGED <<lockVars, pieces_state_arr, rest_pieces_num, have_pieces_num,
                 is_end_game, isseed, disk, peerVars, wireVars, requesterVars, amiss>>

\* The bitfield is read.
CloseBitfield(c) ==
  /\ cursor[c] = NumPieces
  /\ Goto(c, "reading", "serving")
  /\ UNCHANGED <<lockVars, sharedVars, peerVars, wireVars, requesterVars, cursor, loaded,
                 amiss>>

\* A block comes off the wire whole, or cut short by the end of the connection:
\* its tail is then whatever malloc returned, and no further read succeeds.
Arrives(c, torn) ==
  IF torn
  THEN wire' = [wire EXCEPT ![c] = <<>>] /\ cut' = cut \cup {c}
  ELSE wire' = [wire EXCEPT ![c] = Tail(@)] /\ UNCHANGED cut

\* set_block.
WriteBlock(b, torn) == disk' = IF torn THEN disk \ {b} ELSE disk \cup {b}

\* What marks a piece as claimed in the end game.
Claim(c) == PIECE_END_GAME_GETED + c

\* The branches of handle_piece before the hash check, the FILE lock held from
\* here on.  Before the end game the block is written whatever the state of
\* the piece.  In the end game the first peer to deliver claims the piece, and
\* the blocks of the others are dropped with a cancel.
HandlePiece(c, torn) ==
  /\ Running /\ hpc[c] = "serving" /\ wire[c] # <<>> /\ FileFree
  /\ Arrives(c, torn)
  /\ LET b == Head(wire[c])
         i == b[1]
     IN \/ /\ \/ is_end_game = 0
              \/ pieces_state_arr[i] = Claim(c)
           /\ WriteBlock(b, torn)
           /\ Goto(c, "serving", "checking")
           /\ cursor' = [cursor EXCEPT ![c] = i]
        \/ /\ is_end_game = 1
           /\ pieces_state_arr[i] = PIECE_REQUESTING
           /\ WriteBlock(b, torn)
           /\ Goto(c, "serving", "claiming")
           /\ cursor' = [cursor EXCEPT ![c] = i]
        \/ /\ is_end_game = 1
           /\ pieces_state_arr[i] \notin {PIECE_REQUESTING, Claim(c)}
           /\ UNCHANGED <<disk, hpc, cursor>>
  /\ UNCHANGED <<lockVars, pieces_state_arr, pieces_num_in_peers, rest_pieces_num,
                 have_pieces_num, is_end_game, isseed, peerVars, requesterVars, loaded,
                 amiss>>

\* The claim.  The requester or a disconnect may have changed the state since it
\* was looked at.
ClaimPiece(c) ==
  /\ Goto(c, "claiming", "checking")
  /\ pieces_state_arr' = [pieces_state_arr EXCEPT ![cursor[c]] = Claim(c)]
  /\ UNCHANGED <<lockVars, pieces_num_in_peers, rest_pieces_num, have_pieces_num,
                 is_end_game, isseed, disk, peerVars, wireVars, requesterVars, cursor,
                 loaded, amiss>>

\* Slip: the hash is not checked.
HashIgnored(c) == TRUE

HashMatches(c) == Whole(cursor[c])

FileComplete == Missing(disk) = {}

\* The hash of the piece matches: handle_piece marks it, gives the slot back,
\* and marks the client a seed when no piece is missing.  With blocks that were
\* right before they were asked for, this may come before the last block does.
PieceComplete(c) ==
  LET i == cursor[c] IN
  /\ HashMatches(c)
  /\ Goto(c, "checking", "serving")
  /\ pieces_state_arr' = [pieces_state_arr EXCEPT ![i] = PIECE_COMPLETED]
  /\ have_pieces_num' = have_pieces_num + 1
  /\ peer_pieces_state' = [peer_pieces_state EXCEPT ![c][i] = PEER_HAVE]
  /\ UnlockPiece
  /\ isseed' = IF FileComplete THEN 1 ELSE isseed
  /\ Note("early", \E d \in Conns : OnWire(d, i))
  /\ UNCHANGED <<pieces_num_in_peers, rest_pieces_num, is_end_game, disk, pool,
                 downloaded_from, wireVars, requesterVars, cursor, loaded>>

\* The hash does not match: there are blocks to come, or bad ones.
PieceIncomplete(c) ==
  /\ ~HashMatches(c)
  /\ Goto(c, "checking", "serving")
  /\ UNCHANGED <<lockVars, sharedVars, peerVars, wireVars, requesterVars, cursor, loaded,
                 amiss>>

\* The connection is lost: message_handler takes the PEER lock.  What it goes by
\* then is what is recorded of the peer, announced or not.
Disconnect(c) ==
  /\ Running /\ c \in Leavers /\ PeerFree
  /\ hpc[c] \in {"new", "serving"}
  /\ hpc' = [hpc EXCEPT ![c] = "scanning"]
  /\ cursor' = [cursor EXCEPT ![c] = 0]
  /\ wire' = [wire EXCEPT ![c] = <<>>]
  /\ Note("misread", \E i \in Pieces :
                       peer_pieces_state[c][i] = PEER_BE_REQUESTED /\ ~Heard(c, i))
  /\ UNCHANGED <<lockVars, sharedVars, peerVars, cut, requesterVars, loaded>>

\* Slips: the piece is turned back whoever it was requested from, or whether or
\* not it was completed.
TurnsAny(c, i) == /\ peer_pieces_state[c][i] > PEER_HAVNT
                  /\ pieces_state_arr[i] = PIECE_REQUESTING
TurnsCompleted(c, i) == peer_pieces_state[c][i] = PEER_BE_REQUESTED

Turns(c, i) == /\ peer_pieces_state[c][i] = PEER_BE_REQUESTED
               /\ pieces_state_arr[i] = PIECE_REQUESTING

Leaves(c, i) == peer_pieces_state[c][i] > PEER_HAVNT

\* It goes over the pieces, and loads the count of those the peer has ...
ScanPiece(c) ==
  LET i == cursor[c] IN
  /\ i < NumPieces
  /\ IF Leaves(c, i)
     THEN /\ Goto(c, "scanning", "uncounting")
          /\ loaded' = [loaded EXCEPT ![c] = pieces_num_in_peers[i]]
          /\ UNCHANGED cursor
     ELSE /\ Goto(c, "scanning", "scanning")
          /\ cursor' = [cursor EXCEPT ![c] = i + 1]
          /\ UNCHANGED loaded
  /\ UNCHANGED <<lockVars, sharedVars, peerVars, wireVars, requesterVars, amiss>>

\* ... stores it decreased, over what a bitfield stored in between; and a piece
\* requested from the peer that is not complete is to be turned back.
UncountPiece(c) ==
  LET i == cursor[c] IN
  /\ hpc[c] = "uncounting"
  /\ pieces_num_in_peers' = [pieces_num_in_peers EXCEPT ![i] = loaded[c] - 1]
  /\ loaded' = [loaded EXCEPT ![c] = 0]
  /\ IF Turns(c, i)
     THEN Goto(c, "uncounting", "turning") /\ UNCHANGED cursor
     ELSE Goto(c, "uncounting", "scanning") /\ cursor' = [cursor EXCEPT ![c] = i + 1]
  /\ UNCHANGED <<lockVars, pieces_state_arr, rest_pieces_num, have_pieces_num,
                 is_end_game, isseed, disk, peerVars, wireVars, requesterVars, amiss>>

\* PIECE_REQUESTING -> PIECE_HAVNT and UNLOCK_PIECE, without a further look at
\* the state.  rest_pieces_num is not increased again.
TurnBack(c) ==
  /\ Goto(c, "turning", "scanning")
  /\ pieces_state_arr' = [pieces_state_arr EXCEPT ![cursor[c]] = PIECE_HAVNT]
  /\ UnlockPiece
  /\ cursor' = [cursor EXCEPT ![c] = @ + 1]
  /\ UNCHANGED <<pieces_num_in_peers, rest_pieces_num, have_pieces_num, is_end_game,
                 isseed, disk, peerVars, wireVars, requesterVars, loaded, amiss>>

\* peerpool_remove_node takes the node out of the pool and frees it.
RemoveNode(c) ==
  /\ cursor[c] = NumPieces
  /\ Goto(c, "scanning", "gone")
  /\ \E k \in DOMAIN pool :
       /\ pool[k] = c
       /\ pool' = SubSeq(pool, 1, k - 1) \o SubSeq(pool, k + 1, Len(pool))
  /\ UNCHANGED <<lockVars, sharedVars, peer_pieces_state, downloaded_from, wireVars,
                 requesterVars, cursor, loaded, amiss>>

Receiver(c) == \/ HandleBitfield(c) \/ HearPiece(c) \/ CountPiece(c) \/ CloseBitfield(c)
               \/ HandlePiece(c, FALSE) \/ ClaimPiece(c)
               \/ PieceComplete(c) \/ PieceIncomplete(c)
               \/ ScanPiece(c) \/ UncountPiece(c) \/ TurnBack(c) \/ RemoveNode(c)

Environment(c) == \/ Connect(c)
                  \/ TornBlocks /\ c \in Leavers /\ HandlePiece(c, TRUE)
                  \/ Disconnect(c)

Next == Requester \/ \E c \in Conns : Receiver(c) \/ Environment(c)

Spec == Init /\ [][Next]_vars

\* Every thread keeps running, every peer comes and answers what it was asked.
FairSpec == /\ Spec
            /\ WF_vars(Requester)
            /\ \A c \in Conns : WF_vars(Receiver(c)) /\ WF_vars(Connect(c))
-----------------------------------------------------------------------------
(***************************************************************************)
(* Properties.  Those of the phase before the end game are what the        *)
(* requester, with its unlocked reads and its counters, relies on.  Two    *)
(* things the code does nothing against can take each of them away, and    *)
(* each property names those that do: leftover memory taken for what a     *)
(* peer announced ("misread" in amiss), and a piece found complete while   *)
(* blocks of it are still to come ("early").                               *)
(***************************************************************************)
InState(state) == {i \in Pieces : pieces_state_arr[i] = state}

One(condition) == IF condition THEN 1 ELSE 0

BeforeEndGame == is_end_game = 0

\* No peer was taken to have a piece because of what malloc returned.
NotMisled == "misread" \notin amiss

TypeOK ==
  /\ pieces_state_arr \in [Pieces -> {PIECE_REQUESTING, PIECE_COMPLETED, PIECE_HAVNT}
                                       \cup {Claim(c) : c \in Conns}]
  /\ pieces_num_in_peers \in [Pieces -> Int]
  /\ rest_pieces_num \in Int /\ have_pieces_num \in Int
  /\ is_end_game \in {0, 1} /\ isseed \in {0, 1}
  /\ disk \subseteq Blocks
  /\ pool \in Seq(Conns)
  /\ peer_pieces_state \in [Conns -> [Pieces -> Int]]
  /\ downloaded_from \in [Conns -> Nat]
  /\ wire \in [Conns -> Seq(Blocks)] /\ cut \subseteq Conns
  /\ pieces_requesting \in Int /\ pieces_state_mutex \in {"free", "taken"}
  /\ rpc \in {"choose", "find", "lock", "asleep", "ask", "book", "spin",
              "walk", "mark", "next", "done", "crashed"}
  /\ rIndex \in Pieces
  /\ rPeer \in Conns \cup {NULL}
  /\ rPeer = NULL => /\ rpc \notin {"ask", "book", "walk", "mark", "next"}
                     /\ is_end_game = 0 => rpc \notin {"lock", "asleep"}
  /\ hpc \in [Conns -> {"absent", "new", "reading", "counting", "serving", "claiming",
                        "checking", "scanning", "uncounting", "turning", "gone"}]
  /\ cursor \in [Conns -> 0 .. NumPieces]
  /\ \A c \in Conns :
       hpc[c] \in {"counting", "claiming", "checking", "uncounting", "turning"}
         => cursor[c] \in Pieces
  /\ loaded \in [Conns -> Int]
  /\ amiss \subseteq {"misread", "early"}

\* A piece the client calls complete is whole in the file, whatever the order
\* in which requests, blocks and disconnects come: unless a connection ended
\* inside a block and, before the end game, blocks came for a piece that was
\* complete or that two peers were asked for.
CompletedIsWhole ==
  cut = {} \/ amiss = {} => \A i \in InState(PIECE_COMPLETED) : Whole(i)

\* The requester acts on what it read long ago: between which_piece_to_request
\* and request_a_piece it waits for a lock and maybe sleeps in LOCK_PIECE.  The
\* piece it chose is still not requested by then.
ChosenStillWanted ==
  BeforeEndGame /\ NotMisled /\ rpc \in {"find", "lock", "asleep", "ask"}
    => pieces_state_arr[rIndex] = PIECE_HAVNT

\* Before the end game no block is ever requested twice at a time, from one peer
\* or from two, and what is on a wire belongs to a piece in PIECE_REQUESTING, or
\* to one that was found complete early: a piece turned back by a disconnect is
\* not still on its way.
AskedOnce ==
  BeforeEndGame /\ NotMisled =>
    \A c \in Conns : \A k \in DOMAIN wire[c] :
      /\ \/ wire[c][k][1] \in InState(PIECE_REQUESTING)
         \/ "early" \in amiss /\ wire[c][k][1] \in InState(PIECE_COMPLETED)
      /\ \A d \in Conns : \A m \in DOMAIN wire[d] :
           wire[d][m] = wire[c][k] => d = c /\ m = k

\* As long as no peer leaves, rest_pieces_num is the number of pieces still to
\* be requested.
NoneLeft == \A c \in Conns : hpc[c] \notin Leaving \cup {"gone"}

RestExact ==
  BeforeEndGame /\ NotMisled /\ NoneLeft
    => rest_pieces_num = Cardinality(InState(PIECE_HAVNT)) + One(rpc = "book")

\* rest_pieces_num never exceeds the pieces still to be requested, also when
\* peers leave: the loop does not wait for a piece that is not wanted.
RestNeverOverstates ==
  BeforeEndGame /\ NotMisled
    => rest_pieces_num <= Cardinality(InState(PIECE_HAVNT)) + One(rpc = "book")

\* have_pieces_num, by which request_file starts the end game, counts each complete
\* piece once: no piece is completed by two receivers, or again after a peer left.
HaveExact ==
  BeforeEndGame /\ amiss = {} => have_pieces_num = Cardinality(InState(PIECE_COMPLETED))

\* Before the end game a complete piece is never requested again nor turned back.
CompletedStays ==
  [][BeforeEndGame /\ NotMisled
       => InState(PIECE_COMPLETED) \subseteq InState(PIECE_COMPLETED)']_vars

\* The whole file is downloaded, unless the process dies.  request_file is there
\* "To request all the pieces, End-game stage included" (peer_wire.c:682).
Completes == <>(isseed = 1 \/ rpc = "crashed")

\* Before the end game the threads use the piece window as PieceWindow assumes:
\* every step of theirs is one of its steps or none, slots are taken by the
\* requester only and each is given back once.
Window == INSTANCE PieceWindow WITH
  MaxSurplus <- 0,
  requester  <- IF rpc = "asleep" THEN "asleep" ELSE "free",
  held       <- Cardinality(InState(PIECE_REQUESTING)) + One(rpc = "ask"),
  surplus    <- 0

UsesWindow == /\ Window!Init
              /\ [][BeforeEndGame /\ amiss = {} => [Window!Next]_(Window!vars)]_vars
=============================================================================
