------------------------------ MODULE Exchange ------------------------------
(***************************************************************************)
(* What two connected clients say to each other.  Each runs the receiver   *)
(* thread of the connection (message_handler) and the requester thread     *)
(* (request_file), which write to the same socket; further peers of a      *)
(* client, with receivers of their own, may give it pieces as well.        *)
(* Nobody is ever choked again: send_choke and send_notinterested are      *)
(* never called, and send_cancel only when two peers deliver a piece.      *)
(*                                                                         *)
(* A piece is one block here (Download has the blocks), and a requester    *)
(* asks for any piece it wants: the window, the counters and the end game  *)
(* are Download's.  Requests and answers are what fills the sockets: a     *)
(* message without a block always fits, blocks fit Room at a time.  So a   *)
(* handler is one step except where it has to wait for room, or where the  *)
(* requester may use what it has just written.                             *)
(***************************************************************************)
EXTENDS Integers, Sequences, FiniteSets

CONSTANTS
  Clients,     \* the two clients
  NumPieces,   \* num_pieces of the torrent
  Starts,      \* how the two may connect: the pieces that each has on disk, and the
               \* memory that malloc returned to it for peer_pieces_state
  Elsewhere,   \* what pieces each may get from other peers
  Room         \* blocks that fit the socket buffers, each way

Pieces == 0 .. NumPieces - 1

ASSUME ExchangeAssumption ==
  /\ IsFiniteSet(Clients) /\ Cardinality(Clients) = 2
  /\ NumPieces \in Nat \ {0}
  /\ Starts \subseteq [disk : [Clients -> SUBSET Pieces],
                       memory : [Clients -> [Pieces -> Int]]]
  /\ Elsewhere \in [Clients -> SUBSET Pieces]
  /\ Room \in Nat \ {0}

\* peer_wire.h; HAVE is a word of TLA+
UNCHOKE    == 1
INTERESTED == 2
HAVE_PIECE == 4
BITFIELD   == 5
REQUEST    == 6
PIECE      == 7

\* mytorrent.h
PIECE_REQUESTING  == 0
PIECE_COMPLETED   == 1
PIECE_HAVNT       == 2
PEER_HAVNT        == 0
PEER_HAVE         == 1
PEER_BE_REQUESTED == 2

VARIABLES
  \* of each client: the pieces that are right on disk, pieces_state_arr, and
  \* the peer_t of the other one
  disk, pieces_state_arr,
  peer_choking, peer_interested, am_choking, am_interested, peer_pieces_state,
  chan,            \* messages sent by each and not yet read by the other
  at, bits, cursor,\* receiver: where it is, the bitfield and the piece it is at
  asking, booking, \* requester: the piece (or none) whose REQUEST it is to send, and
                   \* the piece to be booked as requested
  elsewhere, asked,\* what other peers have, and what they were asked for
  \* recorded for the properties, read by no action: the pieces each was told that
  \* the other has, and those it asked the other for without having been told
  told, guessed

flags == <<peer_choking, peer_interested, am_choking, am_interested>>
fileVars == <<disk, pieces_state_arr>>
receiverVars == <<at, bits, cursor>>
requesterVars == <<asking, booking>>
otherVars == <<elsewhere, asked>>
recorded == <<told, guessed>>
vars == <<fileVars, flags, peer_pieces_state, chan, receiverVars, requesterVars,
          otherVars, recorded>>

Other(x) == CHOOSE y \in Clients : y # x

\* pool_add_peer for both, which leaves peer_pieces_state as malloc returned it, and
\* the piece states as gen_bitfield finds the file.
Init ==
  /\ \E s \in Starts : disk = s.disk /\ peer_pieces_state = s.memory
  /\ pieces_state_arr = [x \in Clients |-> [i \in Pieces |->
       IF i \in disk[x] THEN PIECE_COMPLETED ELSE PIECE_HAVNT]]
  /\ peer_choking = [x \in Clients |-> 1]
  /\ am_choking = [x \in Clients |-> 1]
  /\ peer_interested = [x \in Clients |-> 0]
  /\ am_interested = [x \in Clients |-> 0]
  /\ chan = [x \in Clients |-> <<>>]
  /\ at = [x \in Clients |-> "start"]
  /\ bits = [x \in Clients |-> {}]
  /\ cursor = [x \in Clients |-> 0]
  /\ asking = [x \in Clients |-> {}] /\ booking = [x \in Clients |-> {}]
  /\ elsewhere = Elsewhere
  /\ asked = [x \in Clients |-> {}]
  /\ told = [x \in Clients |-> {}] /\ guessed = [x \in Clients |-> {}]
-----------------------------------------------------------------------------
(***************************************************************************)
(* Messages.                                                               *)
(***************************************************************************)

\* what: the pieces it is about.  right: whether the bytes of a block are.
Message(id, what) == [id |-> id, what |-> what, right |-> TRUE]

Sends(x, messages) == chan' = [chan EXCEPT ![x] = @ \o messages]

\* The next message for x, and that it is read and answered.
Incoming(x, id) == /\ at[x] = "reading" /\ chan[Other(x)] # <<>>
                   /\ Head(chan[Other(x)]).id = id

What(x) == Head(chan[Other(x)]).what

Reads(x, answers) ==
  chan' = [chan EXCEPT ![Other(x)] = Tail(@), ![x] = @ \o answers]

\* The socket takes another block of x.
BlocksIn(x) == {k \in DOMAIN chan[x] : chan[x][k].id = PIECE}

\* Slip: a block waits until nothing at all is in the buffers.
FitsEmpty(x) == chan[x] = <<>>

Fits(x) == Cardinality(BlocksIn(x)) < Room

\* The FILE lock of x is free.
FileFree(x) == at[x] \notin {"noting", "greeting", "sending"}

Goes(x, where) == at' = [at EXCEPT ![x] = where]

\* send_unchoke and send_interested where they are not repeated.
Unchoke(x) == IF peer_choking[x] = 1 THEN <<Message(UNCHOKE, {})>> ELSE <<>>
Interest(x) == IF peer_interested[x] = 0 THEN <<Message(INTERESTED, {})>> ELSE <<>>

\* Slip: send_unchoke leaves peer_choking as it was.
UnmarkedUnchoked(x) == UNCHANGED peer_choking

Unchoked(x) == peer_choking' = [peer_choking EXCEPT ![x] = 0]
Interested(x) == peer_interested' = [peer_interested EXCEPT ![x] = 1]

\* send_have passes a peer that is known to have the piece.
Have(x, i) == IF peer_pieces_state[x][i] # PEER_HAVE THEN <<Message(HAVE_PIECE, {i})>>
                                                     ELSE <<>>
-----------------------------------------------------------------------------
(***************************************************************************)
(* The receiver.                                                           *)
(***************************************************************************)

\* message_handler starts with send_bitfield, under the FILE lock.
SendBitfield(x) ==
  /\ at[x] = "start"
  /\ Sends(x, <<Message(BITFIELD, disk[x])>>)
  /\ Goes(x, "reading")
  /\ UNCHANGED <<fileVars, flags, peer_pieces_state, bits, cursor, requesterVars, otherVars, recorded>>

HandleUnchoke(x) ==
  /\ Incoming(x, UNCHOKE)
  /\ am_choking' = [am_choking EXCEPT ![x] = 0]
  /\ Reads(x, <<>>)
  /\ UNCHANGED <<fileVars, peer_choking, peer_interested, am_interested,
                 peer_pieces_state, receiverVars, requesterVars, otherVars, recorded>>

HandleInterested(x) ==
  /\ Incoming(x, INTERESTED)
  /\ am_interested' = [am_interested EXCEPT ![x] = 1]
  /\ Reads(x, Unchoke(x)) /\ Unchoked(x)
  /\ UNCHANGED <<fileVars, peer_interested, am_choking, peer_pieces_state,
                 receiverVars, requesterVars, otherVars, recorded>>

\* handle_have shows interest in a piece that is wanted.  It is not recorded that
\* the peer has it.
HandleHave(x) ==
  /\ Incoming(x, HAVE_PIECE)
  /\ IF \A i \in What(x) : pieces_state_arr[x][i] = PIECE_HAVNT
     THEN /\ Reads(x, Unchoke(x) \o Interest(x) \o <<Message(INTERESTED, {})>>)
          /\ Unchoked(x) /\ Interested(x)
     ELSE Reads(x, <<>>) /\ UNCHANGED <<peer_choking, peer_interested>>
  /\ UNCHANGED <<fileVars, am_choking, am_interested, peer_pieces_state,
                 receiverVars, requesterVars, otherVars, recorded>>

\* handle_bitfield goes over the pieces.  The requester may ask for a piece as
\* soon as peer_have_piece has recorded it.
HandleBitfield(x) ==
  /\ Incoming(x, BITFIELD)
  /\ bits' = [bits EXCEPT ![x] = What(x)]
  /\ cursor' = [cursor EXCEPT ![x] = 0]
  /\ Reads(x, <<>>)
  /\ Goes(x, "noting")
  /\ UNCHANGED <<fileVars, flags, peer_pieces_state, requesterVars, otherVars, recorded>>

NextBit(x) == IF cursor[x] + 1 = NumPieces
              THEN Goes(x, "reading") /\ UNCHANGED cursor
              ELSE Goes(x, "noting") /\ cursor' = [cursor EXCEPT ![x] = @ + 1]

\* Slip: the peer is taken to have every piece.
AnyBitSet(x) == TRUE

BitSet(x) == cursor[x] \in bits[x]

NotePiece(x) ==
  /\ at[x] = "noting"
  /\ IF BitSet(x)
     THEN /\ peer_pieces_state' = [peer_pieces_state EXCEPT ![x][cursor[x]] = PEER_HAVE]
          /\ told' = [told EXCEPT ![x] = @ \cup {cursor[x]}]
          /\ IF pieces_state_arr[x][cursor[x]] = PIECE_HAVNT
             THEN Goes(x, "greeting") /\ UNCHANGED cursor
             ELSE NextBit(x)
     ELSE NextBit(x) /\ UNCHANGED <<peer_pieces_state, told>>
  /\ UNCHANGED <<fileVars, flags, chan, bits, requesterVars, otherVars, guessed>>

GreetPiece(x) ==
  /\ at[x] = "greeting"
  /\ Sends(x, Unchoke(x) \o Interest(x))
  /\ Unchoked(x) /\ Interested(x)
  /\ NextBit(x)
  /\ UNCHANGED <<fileVars, am_choking, am_interested, peer_pieces_state, bits,
                 requesterVars, otherVars, recorded>>

\* handle_request serves only a peer that is not choked, and holds the FILE lock
\* until the block is in the socket.
HandleRequest(x) ==
  /\ Incoming(x, REQUEST)
  /\ IF peer_choking[x] = 0
     THEN bits' = [bits EXCEPT ![x] = What(x)] /\ Goes(x, "sending")
     ELSE UNCHANGED <<bits, at>>
  /\ Reads(x, <<>>)
  /\ UNCHANGED <<fileVars, flags, peer_pieces_state, cursor, requesterVars, otherVars, recorded>>

\* get_block reads the bytes wherever the file has them, right or not.
BlockRight(x) == bits[x] \subseteq disk[x]

\* send_piece sends what get_block finds.
SendPiece(x) ==
  /\ at[x] = "sending" /\ Fits(x)
  /\ Sends(x, <<[id |-> PIECE, what |-> bits[x], right |-> BlockRight(x)]>>)
  /\ Goes(x, "reading")
  /\ UNCHANGED <<fileVars, flags, peer_pieces_state, bits, cursor, requesterVars, otherVars, recorded>>

\* A piece is whole: it is marked, announced, and the provider known to have it.
Completes(x, i) ==
  /\ disk' = [disk EXCEPT ![x] = @ \cup {i}]
  /\ pieces_state_arr' = [pieces_state_arr EXCEPT ![x][i] = PIECE_COMPLETED]

HandlePiece(x) ==
  /\ Incoming(x, PIECE)
  /\ \E i \in What(x) :
       IF Head(chan[Other(x)]).right
       THEN /\ Completes(x, i)
            /\ Reads(x, Have(x, i))
            /\ peer_pieces_state' = [peer_pieces_state EXCEPT ![x][i] = PEER_HAVE]
       ELSE /\ disk' = [disk EXCEPT ![x] = @ \ {i}]
            /\ Reads(x, <<>>)
            /\ UNCHANGED <<pieces_state_arr, peer_pieces_state>>
  /\ UNCHANGED <<flags, receiverVars, requesterVars, otherVars, recorded>>

Receiver(x) == \/ SendBitfield(x) \/ HandleUnchoke(x) \/ HandleInterested(x)
               \/ HandleHave(x) \/ HandleBitfield(x) \/ NotePiece(x)
               \/ GreetPiece(x) \/ HandleRequest(x) \/ SendPiece(x) \/ HandlePiece(x)
-----------------------------------------------------------------------------
(***************************************************************************)
(* The requester, and the other peers.                                     *)
(***************************************************************************)
Wants(x, i) == /\ asking[x] = {} /\ booking[x] = {}
               /\ pieces_state_arr[x][i] = PIECE_HAVNT

Marks(x, i, state) == pieces_state_arr' = [pieces_state_arr EXCEPT ![x][i] = state]

\* Slip: a request is sent without showing interest first.
NotInterested(x) == UNCHANGED <<chan, peer_interested>>

\* request_a_piece shows interest every time.  Whether the peer has announced the
\* piece, or malloc's memory says so, makes no difference.
ShowInterest(x) == Sends(x, <<Message(INTERESTED, {})>>) /\ Interested(x)

Ask(x, i) ==
  /\ Wants(x, i) /\ peer_pieces_state[x][i] > PEER_HAVNT
  /\ Marks(x, i, PIECE_REQUESTING)
  /\ ShowInterest(x)
  /\ asking' = [asking EXCEPT ![x] = {i}]
  /\ guessed' = [guessed EXCEPT ![x] = @ \cup ({i} \ told[x])]
  /\ UNCHANGED <<disk, peer_choking, am_choking, am_interested, peer_pieces_state,
                 receiverVars, booking, otherVars, told>>

SendRequest(x) ==
  /\ asking[x] # {}
  /\ Sends(x, <<Message(REQUEST, asking[x])>>)
  /\ asking' = [asking EXCEPT ![x] = {}]
  /\ booking' = [booking EXCEPT ![x] = asking[x]]
  /\ UNCHANGED <<fileVars, flags, peer_pieces_state, receiverVars, otherVars, recorded>>

\* The piece is booked after the request is on its way; it may be here by then.
BookRequest(x) ==
  /\ booking[x] # {}
  /\ peer_pieces_state' = [peer_pieces_state EXCEPT ![x] =
       [i \in Pieces |-> IF i \in booking[x] THEN PEER_BE_REQUESTED ELSE @[i]]]
  /\ booking' = [booking EXCEPT ![x] = {}]
  /\ UNCHANGED <<fileVars, flags, chan, receiverVars, asking, otherVars, recorded>>

\* The same request goes to another peer.
AskElsewhere(x, i) ==
  /\ Wants(x, i) /\ i \in elsewhere[x]
  /\ Marks(x, i, PIECE_REQUESTING)
  /\ asked' = [asked EXCEPT ![x] = @ \cup {i}]
  /\ UNCHANGED <<disk, flags, peer_pieces_state, chan, receiverVars, requesterVars,
                 elsewhere, recorded>>

\* Its receiver runs handle_piece, under the FILE lock.
Gain(x, i) ==
  /\ i \in asked[x] /\ FileFree(x)
  /\ Completes(x, i)
  /\ Sends(x, Have(x, i))
  /\ asked' = [asked EXCEPT ![x] = @ \ {i}]
  /\ UNCHANGED <<flags, peer_pieces_state, receiverVars, requesterVars, elsewhere, recorded>>

\* Or it leaves, and what it was asked for is wanted again.
LoseElsewhere(x) ==
  /\ elsewhere[x] # {}
  /\ pieces_state_arr' = [pieces_state_arr EXCEPT ![x] =
       [i \in Pieces |-> IF i \in asked[x] THEN PIECE_HAVNT ELSE @[i]]]
  /\ asked' = [asked EXCEPT ![x] = {}]
  /\ elsewhere' = [elsewhere EXCEPT ![x] = {}]
  /\ UNCHANGED <<disk, flags, peer_pieces_state, chan, receiverVars, requesterVars,
                 recorded>>

Requester(x) == \/ \E i \in Pieces : Ask(x, i) \/ AskElsewhere(x, i)
                \/ SendRequest(x) \/ BookRequest(x)

Next == \E x \in Clients : \/ Receiver(x) \/ Requester(x) \/ LoseElsewhere(x)
                           \/ \E i \in Pieces : Gain(x, i)

Spec == Init /\ [][Next]_vars

\* Every thread keeps running; the other peers deliver what they are asked for
\* or leave.
FairSpec ==
  /\ Spec
  /\ \A x \in Clients :
       /\ WF_vars(Receiver(x)) /\ WF_vars(Requester(x))
       /\ WF_vars(LoseElsewhere(x) \/ \E i \in Pieces : Gain(x, i))
-----------------------------------------------------------------------------
Messages == [id : {UNCHOKE, INTERESTED, HAVE_PIECE, BITFIELD, REQUEST, PIECE},
             what : SUBSET Pieces, right : BOOLEAN]

\* Types, and that a handler that is at a piece holds its number.
TypeOK ==
  /\ disk \in [Clients -> SUBSET Pieces]
  /\ pieces_state_arr \in [Clients -> [Pieces ->
       {PIECE_REQUESTING, PIECE_COMPLETED, PIECE_HAVNT}]]
  /\ peer_choking \in [Clients -> {0, 1}] /\ peer_interested \in [Clients -> {0, 1}]
  /\ am_choking \in [Clients -> {0, 1}] /\ am_interested \in [Clients -> {0, 1}]
  /\ peer_pieces_state \in [Clients -> [Pieces -> Int]]
  /\ chan \in [Clients -> Seq(Messages)]
  /\ at \in [Clients -> {"start", "reading", "noting", "greeting", "sending"}]
  /\ bits \in [Clients -> SUBSET Pieces] /\ cursor \in [Clients -> Pieces]
  /\ asking \in [Clients -> SUBSET Pieces] /\ booking \in [Clients -> SUBSET Pieces]
  /\ elsewhere \in [Clients -> SUBSET Pieces] /\ asked \in [Clients -> SUBSET Pieces]
  /\ told \in [Clients -> SUBSET Pieces] /\ guessed \in [Clients -> SUBSET Pieces]

\* handle_request drops the request of a choked peer without an answer, and the
\* requester does not wait to be unchoked: yet no request is ever dropped, for
\* the INTERESTED that precedes it on the wire has unchoked its sender by then,
\* whatever else the threads of the two clients send in between.
NeverTurnedDown == \A x \in Clients : Incoming(x, REQUEST) => peer_choking[x] = 0

\* handle_request does not look whether the client has what it serves.  What is
\* announced is here all the same, and what is served is right, unless the peer
\* it is served to was misled by leftover memory: a client asks for nothing else
\* that it was not told of, and no wrong block spoils a piece that is here.
NothingFalse ==
  \A x \in Clients : \A k \in DOMAIN chan[x] :
    /\ chan[x][k].id \in {HAVE_PIECE, BITFIELD} => chan[x][k].what \subseteq disk[x]
    /\ ~chan[x][k].right => chan[x][k].what \subseteq guessed[Other(x)]

\* The two sides agree on who is choked once the messages on the way are read.
UnchokeOnWay(x) == \E k \in DOMAIN chan[x] : chan[x][k].id = UNCHOKE

FlagsAgree ==
  \A x \in Clients :
    am_choking[Other(x)] = 1 <=> peer_choking[x] = 1 \/ UnchokeOnWay(x)

\* What the peer announced when it connected is fetched, from it or elsewhere,
\* also when other peers it was asked of leave, and when the peer was asked for it
\* before, or for other pieces, by mistake: unless both receivers are sending
\* a block into full sockets, which only they could empty.
Full(x) == Cardinality(BlocksIn(x)) >= Room

WaitForEachOther == \A x \in Clients : at[x] = "sending" /\ Full(x)

Fetched ==
  []<>(\/ \A x \in Clients : told[x] \subseteq disk[x]
       \/ WaitForEachOther)
=============================================================================
