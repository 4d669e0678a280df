# SimpleTorrent in TLA+

This directory holds a TLA+ model of SimpleTorrent (`src/SimpleTorrent/src`), a BitTorrent client
in C with one thread per connection: modules that model its parts, TLC configurations that check
them on small instances, and proofs, checked by TLAPS, that hold for every size. `PROJECT.json`
maps every definition to the lines it models and lists the runs, the hazards and the theorems.

## The system

One process serves one torrent of one file. Its threads:

| thread | code | what it does |
| --- | --- | --- |
| main | `mytorrent.c` `main` | parses the torrent, announces to the tracker for ever, connects to the peers of each response |
| listener | `port_listen`, `peer_accept` | accepts connections, starts a handshake thread for each |
| handshake threads | `wait_first_handshake`, `wait_second_handshake`, `handshake_handler` | one per connection, put the peer in the pool and start its receiver |
| receivers | `message_handler` | one per connected peer: reads messages, runs the `handle_*` functions, cleans up when the connection is lost |
| requester | `request_file` | chooses pieces and peers, sends the requests, runs the end game |

They share, in plain memory:

- `pieces_state_arr` (a state per piece), `pieces_num_in_peers` (how many peers have it),
  `rest_pieces_num`, `have_pieces_num`, `is_end_game`, `isseed`;
- the pool: a linked list of nodes, each with a `peer_t` (choke and interest flags,
  `peer_pieces_state`, `pieces_num_downloaded_from_it`);
- the tracker response with a `state` (CONNECT or DISCONNECT) per listed peer;
- the file.

Three mutexes: FILE (the file and most handlers), PEER (the pool, handshakes, disconnects), and the
"piece" mutex, which is half of a home-made counting semaphore (`LOCK_PIECE`, `UNLOCK_PIECE` with the
counter `pieces_requesting`). Much is read or written under the wrong lock or under none: the piece
states under FILE (receivers), PEER (disconnect) or nothing (requester); the counter of the
semaphore likewise; the pool is walked without PEER by the end game and by `send_have`.

### Inventory

| component | state | operations | what is hard | what makes it correct |
| --- | --- | --- | --- | --- |
| piece window | `pieces_requesting`, the mutex | LOCK_PIECE, UNLOCK_PIECE | three unsynchronised threads; a lock taken by one thread and released by another; comparisons before and after the change | at most five pieces in flight; whoever sleeps is woken |
| download | piece states, counters, pool, requests on the wire | `request_file`, `which_piece_to_request`, `find_peer_have_piece`, `request_a_piece`, `handle_bitfield`, `handle_piece`, disconnect | choices that are stale when acted upon, disconnects in the middle of a request, the end game's duplicate requests, records of a peer that nobody initialised | complete pieces are whole and stay so, nothing is asked twice, the counters by which the loop ends and the end game starts are right, the file is finished |
| request ranges | the locals of `request_a_piece` | one loop | clipping at the end of the file | the ranges partition the piece |
| connections | pool, tracker states, sockets | `peer_accept`, `peer_connect`, the handshakes, `peerpool_remove_node`, refresh of the peer list | both sides connect at once; pointers into a replaced response | one connection per peer, and two clients that want one get one |
| exchange | choke and interest flags, `peer_pieces_state`, the messages on their way | `send_bitfield`, the handlers of UNCHOKE, INTERESTED, HAVE, BITFIELD, REQUEST, PIECE, `request_a_piece` | requests of a choked peer are dropped without an answer; receiver and requester send on one socket; blocking sends under the FILE lock | no request is dropped, nothing false is said or served, what was announced is fetched |
| wire framing | the socket buffers, partial Sends and Recvs | `Send`, `Recv`, `send_*`, the switch of `message_handler` | three threads write to one socket, one of them without FILE; Recv returns short counts at the end | what is handled is what was sent, in order; the reader never waits in vain |
| file store | the file, the stdio stream over it: position and buffer | `createfile`, `list_get_piece`, `list_set_piece`, `gen_bitfield`, `init_pieces_state_arr` | the main thread seeks without FILE; buffered writes and kills; torn blocks; restarts with half-written pieces | what a peer was told of stays whole; what is whole is known |
| startup and announcing | event, response, the arrays, `created` | `main`, `make_tracker_request`, `preprocess_tracker_response`, `init_pieces_state_arr`, `init_pieces_num_in_peers`, `create_request_file_thread`, `client_shutdown` | the listener runs before the arrays exist; the initialisation runs again with every response; a failed first announce; SIGINT at any point | the tracker hears a session in order, nothing is forgotten, one requester runs |
| torrent file, bencoding | the decoder's stack, the fields | `_be_decode`, `parsetorrentfile`, `get_tracker_data`, `get_peers` | responses cut short, keys that begin like others, values of another type, empty lists | decoding inverts encoding; the fields and the hash are those of the file |

## The modules

| module | models | checked by | proved in |
| --- | --- | --- | --- |
| `PieceLock` | the two macros, one step each | (used by the next three) | |
| `Window` | the promise: a counting semaphore of `WindowCap` slots | (abstract) | |
| `PieceWindow` | the macros as requester and receivers use them | `piece_window` | `RequestProofs` |
| `PieceWindowRace` | the macros load by load, store by store | `piece_window_race` | |
| `Download` | requester, receivers, pool, piece states, wire, disk | `download_*` (`MCDownload`) | `DownloadProofs` |
| `PieceRequest` | the byte ranges of `request_a_piece` | `piece_request` (`MCPieceRequest`) | `RequestProofs` |
| `Connection` | two clients that run `peer_connect`, `peer_accept`, the handshakes, the disconnect path; pool and entry states | `connection` | `ConnectionProofs` |
| `Exchange` | what two connected clients say to each other: receiver and requester of both, other peers | `exchange` (`MCExchange`) | `ExchangeProofs` |
| `Startup` | main thread, listener, the arrays and the first response, the requester's creation, SIGINT | `startup` (`MCStartup`) | `StartupProofs` |
| `Store` | the promise of the file: whole pieces, and those the client says it has | (abstract) | |
| `FileStore` | the stream, the file below it, main thread and receivers that seek, read, write and hash; kills and restarts | `file_store` (`MCFileStore`) | `FileStoreProofs` |
| `Wire` | one direction of a connection, byte by byte: three writers, partial Sends, the reader field by field | `wire` (`MCWire`) | `WireProofs` |
| `Bencode` | `_be_decode` and `be_free` over whole and cut inputs | `metainfo` | `MetainfoProofs` |
| `Metainfo` | `parsetorrentfile`, `get_tracker_data`, `get_peers` over what `Bencode` decodes | `metainfo` (`MCMetainfo`) | `MetainfoProofs` |

`PieceWindow` implements `Window`; `Download` extends `PieceLock`, and before the end game each of its steps is a
step of `PieceWindow` or none (`UsesWindow`). `FileStore` implements `Store` (`ImplementsStore`).

A definition commented as a *slip* is a plausible mistake in the definition after it. No
specification uses it; put in the place of that definition, it breaks the property PROJECT.json
names for it. This is how we know that each property looks at what the code does.

### How state and actions correspond to the code

`PieceWindow`. `pieces_requesting` is the counter, `pieces_state_mutex` the mutex. `Pass`, `FallAsleep` and
`WakeUp` are the requester in LOCK_PIECE; `Release` is UNLOCK_PIECE by whoever ends a request, and
`ReleaseAgain` the UNLOCK_PIECE of a further block of a complete piece, which runs the completion
branch of `handle_piece` again. `PieceWindowRace` splits both macros into their loads, stores,
comparisons and mutex calls, two threads releasing and one requesting.

`Download`. `rpc` is where `request_file` is; each value stands for the code between two points at
which another thread can change what it depends on:

| actions | code |
| --- | --- |
| `ChoosePiece`, `FindPeer`, `TakeSlot`, `AskPeer`, `BookRequest`, `LeaveLoop` | the loop l.688-704: `which_piece_to_request`, `find_peer_have_piece` under PEER, LOCK_PIECE, `request_a_piece`, the three assignments after it |
| `StartEndGame`, `ChooseLast`, `WalkAsk`, `WalkMark`, `WalkNext`, `WalkFreedNode` | the end game l.706-725, the walk over the pool without a lock, and what it meets when the node it stands on was freed |
| `Connect` | `pool_add_peer` and the start of the receiver |
| `HandleBitfield`, then `HearPiece` and `CountPiece` per piece, `CloseBitfield` | `handle_bitfield` under FILE; the `++` of `pieces_num_in_peers` in `peer_have_piece` is a load and a store |
| `HandlePiece`, in the end game `ClaimPiece`, then `PieceComplete` or `PieceIncomplete` | `handle_piece`, all under FILE: what it does with the block, the claim of the piece after its state was looked at, and the hash with what follows from it |
| `Disconnect`, `ScanPiece`, `UncountPiece`, `TurnBack`, `RemoveNode` | the disconnect path under PEER: piece by piece, the load and the store of the `--` apart, and the test of a state and its assignment, because handlers write both under another lock |

`wire` holds the blocks asked of a connection and not yet answered, `disk` the blocks whose bytes
are right: a hash matches exactly when all blocks of the piece are in it. `loaded` is what a receiver
has loaded of a count it is about to store. `Connect` leaves in `peer_pieces_state` what malloc returned (`Leftover`,
any arrays of ints): until the bitfield is read, and for pieces it does not name for ever, the client goes by that.

`amiss` records two things the code does nothing against, and only before the end game; no action
reads it. `misread`: the requester chose a peer for a piece that this peer did not announce, or a disconnect
goes by such a record. `early`: the hash of a piece matched while blocks of it were still to come,
because the file had them already. Each property of that phase names those of the two that break it.

`PieceRequest`. The locals of `request_a_piece`; one step per iteration of its loop.

`Connection`. `state` is the state of the other client's entry in the current tracker response
(ABSENT without one), `pool` the pool, `thread` what thread of a client is at a connection, and
`current` the receivers whose `peerData` points into the current response. PEER is held for all of
`peer_connect`, `peer_accept`, the pool part of `handshake_handler` and the disconnect path, so each
is a step. `Respond` is the announce of the main thread, after which all entries are new. The
code frees no old response, so a receiver's stale `peerData` writes to memory nobody reads.

`Exchange`. `chan[x]` holds the messages of x that the other has not read; `disk` and
`pieces_state_arr` are each client's file and piece states, the flags and `peer_pieces_state` are
those of the `peer_t` it has for the other, which starts with whatever malloc returned
(`Starts`). `told` and `guessed` are recorded and read by no action: the pieces a client was told that the other
has, and those it asked for without having been told. Names of flags are the code's: `peer_choking[x]` is
whether x chokes the other (1) and `am_choking[x]` whether x believes itself choked.

| actions | code |
| --- | --- |
| `SendBitfield` | `send_bitfield` at the start of `message_handler` |
| `HandleUnchoke`, `HandleInterested`, `HandleHave` | the handlers of these names, with the answers they send |
| `HandleBitfield`, then `NotePiece` and `GreetPiece` per piece | `handle_bitfield`: the requester may use a piece as soon as `peer_have_piece` has recorded it, before interest is shown |
| `HandleRequest`, then `SendPiece` | `handle_request`, which holds FILE until the block is in the socket |
| `HandlePiece` | `handle_piece` when a piece is whole, with `send_have` |
| `Ask`, `SendRequest`, `BookRequest` | `send_interest`, the REQUEST, and the booking after it by the requester, which takes no FILE lock: messages of the receiver may come in between |
| `AskElsewhere`, `Gain`, `LoseElsewhere` | the same client with its other peers, and FILE held by their receivers |

The code never sends CHOKE, NOT_INTERESTED or keep-alives (`send_choke` and `send_notinterested`
have no caller), and the receiver of a CANCEL does nothing, so the model has none of them.
`handle_have` shows interest but does not record that the peer has the piece, and neither does the
model: a piece announced only by HAVE is never asked of that peer.

`Startup`. `main` is where the main thread is: each value names a point between two calls of
`main`, or of the signal handler, which runs in it. `heard` is what the tracker was told,
`disk`, `asked` and `conn` are what the receivers and the requester know independently of the
arrays.

| actions | code |
| --- | --- |
| `Listen`, `InstallHandler` | `make_listen_port`, the thread of `port_listen`, the tracker's address, `signal` |
| `Announce`, `AnnounceFails` | the request of the loop: `event` is -1 afterwards whether or not it was sent |
| `Respond`, `Refuse` | `preprocess_tracker_response`, `get_tracker_data`; a response other than `200 OK` makes the first return NULL, which `main` reads through |
| `InitPiecesStateArr`, `InitPiecesNumInPeers`, `CreateRequestFileThread`, `PeerConnect`, `Wake` | the rest of the loop, once per response |
| `Accept`, `HandleBitfield` | `peer_accept` as far as it reads the response, the handshake and `handle_bitfield` as far as they read the arrays |
| `Request`, `HandlePiece` | the requester and the receivers as far as they change what the main thread initialised |
| `SendStopped`, `CloseFiles`, `Exit`, `Killed` | `client_shutdown`, and SIGINT before it is installed |

`FileStore`. The stream has a `position` (the block that begins there), a `buffer` of at most one
block, which the next fseek gives to the kernel, and `kernel`, the blocks that are right in the
file below. `at[t]` is where thread t is between two calls of stdio, `job[r]` what receiver r does
under FILE, `cursor` and `bits` are the locals of `gen_bitfield`, `bitfield` is `globalInfo.bitfield`, which
every call of it replaces.

| actions | code |
| --- | --- |
| `OpenFile`, `ExtendFile` | `createfile`: a file that is new is made as long as the torrent |
| `Respond`, `InitPieces` | the first response, and `init_pieces_state_arr`, which hashes the file in the main thread without FILE |
| `GenBitfield(t)` | `gen_bitfield`: fseek, then fread and the comparison, piece by piece |
| `SendBitfield`, `SayBitfield` | `send_bitfield`, which computes a bitfield and sends `globalInfo.bitfield` |
| `HandleRequest`, `SeekBlock`, `ReadBlock` and `HandlePiece`, `SeekBlock`, `WriteBlock`, `CheckPiece` | `handle_request` and `handle_piece`, with the fseek of `get_block` and `set_block` apart from the fread or fwrite |
| `Ask`, `Connect`, `Lose`, `Disconnect` | the requester, connections, and the disconnect path, as far as they say which block comes next |
| `Killed`, `Shutdown` | the process ends with or without what is in the buffer, and may start again from the file |

`Wire`. `work[t]` holds the calls of `Send` a thread has yet to make, `wire` the bytes in the socket buffers, `at`,
`got`, `len` and `needs` where the reader is. Each message is kept as the bytes its fields have.

| actions | code |
| --- | --- |
| `SendBitfield`, `ShowInterest`, `SendPiece`, `SendCancel`, `SendHave` | what is sent under FILE, by the receiver of the connection and by others (`send_have`) |
| `HandleInterested`, `RequestPiece` | what is sent without FILE |
| `Write` | one `send()` of the loop of `Send`: as much as fits |
| `Receive`, `EndOfFile`, `RecvFails` | one `recv()` of the loop of `Recv`, and what `message_handler` does with its result |
| `Close`, `Reset` | the connection ends with or without what is in its buffers |

What a thread has to say, and when, is the input: `Exchange` and `Download` are about that. Two
recorded facts, `sent` and `crossed`, say in which order messages began and whether a writer without the
lock met another in the middle of one.

`Bencode` and `Metainfo`. The recursion of `_be_decode` is a stack; a number, a key and a character are
one byte each. A string that is cut short becomes a node without a string (`CutString`), as in the code,
and its length is then 0 for `be_str_len`. `Heap` is what may lie behind an array: `parsetorrentfile` copies the
name without its zero and then up to the first zero it meets (`Named`), and writes a zero behind the announce url
one byte beyond what it allocated, after which the model lets the process go on or end. Each disjunct of `Next`
is an entry of a dictionary that the parser looks at. An input is a
tree of `Nodes`, encoded by the reference `Encode`, with what follows it, how much of it came and whether its
length was announced. `Depth` says how deep each tree is nested, which is what the recursion of `Encode` and of
the proofs goes by.

## What each run checks

| run | instance | what it shows |
| --- | --- | --- |
| `piece_window` | 5 slots, up to 6 duplicate releases | The pair of macros is a counting semaphore of five slots (`ImplementsWindow`); a requester sleeps only when a release is to come, and is woken (`GetsItsSlot`). |
| `piece_window_race` | 5 slots, the macros instruction by instruction, 2 threads releasing | **Violated**: a lost update leaves the requester blocked with nothing in flight. |
| `download_steady` | 4 pieces of 3 blocks, 2 peers that stay, window of 2, from an empty and from a partial file | The download ends (`Completes`). |
| `download_churn` | 3 pieces of 2 blocks, 2 peers of which one may leave at any point, window of 1, torn blocks, zero and leftover memory, an empty file and one with a last block right | A piece marked complete is whole (`CompletedIsWhole`) and stays complete; what the requester chose is still wanted when it asks; nothing is asked twice before the end game; `rest_pieces_num` never overstates and is exact until a peer leaves (`RestExact`); `have_pieces_num` counts each complete piece once (`HaveExact`); the requester uses the window as `Window` allows. Each but for what `amiss` names in it. |
| `download_lost_block` | 1 piece of 3 blocks, 3 seeds that stay | **Violated**: the end-game walk re-marks a piece that is being received; the last piece is never complete. |
| `piece_request` | piece lengths 1 to 12, sizes 1 to 30 | The four ranges are disjoint, within piece and file and, for piece lengths divisible by four, cover what is hashed. |
| `connection` | 2 clients, each told or not of the other, 2 connections, 1 loss | A client serves a peer on one connection; an established connection is given up only when lost; the two sides do not disagree for ever; a client alone in knowing the other is connected in the end. |
| `exchange` | 2 clients, 4 pieces, three distributions of them with zero memory and one with leftover memory in one client or both, another peer that has the last piece, room for 1 block each way | No request is dropped for choking (`NeverTurnedDown`); what is announced is on disk, and what is served is right unless a misled client asked for it (`NothingFalse`); both sides agree on who is choked; what the bitfield announced is fetched (`Fetched`), unless both clients wait for each other with blocks in both directions. |
| `startup` | 3 pieces, new, partial or whole file, 2 peers, 3 announces and 1 that fails, SIGINT at any point | The tracker hears `started` at most once and first, and nothing after `stopped`; states, counts and the rest to request are what receivers and requester made them, however many responses come; only a peer that comes before the set-up is complete meets NULL (`NullOnlyEarly`); a failed announce is tried again until the requester runs. |
| `file_store` | 2 pieces of 2 blocks, 2 receivers, any file this program may have left, 2 kills, shutdowns or lost connections | Nothing comes between fseek and fread or fwrite of a receiver (`SeeksHold`); a piece a peer was told of is whole whatever happens (`OnlyMissedLost`); what is whole is known (`NothingForgotten`); the file behaves as `Store`. All but the first except for pieces the main thread missed because an early peer moved the position under it. |
| `metainfo` | torrent files with every choice of 6 info keys and 4 root keys, with and without a newline at the end; responses with every choice of 5 keys and 4 kinds of peer list, cut at every place | Decoding inverts encoding (`DecodesWhole`); nothing of a response that is cut short is used (`CutIsNotParsed`); the fields and the hash are the right ones under exactly the conditions the properties state, the name with what the heap holds behind it. |
| `wire` | 2 of 3 writers, each with one thing to say after the bitfield; ints of 2 bytes, 4 bytes of buffer | What is handled is what was sent, in order (`HandledAsSent`), unless a writer without FILE wrote into a message; a message cut short lacks bytes of its last field only (`TornInLastField`); reader and writers never wait in vain (`Delivered`). |

The runs marked violated check what a comment of the code says; PROJECT.json quotes it under
`findings`. More that was met while modelling, and that the properties of the other runs allow for:

- Two clients that serve each other blocks while the sockets are full in both directions wait for each
  other for ever: the threads that would read are the ones that send (`WaitForEachOther` in
  `Exchange`, which TLC reaches).
- Two clients that connect to each other at once refuse each other, leave both connections open and
  are connected only by a later response.
- In the end game the walk marks a complete piece as requested again, and the short last block of a lost
  connection may then be written over it.
- A writer without FILE (the requester, `handle_interested`) may write into the middle of a message:
  the reader then takes bytes of one message for lengths of another (`crossed` in `Wire`, which TLC
  reaches). The bitfield is not exposed to it, the blocks are.
- The first response makes the main thread hash the file while receivers of early peers use the
  same stream: it may miss a whole piece, which is then asked for again, and a torn block of it
  damages the piece.
- `pool_add_peer` does not clear `peer_pieces_state`. With memory that is not zero a client asks a peer for
  what it never announced, and `handle_request`, which does not look whether it has the piece, serves
  bytes that are not the piece (`misread` in `Download`, `guessed` in `Exchange`). A disconnect then
  turns back a piece that was asked of another peer.
- A file of another origin, or one left in the end game, may have the last block of a piece and not
  those before it. The piece is then complete before all its blocks have come, and each
  of the others gives its slot back once more and is counted in `have_pieces_num` (`early`).
- The count of peers that have a piece may lose an update between `handle_bitfield` (FILE) and a
  disconnect (PEER), for good; with a count of zero the piece is not asked for.
- The name of the file has no zero behind it: `flist.filename` may go on with what the heap holds there, and
  a restart may then not find the file.
- `client_shutdown` closes the FILE and sleeps for a second while receivers go on using it.
- `parsetorrentfile` and `get_tracker_data` compare keys by prefix: `announce-list`, `name.utf-8` and `peers6`
  are taken for `announce`, `name` and `peers`. The info hash is the right one only if `info` is
  the last key and no byte follows the file's last. An empty list of peers, or one of dictionaries, ends the
  client. A response cut short after its Content-Length was read makes the decoder allocate for ever.
- `message_handler` ends without closing its descriptor; `g_downloaded` grows with every call of
  `gen_bitfield`, so the number the tracker is told is not what was downloaded.

Two more observations come from arithmetic alone: a quarter of a piece of more than
512 KB is longer than the 2^17 bytes that l.506 of `peer_wire.c` calls the most a request may ask
for, and the remainder of a piece length that four does not divide is never requested, so that piece
never matches its hash.

### Bounds

- Window: the code's 5 slots in the window's own runs. `Download` uses 2 or 1 and `MinRest` 1 (the code:
  5 and 5), so that with four or three pieces the window is full, the requester sleeps, the normal phase
  and the end game both have pieces to request. The proofs hold for every value.
- `Conns` of the downloads: two suffice for stale choices, node removal at the head and behind it
  and duplicate requests; the lost block needs a third peer, which `download_lost_block` has.
- `Leftover` of `Download`: zeros, or a first piece that looks requested from the peer, which is what misleads the
  requester and the disconnect path alike. `Completes` is checked with zeros, as it is with peers that stay.
- `InitialBlocks`: an empty file, the first block of each piece (a client that was stopped), the last block
  of one piece (another origin).
- Each connection exists once (no descriptor is used again), a peer holds a fixed set of pieces.
- `MaxSurplus`, `MaxCount`, `MaxInFlight`: duplicate releases and counter values in the window
  models; more than the window has slots, so that the counter passes zero and the limit both ways.
- `MaxLosses`: connections lost or not made. One is enough to cut a connection at every point.
  `Conns` of `Connection`: 2, so both clients may try at once, or one connect again while the other
  still serves. A number is used again once both are through with it; the real process leaks the
  descriptor of each connection refused or lost, which the bound hides.
- `Exchange`: 4 pieces let a client ask for one, be sent another and gain the last elsewhere, and let
  both clients have a second request to serve while one block in each direction is on its way
  (`Room`), which the deadlock needs. With more room it needs more pieces. `Starts` and `Elsewhere` name
  the distributions and the memory: with leftover memory a piece of the other seems to be there and one
  it has not to have been requested. The proofs hold for all.
- `Startup`: three announces are one before the arrays exist, one that finds all of them and one that
  finds them changed; the one that fails may be any of them. Two peers may come early, late or be
  connected to. Three pieces may be here, asked for and missing at once. One SIGINT: a second
  one would find the first in its handler.
- `FileStore`: two pieces and two blocks are enough for a piece that is hashed while the other is
  written, a position that is between them, and a piece half written. `MaxFaults` 2: a lost
  connection, a restart and another one in either order. The proofs hold for every value.
- `Metainfo`: one key each of those the parsers know, those that begin like them and those they skip;
  `Heap` is nothing or something; `MaxItems` is the memory a decoder that never ends may take before it is stopped.
- `Wire`: ints of two bytes are torn as ints of four are; the buffer is smaller than most messages, so a Send
  is interrupted in the header, between fields and in a block. Two writers meet, and a third would do
  nothing to them that the second does not.
- `Leftover` of `Connection`: what malloc left in the state of an entry. 0 and another value; with 1
  in every response the entry would look connected and never be tried.

### Deadlock

`CHECK_DEADLOCK FALSE` is set where the system may stop: a download ends and its threads wait for
messages that do not come, in `Exchange` too; `PieceRequest` returns; two clients that refused each other wait; the
race model stops at its bounds; `Startup` ends with the process, `FileStore` when no fault and no request is left,
`Metainfo` when the parser is through, `Wire` when all is said or the connection is over. `PieceWindow` and
`connection` are checked for deadlock.

### Fairness

`FairSpec` assumes weak fairness of each thread of the process, which the scheduler gives, and of
remote peers that answer what they were asked (`Receiver` includes the arrival of an answer) and do
connect. No strong fairness is assumed of the mutexes: the properties that hold do so without it,
and the violated ones are not cases of a thread that never gets a lock. Nothing forces a peer to leave or a
connection to be lost. In `Exchange` the
other peers deliver what they were asked for or leave, as TCP reports in the end. In `Wire` the writers and
the reader run; that the reader is not itself waiting to send is `Exchange`'s part. In `Connection`,
weak fairness of `Respond` and `PeerConnect` says that the main thread announces for ever.
`Startup` assumes weak fairness of the main thread and that the tracker is reached after at most
`MaxFailures` failures and answers or refuses; peers, receivers and SIGINT owe nothing.

## What is proved

TLAPS checks every leaf. The theorems hold for all values of the constants, under the named
assumptions of the modules that declare them (natural numbers, subsets).

- `RequestProofs`, of `PieceWindow`: `TypeCorrect`, `CounterCorrect`, `WindowRespected`, `NoIdleSleep`,
  `Refinement`. The inductive invariant is `Shape` (types, and that the mutex is locked when someone
  sleeps on it) with `CounterExact`, `WindowBound` and `SleepsOnlyWhenFull`: none is inductive alone,
  since the mutex may be released only when the counter tells the truth. Of `PieceRequest`:
  `RequestsDisjoint`, `RequestsWithinPiece`, `PieceCovered`. The invariant says the ranges sent so far lie
  below `begin` and fill it: `Progress` ties `begin` to the iteration.
- `DownloadProofs`, for every number of pieces, blocks, slots and peers, whoever connects and leaves when,
  whatever malloc returns, whatever file is there at the start, blocks torn or not:
  - `TypeCorrect`: the type invariant is inductive, with where each thread is tied to what it stands on.
  - `NormalCorrect`: the invariants `Course` of all phases (`Phases`: which thread may be where in which phase;
    `Silent`: nothing is on its way from a peer that is not served) and `Normal` of the phase before the
    end game, as long as no peer was misread. From it follow `ChosenCorrect`, `AskedOnceCorrect`,
    `RestNeverOverstatesCorrect`, `RestCorrect`, `CompletedStaysCorrect`; and, as long as no piece was complete
    early either, `HaveExactCorrect`, `UsesWindowCorrect` and `WindowKeptCorrect`: at most `WindowCap`
    pieces are requested at a time and the counter of the macros counts them.
    `Owners`: every piece that is requested has one owner (`OneOwner`): the wire of one connection with
    the receiver behind it, the requester that is about to send or to book it, or the disconnect that is
    about to turn it back; a piece that is wanted has none (`WantedIsFree`), and so what the requester chose
    is still wanted (`Chosen`). No disconnect finds a piece to turn back before it is booked
    (`NotYetBooked`), and what a disconnect tested under PEER is still so when it assigns, although receivers
    write the states under FILE, because the piece is its own (`TurnedBack`). A disconnect goes by what
    its peer announced (`HeardOnly`), which is where a misread peer would break it. The counts of peers
    are nowhere in it: lost updates do no harm to these properties.
  - `CompletedIsWholeCorrect`, in all phases: a block that is written belongs to a piece that is not
    complete (`WrittenIsMissing`); without it, only a torn block takes bytes off the disk (`DiskGrows`).
  - `NeverEarlyCorrect`: no piece is complete early in a file that at the start has the last block of no piece
    that is not whole (`LastIsLast`), as an empty one is and what a client leaves that stopped before
    its end game. `Order`: the blocks of a piece are asked for and come in their order (`NoneIsSkipped`), so the
    last one comes last (`LastToCome`), a piece is whole no earlier (`LastIsLast`), and the receiver that wrote
    it sees it at once (`WholeIsSeen`). This is the only theorem with a premise.

  `Conns` is finite, as descriptors are.
- `ConnectionProofs`: `TypeCorrect`, `AtMostOneConnection`, `PoolIsServed`,
  `EstablishedConnectionStays`, for any number of connections, losses and responses. The invariant
  adds `ClosedEnded`, that no thread looks at a closed descriptor: a served connection is therefore
  not closed by its owner, and its reader sees no end of it unless the network loses it.
- `ExchangeProofs`: `TypeCorrect`, `NoRequestDropped`, `SaysTheTruth`, for any number of pieces, any
  start and any room. `Turn` says that a client that is still choked has an INTERESTED on the wire
  before each REQUEST, and one on the wire when it is about to send the next: reading the first
  INTERESTED unchokes it, so no REQUEST is ever read while it is choked. `ChanTrue` and `Knows` are
  the other argument: what is announced or told is on the disk it speaks of, and what is asked for, or
  being served, is there or was guessed. With leftover memory wrong blocks are on the way, and one
  takes its piece off the disk of the client it comes to, so it has to be shown that it is never a piece
  that is there: `Ledger` follows the request for a piece, which is to be sent, on the wire, being
  served, or answered, in one place at most (`Once`), and only while the piece is marked as requested
  and not here (`Requested`); when nothing is on its way for it (`Quiet`) a piece may be wanted,
  and only then be asked for. The lemmas `AppendCovered` and `TailCovered` say what sending and
  reading does to the order on the wire.
  `FlagsCorrect`: a client unchokes the other once and says so once, so (`Agreed`) the other is choked
  and no UNCHOKE is on its way, or exactly one is, or it was read. What a step of any kind sends
  has an UNCHOKE exactly when it unchokes (`Tells`).
- `StartupProofs`: `TypeCorrect`, `SessionOrderly`, `NothingForgotten`, `NullNotLater`, for any torrent,
  peers and numbers of announces. `OrderlySession` needs `Heard`: as long as `event` is
  BT_STARTED nothing was heard, and `stopped` was heard only if the main thread is in its handler.
  `NullOnlyEarly` and `Remembered` need `SetUp`: past each point of the loop what it sets up exists,
  and a requester, or a connection whose bitfield was counted, exists only after the arrays, so that
  the arrays a response leaves alone are the ones everybody uses.

- `FileStoreProofs`: `Invariant`, `TypeCorrect`, `SeeksHolds`, `OnlyMissedIsLost`, `NothingIsForgotten`,
  `FileImplementsStore`, for any number of pieces, blocks, receivers and faults. `Inv` is inductive as it
  stands. `Turns` says whose turn it is: at most one receiver is under FILE, the main thread does
  what only it does before peers are served by one that is not `early`. `Buffered` and `Honest` tie the
  buffer to the position and what a thread has found so far to the file; `Asked`, `InOrder` and
  `LastIsLast` say that blocks of a piece come from one peer, in order, the last one last, so that no
  block to come can be written into a piece that is whole (`NoneToCome`). `Claimed` and `Known` are the two
  directions between the file and what is said of it, and both must hold of `kernel` and of `Content` (the file
  with the buffer in it), for a kill may leave either. The refinement then only has to look at the
  steps that write.

- `WireProofs`: `StreamCorrect`, `HandledCorrect`, `TornCorrect`, for every width of an int, room in the
  buffers and content of the messages, as long as no writer without FILE met another in a message
  (`crossed`; until then one thread at a time is inside a message, `Apart`, and one that locked FILE
  still has it, `Held`). The invariant is about one string of bytes, `Stream`: what the reader has of a
  field, what is in the buffers, and what the writer in the middle of a message has left. Where the
  reader is (`ReaderAt`: before a length, before an id, before field j) says which encoded messages
  that string is the rest of; so reading takes its first bytes, sending moves bytes inside it, and
  beginning a message appends one to it and to `sent`. After a connection is lost only what was
  handled matters (`Dead`, `LastTorn`). The lemmas in front are about the data: that the value of an int in
  network order is the int, what the fields of a message amount to, that a string has one first part
  of a given length. The inductions they need are done with `Climb`, which states induction up to n as a fact
  about sets of numbers and is proved with the pigeonhole principle.

- `MetainfoProofs`, for every set of trees, nested as deep as they may be, and every input that is encoded from
  them, cut anywhere and with anything behind it: `DecodeInvariance`, `WholeIsDecoded`, `CutIsRefused`,
  `FieldInvariance`, `ResponseIsRead`, `FileIsRead`, `InfoIsHashed`.
  - `DecodeInv`. A frame of the stack by itself says nothing of what is still to come, so the invariant names
    the path of nodes from the document down to the one that is read (`Trail`): each open list or
    dictionary is a node of it, its frame holds the items that are done (`Holds`), the next node of the
    path is the item after those (`Link`), and each stands in the text where the items before it end
    (`Sound`). The decoder reads at the beginning of the node (`Pending`), between two of its items (`Filling`)
    or behind it (`Returned`). If what came was cut, it goes on like that to the cut and then reads zeros
    (`Past`), where nothing is ended: no call returns to a caller that uses what it got. An item that is
    empty is not in any frame, because the client ended there.
  - `FieldInv` says what the loops over the entries have done when they are at entry i of the root and j of
    info (`FileRead`, `ResponseRead`): each field is that of the entry with its key, if there was one before
    that place, and `filled` counts the necessary ones. When the loops are through, all keys have been seen;
    that there are no two of a kind makes `filled` 5 exactly if all five are there.
  - `InfoIsHashed` needs where info's value stands in the text: behind the first `info` and `d`, as `strstr` finds
    it, and up to the last byte but one exactly if info is the last entry.

  `Encode` and `HasEmpty` are functions over the trees, defined by recursion. That there are such functions,
  and one only, is proved (`Recursion`, `Unique`) from the depth of the trees and `Climb`, as is what
  `FlattenSeq` of the community modules computes (`Joins`).

What these theorems assume of the inputs is what the formats say, and is named in the modules.
`BencodeAssumption`: the trees have a depth, the length of a string is a byte that `Value` knows (a number is
one byte in this model), no list or dictionary has more items than there is memory for, and a response that
announces its length is one dictionary. `MetainfoAssumption`: a key is one byte and none is there twice, the
values of the keys the parser knows have the types of the format, `pieces` comes after the lengths (keys are
sorted), a list of peers as a string has six bytes for each, a torrent file is whole, what the heap holds is a
string, and the bytes of
`info` before a `d` occur once in it. The last is needed: `strstr` takes the first it finds, in a file name or
among the hashes of the pieces if it comes there before. What `parsetorrentfile` does with values of
another type is in the model, and so is a root that is no dictionary; the assumption leaves such values out
of the theorems about fields.

Only model-checked: all liveness (`Completes`, `GetsItsSlot`, `SidesAgree`, `KeepsTrying`, `Fetched`,
`RequesterRuns`, `Delivered`), which is out of reach of the provers. Every invariant, action property and
refinement of the passing runs is stated by a theorem.

## What the checks leave open

- `Completes` is checked with peers that stay. A disconnect undoes the piece state and the slot of an
  outstanding request but not `rest_pieces_num`, so with peers that leave, the requester may leave
  its loop too early and spin at l.706 of `peer_wire.c` for ever; `RestNeverOverstates` is the
  part that holds.
- What `Download` says of the phase before the end game holds until a peer is misread because of leftover
  memory, and for the window and `have_pieces_num` until a piece is complete early; what the code does
  after that is in the model, and `CompletedIsWhole` is about it as long as no block is torn. Nothing is said
  of `pieces_num_in_peers`, which neither leftover memory nor lost updates leave exact.
- Nothing is said of the piece that stays requested when its peer leaves before it is booked, or when it was
  claimed in the end game by a peer that leaves: `Completes` has no leavers.
- `Connection` says nothing of what two crossing attempts come to, nor when a CONNECT without a
  connection behind it goes away: a later response brings new entries.
- `FileStore` is about the phase before the end game and files this program left: with another file the last
  block of a piece may be right while earlier ones are to come, and the piece is then complete before
  they are. Whether `fopen` finds the file is not in it: a failure ends the process.
- `Exchange` takes a piece for one block, and the window, the counters and the end game are only in
  `Download`. Its `Send` is indivisible; `Wire` says under which condition that is so. Messages without a
  block always fit.
- `Wire` does not continue with what a garbled stream makes the handlers do, and its bytes are below
  128, so no length is negative.
- `NullOnlyEarly` says when a peer can meet NULL, not that none does: in the model as in the code a
  peer that connects between `pthread_create` of the listener and the first response ends the client.
- A first announce that fails takes `started` with it: the tracker then hears requests without an event
  only. `OrderlySession` is the part that holds.
- What writing to the closed FILE does, when a block arrives during the handler's `sleep(1)`, is not
  defined; the model lets the process end or the block be lost. A SIGPIPE before `ignore_sigpipe`
  and a SIGINT taken by another thread than main are left out.

## Not modelled

Remote peers, sockets, the tracker and the network are external: modelled from what this code does
with them. Not modelled: SHA-1 (a hash matches when the bytes are right), address and string
helpers, the framework's sample client, the text of tracker requests. Allocation (but for the decoder's) and
`pthread_create` succeed. The walk of `send_have` over nodes that are being freed is left out: it changes no
state of the client; the walk of the end game, which does, is in `Download`. A CHOKE, NOT_INTERESTED or unknown
message comes only from other programs. The order in which the C memory model lets other threads see plain writes
is not modelled beyond the lost updates of `PieceWindowRace`.

## Plan

Done: window, download, ranges, connections, exchange, start-up and shutdown, file store, torrent file and
tracker response, wire. Open, in this order:

1. What the end game keeps of `Owners`: which of the duplicate requests of a piece may still be on their way.
2. Peers of another make in `Exchange`: CHOKE and NOT_INTERESTED, and requests of what was not announced.
3. Descriptors that are used again while an end-game claim still names them.
4. Small messages that wait for room behind a block in `Exchange`.

At most twelve runs are kept, so that the whole project can be checked again in one go: for a new
module, a run whose question the theorems have come to cover makes room.

Composition: `Download` is built on `PieceLock` and stands for the piece states wherever the other
modules need them; `Exchange` takes an established connection as `Connection` leaves it, and both use
the pool one node at a time; `FileStore` has the `disk` of `Download` as what the kernel and the stream hold,
and `Wire` the messages of `Exchange` as bytes.
