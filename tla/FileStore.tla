------------------------------ MODULE FileStore ------------------------------
(***************************************************************************)
(* The file of the torrent, under one FILE stream of stdio: made or opened *)
(* at start (createfile), hashed piece by piece (gen_bitfield) at start,   *)
(* with the first response, for every bitfield sent and after every block, *)
(* read for requests (get_block) and written (set_block).  Each of these   *)
(* is an fseek and then an fread or an fwrite: receivers make them under   *)
(* FILE, the main thread under no lock.  What fwrite takes stays in the    *)
(* stream until the next fseek, and is lost with the process.              *)
(*                                                                         *)
(* The process may be killed and started again: the file then has what the *)
(* kernel was given.  Different pieces have different hashes.  The phase   *)
(* is the one before the end game, in which a piece is asked of one peer   *)
(* at a time (Download's AskedOnce) and its blocks come in order.          *)
(***************************************************************************)
EXTENDS Integers, FiniteSets

CONSTANTS
  NumPieces, NumBlocks,   \* of the torrent, and of a piece
  Receivers,              \* the threads of connections
  Files,                  \* what may be right in the file at first
  MaxFaults               \* bound on ends of the process and lost connections

Pieces == 0 .. NumPieces - 1
Blocks == Pieces \X (1 .. NumBlocks)
Threads == Receivers \cup {"main"}

NoOne == "nobody"

\* The file was left by this program: the last block of a piece to come is the
\* last one.
ASSUME FileStoreAssumption ==
  /\ NumPieces \in Nat \ {0} /\ NumBlocks \in Nat \ {0}
  /\ "main" \notin Receivers /\ NoOne \notin Receivers
  /\ MaxFaults \in Nat
  /\ Files \subseteq SUBSET Blocks
  /\ \A f \in Files : \A i \in Pieces :
       <<i, NumBlocks>> \in f => {i} \X (1 .. NumBlocks) \subseteq f

\* mytorrent.h
PIECE_REQUESTING == 0
PIECE_COMPLETED  == 1
PIECE_HAVNT      == 2

NoBlock == <<-1, 1>>

VARIABLES
  main,       \* the main thread: "down", "opening", "checking", "loading", "ready"
  extent,     \* the file: "absent", "empty", or "full", of the torrent's size
  kernel,     \* the blocks that are right in the file
  buffer,     \* the block the stream has not given to the kernel; is it right
  position,   \* of the stream: the block that begins there
  bitfield,   \* globalInfo.bitfield
  pieces_state_arr,
  at, cursor, bits,    \* where a thread is; the piece and the result of gen_bitfield
  job, target, early,  \* what a receiver does under FILE, with what block, and
                       \* which of them began before the main thread was ready
  link,       \* connections: "none", "new", "up", "torn" in a block, "lost"
  asked,      \* whom a piece was asked of, if its connection is still there
  next,       \* the next of its blocks to come
  said,       \* the pieces the process has ever said it has
  missed,     \* whole pieces the main thread did not see
  faults

stream == <<extent, kernel, buffer, position>>
genVars == <<cursor, bits, bitfield>>
jobVars == <<job, target, early>>
netVars == <<link, asked, next>>
history == <<said, missed, faults>>
vars == <<main, stream, pieces_state_arr, at, genVars, jobVars, netVars, history>>

WholeIn(blocks) == {i \in Pieces : {i} \X (1 .. NumBlocks) \subseteq blocks}

InState(state) == {i \in Pieces : pieces_state_arr[i] = state}

NoBuffer == [block |-> NoBlock, right |-> FALSE]

Init ==
  /\ main = "down"
  /\ \/ extent \in {"absent", "empty"} /\ kernel = {}
     \/ extent = "full" /\ kernel \in Files
  /\ buffer = NoBuffer /\ position = <<0, 1>>
  /\ pieces_state_arr = [i \in Pieces |-> PIECE_HAVNT]
  /\ at = [t \in Threads |-> "rest"]
  /\ cursor = [t \in Threads |-> 0] /\ bits = [t \in Threads |-> {}] /\ bitfield = {}
  /\ job = [r \in Receivers |-> "none"] /\ target = [r \in Receivers |-> <<0, 1>>]
  /\ early = {}
  /\ link = [r \in Receivers |-> "none"]
  /\ asked = [i \in Pieces |-> NoOne] /\ next = [i \in Pieces |-> 1]
  /\ said = {} /\ missed = {} /\ faults = 0
-----------------------------------------------------------------------------
(***************************************************************************)
(* The stream and the loops over it.                                       *)
(***************************************************************************)

\* The file with what is in the buffer: what fread reads, and what the kernel
\* has after the next fseek or fclose.
Content == IF buffer.right THEN kernel \cup {buffer.block} ELSE kernel \ {buffer.block}

SeekTo(b) == /\ position' = b
             /\ kernel' = Content
             /\ buffer' = NoBuffer
             /\ UNCHANGED extent

After(b) == IF b[2] = NumBlocks THEN <<b[1] + 1, 1>> ELSE <<b[1], b[2] + 1>>

\* fwrite: the block lands where the stream stands.
WriteAt(b, right) == /\ buffer' = [block |-> position, right |-> right /\ position = b]
                     /\ position' = After(position)
                     /\ UNCHANGED <<extent, kernel>>

Goto(t, from, to) == at[t] = from /\ at' = [at EXCEPT ![t] = to]

\* list_get_piece for the next piece, of gen_bitfield: fseek ...
SeekPiece(t) ==
  /\ Goto(t, "seek", "read")
  /\ SeekTo(<<cursor[t], 1>>)
  /\ UNCHANGED <<main, pieces_state_arr, genVars, jobVars, netVars, history>>

\* Slip: the hash is not compared.
AnyPiece(t) == {cursor[t]}

\* The hash matches if the bytes read are those of the piece, all right.
Matching(t) == IF position = <<cursor[t], 1>> THEN {cursor[t]} \cap WholeIn(Content) ELSE {}

\* Slip: the last piece is not looked at.
LastButOne(t) == cursor[t] >= NumPieces - 2

LastPiece(t) == cursor[t] = NumPieces - 1

\* ... and fread and the comparison.
ReadPiece(t) ==
  /\ Goto(t, "read", IF LastPiece(t) THEN "found" ELSE "seek")
  /\ bits' = [bits EXCEPT ![t] = @ \cup Matching(t)]
  /\ cursor' = [cursor EXCEPT ![t] = @ + 1]
  /\ position' = <<position[1] + 1, 1>>
  /\ UNCHANGED <<main, extent, kernel, buffer, pieces_state_arr, bitfield, jobVars, netVars,
                 history>>

\* globalInfo.bitfield = gen_bitfield(...); its locals are gone.
SetBitfield(t) ==
  /\ Goto(t, "found", "set")
  /\ bitfield' = bits[t]
  /\ cursor' = [cursor EXCEPT ![t] = 0] /\ bits' = [bits EXCEPT ![t] = {}]
  /\ UNCHANGED <<main, stream, pieces_state_arr, jobVars, netVars, history>>

GenBitfield(t) == SeekPiece(t) \/ ReadPiece(t) \/ SetBitfield(t)

\* What starts gen_bitfield in a thread, but for at.
GenStarts(t) == /\ cursor' = [cursor EXCEPT ![t] = 0]
                /\ bits' = [bits EXCEPT ![t] = {}]
                /\ UNCHANGED bitfield
-----------------------------------------------------------------------------
(***************************************************************************)
(* The main thread.                                                        *)
(***************************************************************************)

\* createfile makes the file if there is none, and opens it ...
OpenFile ==
  /\ main = "down" /\ main' = "opening"
  /\ extent' = IF extent = "absent" THEN "empty" ELSE extent
  /\ UNCHANGED <<kernel, buffer, position, pieces_state_arr, at, genVars, jobVars, netVars,
                 history>>

\* ... and, if it is too short, writes its last byte; gen_bitfield begins.
ExtendFile ==
  /\ main = "opening" /\ main' = "checking"
  /\ extent' = "full"
  /\ Goto("main", "rest", "seek") /\ GenStarts("main")
  /\ UNCHANGED <<kernel, buffer, position, pieces_state_arr, jobVars, netVars, history>>

\* The first response: peers may now be served, and init_pieces_state_arr hashes
\* the file again.
Respond ==
  /\ main = "checking" /\ main' = "loading"
  /\ Goto("main", "set", "seek") /\ GenStarts("main")
  /\ UNCHANGED <<stream, pieces_state_arr, jobVars, netVars, history>>

\* It sets the states by globalInfo.bitfield, whoever set that last.
InitPieces ==
  /\ main = "loading" /\ main' = "ready"
  /\ Goto("main", "set", "rest")
  /\ pieces_state_arr' = [i \in Pieces |-> IF i \in bitfield THEN PIECE_COMPLETED
                                                          ELSE PIECE_HAVNT]
  /\ missed' = missed \cup (WholeIn(Content) \ bitfield)
  /\ UNCHANGED <<stream, genVars, jobVars, netVars, said, faults>>

Main == OpenFile \/ ExtendFile \/ Respond \/ GenBitfield("main") \/ InitPieces
-----------------------------------------------------------------------------
(***************************************************************************)
(* Receiver r.                                                             *)
(***************************************************************************)

\* Slip: LOCK_FILE does not wait.
NoLock == TRUE

FileFree == \A r \in Receivers : job[r] = "none"

Starts(r, kind, b, where) ==
  /\ FileFree
  /\ job' = [job EXCEPT ![r] = kind]
  /\ target' = [target EXCEPT ![r] = b]
  /\ early' = IF main = "ready" THEN early ELSE early \cup {r}
  /\ Goto(r, "rest", where)

Ends(r, from) == /\ Goto(r, from, "rest")
                 /\ job' = [job EXCEPT ![r] = "none"]
                 /\ target' = [target EXCEPT ![r] = <<0, 1>>]
                 /\ early' = early \ {r}

\* A peer connects, or is connected to.
Connect(r) ==
  /\ main \in {"loading", "ready"}
  /\ link[r] = "none" /\ link' = [link EXCEPT ![r] = "new"]
  /\ UNCHANGED <<main, stream, pieces_state_arr, at, genVars, jobVars, asked, next, history>>

\* send_bitfield computes the bitfield ...
SendBitfield(r) ==
  /\ link[r] = "new"
  /\ Starts(r, "bitfield", target[r], "seek")
  /\ GenStarts(r)
  /\ link' = [link EXCEPT ![r] = "up"]
  /\ UNCHANGED <<main, stream, pieces_state_arr, asked, next, history>>

\* ... and sends globalInfo.bitfield.
SayBitfield(r) ==
  /\ job[r] = "bitfield" /\ Ends(r, "set")
  /\ said' = said \cup bitfield
  /\ UNCHANGED <<main, stream, pieces_state_arr, genVars, netVars, missed, faults>>

\* handle_request: get_block of a block the peer was told of ...
HandleRequest(r) ==
  /\ link[r] = "up"
  /\ \E b \in Blocks : b[1] \in said /\ Starts(r, "request", b, "locate")
  /\ UNCHANGED <<main, stream, pieces_state_arr, genVars, netVars, history>>

\* ... which begins with fseek, as set_block does ...
SeekBlock(r) ==
  /\ Goto(r, "locate", "block")
  /\ SeekTo(target[r])
  /\ UNCHANGED <<main, pieces_state_arr, genVars, jobVars, netVars, history>>

\* ... and ends with fread; the block is sent.
ReadBlock(r) ==
  /\ job[r] = "request" /\ Ends(r, "block")
  /\ position' = After(position)
  /\ UNCHANGED <<main, extent, kernel, buffer, pieces_state_arr, genVars, netVars, history>>

\* handle_piece: the next block of a piece asked of the peer comes, whole, or cut
\* short by the end of the connection, and is passed to set_block ...
HandlePiece(r, torn) ==
  /\ main = "ready" /\ link[r] = "up"
  /\ \E i \in Pieces :
       /\ asked[i] = r /\ next[i] <= NumBlocks
       /\ Starts(r, "piece", <<i, next[i]>>, "locate")
       /\ next' = [next EXCEPT ![i] = @ + 1]
  /\ IF torn
     THEN /\ faults < MaxFaults /\ faults' = faults + 1
          /\ link' = [link EXCEPT ![r] = "torn"]
     ELSE UNCHANGED <<faults, link>>
  /\ UNCHANGED <<main, stream, pieces_state_arr, genVars, asked, said, missed>>

\* ... which writes it; the rest of a short block is whatever malloc returned.
\* gen_bitfield begins.
WriteBlock(r) ==
  /\ job[r] = "piece"
  /\ Goto(r, "block", "seek") /\ GenStarts(r)
  /\ WriteAt(target[r], link[r] # "torn")
  /\ UNCHANGED <<main, pieces_state_arr, jobVars, netVars, history>>

\* The piece is complete, and every peer is told, or there are blocks to come.
CheckPiece(r) ==
  /\ job[r] = "piece" /\ Ends(r, "set")
  /\ IF target[r][1] \in bitfield
     THEN /\ pieces_state_arr' = [pieces_state_arr EXCEPT ![target[r][1]] = PIECE_COMPLETED]
          /\ said' = said \cup {target[r][1]}
     ELSE UNCHANGED <<pieces_state_arr, said>>
  /\ UNCHANGED <<main, stream, genVars, netVars, missed, faults>>

\* The connection is lost with all that was to come on it.
Lose(r) ==
  /\ link[r] \in {"new", "up"} /\ job[r] = "none"
  /\ faults < MaxFaults /\ faults' = faults + 1
  /\ link' = [link EXCEPT ![r] = "lost"]
  /\ UNCHANGED <<main, stream, pieces_state_arr, at, genVars, jobVars, asked, next, said,
                 missed>>

\* The disconnect path of message_handler; the reader sees the end of the
\* connection when it is through with the block it has.
Disconnect(r) ==
  /\ link[r] \in {"torn", "lost"} /\ job[r] = "none"
  /\ link' = [link EXCEPT ![r] = "none"]
  /\ pieces_state_arr' = [i \in Pieces |->
       IF asked[i] = r /\ pieces_state_arr[i] = PIECE_REQUESTING
       THEN PIECE_HAVNT ELSE pieces_state_arr[i]]
  /\ asked' = [i \in Pieces |-> IF asked[i] = r THEN NoOne ELSE asked[i]]
  /\ UNCHANGED <<main, stream, at, genVars, jobVars, next, history>>

Receiver(r) == \/ SendBitfield(r) \/ SayBitfield(r)
               \/ HandleRequest(r) \/ SeekBlock(r) \/ ReadBlock(r)
               \/ HandlePiece(r, FALSE) \/ WriteBlock(r) \/ CheckPiece(r)
               \/ GenBitfield(r)
               \/ Disconnect(r)
-----------------------------------------------------------------------------
(***************************************************************************)
(* The requester, and the end of the process.                              *)
(***************************************************************************)

\* Slip: a piece that is there is asked for.
AnyWanted(i) == pieces_state_arr[i] # PIECE_REQUESTING

Wanted(i) == pieces_state_arr[i] = PIECE_HAVNT

\* request_file asks a peer for a piece; on a connection that is lost the
\* request goes nowhere.
Request(i, r) ==
  /\ main = "ready" /\ Wanted(i)
  /\ link[r] \notin {"none", "new"}
  /\ pieces_state_arr' = [pieces_state_arr EXCEPT ![i] = PIECE_REQUESTING]
  /\ asked' = [asked EXCEPT ![i] = r]
  /\ next' = [next EXCEPT ![i] = 1]
  /\ UNCHANGED <<main, stream, at, genVars, jobVars, link, history>>

\* The process ends with the file as it is then, and may be started again.
EndsWith(blocks) ==
  /\ main # "down" /\ faults < MaxFaults
  /\ kernel' = blocks /\ UNCHANGED extent
  /\ main' = "down" /\ buffer' = NoBuffer /\ position' = <<0, 1>>
  /\ pieces_state_arr' = [i \in Pieces |-> PIECE_HAVNT]
  /\ at' = [t \in Threads |-> "rest"]
  /\ cursor' = [t \in Threads |-> 0] /\ bits' = [t \in Threads |-> {}] /\ bitfield' = {}
  /\ job' = [r \in Receivers |-> "none"] /\ target' = [r \in Receivers |-> <<0, 1>>]
  /\ early' = {}
  /\ link' = [r \in Receivers |-> "none"]
  /\ asked' = [i \in Pieces |-> NoOne] /\ next' = [i \in Pieces |-> 1]
  /\ faults' = faults + 1
  /\ UNCHANGED <<said, missed>>

\* It is killed: of what is in the buffer, and of a block larger than the buffer,
\* some may have gone to the kernel.  A right block half written over a right
\* one leaves it right, a wrong one may not.
Killed == EndsWith(kernel) \/ EndsWith(Content)

\* client_shutdown closes the file.
Shutdown == main # "opening" /\ EndsWith(Content)

Next == \/ Main
        \/ \E r \in Receivers : \/ Receiver(r)
                                \/ Connect(r) \/ Lose(r) \/ HandlePiece(r, TRUE)
                                \/ \E i \in Pieces : Request(i, r)
        \/ Killed \/ Shutdown

Spec == Init /\ [][Next]_vars
-----------------------------------------------------------------------------
TypeOK ==
  /\ main \in {"down", "opening", "checking", "loading", "ready"}
  /\ extent \in {"absent", "empty", "full"}
  /\ kernel \subseteq Blocks
  /\ buffer \in [block : Int \X Int, right : BOOLEAN]
  /\ buffer.right => buffer.block \in Blocks
  /\ position \in Int \X Int
  /\ bitfield \subseteq Pieces
  /\ pieces_state_arr \in [Pieces -> {PIECE_REQUESTING, PIECE_COMPLETED, PIECE_HAVNT}]
  /\ at \in [Threads -> {"rest", "seek", "read", "found", "set", "locate", "block"}]
  /\ cursor \in [Threads -> 0 .. NumPieces] /\ bits \in [Threads -> SUBSET Pieces]
  /\ \A t \in Threads : at[t] \in {"seek", "read"} => cursor[t] \in Pieces
  /\ job \in [Receivers -> {"none", "bitfield", "request", "piece"}]
  /\ target \in [Receivers -> Blocks]
  /\ early \subseteq Receivers
  /\ link \in [Receivers -> {"none", "new", "up", "torn", "lost"}]
  /\ asked \in [Pieces -> Receivers \cup {NoOne}]
  /\ next \in [Pieces -> 1 .. NumBlocks + 1]
  /\ said \subseteq Pieces /\ missed \subseteq Pieces
  /\ faults \in 0 .. MaxFaults

\* Once the main thread is ready, nothing comes between the fseek and the fread
\* or fwrite of a receiver: a block is read and written, and a piece hashed,
\* where it belongs.  FILE gives that to what begins under it after the main
\* thread has hashed the file; before, the two move one position.
SeeksHold ==
  \A r \in Receivers \ early :
    /\ at[r] = "block" => position = target[r]
    /\ at[r] = "read" => position = <<cursor[r], 1>>

\* A piece that any peer was ever told of is whole in the file, through lost
\* connections, torn blocks, kills and restarts; unless the main thread missed
\* it, hashing the file while an early peer moved the position: it is then
\* asked for again and a torn block may be written into it.
OnlyMissedLost == said \subseteq WholeIn(kernel) \cup missed

\* The other way: what is whole is known, but for the piece being checked.  No
\* restart fetches again what was there, unless the main thread missed it.
NothingForgotten ==
  main = "ready" =>
    WholeIn(kernel) \subseteq InState(PIECE_COMPLETED) \cup missed
                              \cup {target[r][1] : r \in {s \in Receivers : job[s] = "piece"}}

\* The file and what the process says of it behave as Store: no step damages a
\* piece that is claimed, and only what is whole comes to be claimed.
FileAsStore == INSTANCE Store WITH
  whole <- WholeIn(kernel), claimed <- InState(PIECE_COMPLETED) \ missed

ImplementsStore == FileAsStore!Spec
=============================================================================
