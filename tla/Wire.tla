-------------------------------- MODULE Wire --------------------------------
(***************************************************************************)
(* The bytes of one direction of a connection.  Three threads of a client  *)
(* write to its socket: the receiver of the connection (message_handler),  *)
(* the receivers of other connections (send_have), and request_file.  The  *)
(* first two write under the FILE lock, but for the unchoke of             *)
(* handle_interested; the requester takes no lock.  A blocking send copies *)
(* what fits the socket buffers and waits for more room, so bytes of       *)
(* another thread may come in between.  At the other end message_handler   *)
(* reads field by field, as the length and the id tell it to.              *)
(*                                                                         *)
(* What a thread has to say is an input here: Exchange and Download say    *)
(* when.  A client at either end may end at any time.  No byte             *)
(* is above 127, so an int is never negative here.                         *)
(***************************************************************************)
EXTENDS Integers, Sequences, SequencesExt

CONSTANTS
  W,          \* sizeof(int): 4 in the code
  Room,       \* bytes that fit the socket buffers
  Numbers,    \* piece numbers, offsets and lengths in use
  Blocks,     \* what blocks may hold: sequences of bytes
  Bitfield,   \* gen_bitfield's answer: x_len bytes
  Parts,      \* requests for a piece: sub_pieces_num is 4 in the code
  Errands     \* how often each thread may have something to say

Threads == {"receiver", "others", "requester"}

ASSUME WireAssumption ==
  /\ W \in Nat \ {0} /\ Room \in Nat \ {0} /\ Parts \in Nat
  /\ Numbers \subseteq 0 .. 127
  /\ Blocks \subseteq Seq(0 .. 127) \ {<<>>}
  /\ Bitfield \in Seq(0 .. 127) \ {<<>>}
  /\ Errands \subseteq [Threads -> Nat]

\* peer_wire.h; HAVE is a word of TLA+
UNCHOKE    == 1
INTERESTED == 2
HAVE_PIECE == 4
BITFIELD   == 5
REQUEST    == 6
PIECE      == 7
CANCEL     == 8

VARIABLES
  file,       \* who holds the FILE lock
  work,       \* of each thread: the Sends it has yet to make, the first maybe begun
  left,       \* of each thread: the errands it may still get
  greeted,    \* message_handler has come to send_bitfield
  wire,       \* bytes sent and not yet read
  conn,       \* "open", "closed" by the sender, or "reset"
  at, got,    \* the reader: the kind of field it is at, the bytes of it so far
  len, needs, \* the length it read, the sizes of the fields still to come
  msg, heard, \* the message so far, and those handled
  sent,       \* history: the messages in the order of their first bytes
  crossed     \* history: a thread without the lock wrote into another's message,
              \* or had its own written into

sender == <<file, work, left, greeted>>
reader == <<at, got, len, needs, msg, heard>>
vars == <<sender, wire, conn, reader, sent, crossed>>

Nobody == "nobody"

Init ==
  /\ file = Nobody
  /\ work = [t \in Threads |-> <<>>]
  /\ left \in Errands
  /\ greeted = FALSE
  /\ wire = <<>> /\ conn = "open"
  /\ at = "len" /\ got = <<>> /\ len = 0 /\ needs = <<>>
  /\ msg = [id |-> 0, args |-> <<>>]
  /\ heard = <<>> /\ sent = <<>>
  /\ crossed = FALSE
-----------------------------------------------------------------------------
(***************************************************************************)
(* Messages.  The fields of a message are kept as the bytes they are.      *)
(***************************************************************************)

\* An int in network byte order, and back.
Number(v) == [k \in 1 .. W |-> IF k = W THEN v ELSE 0]
Value(bytes) == FoldLeft(LAMBDA v, b : 256 * v + b, 0, bytes)

Message(id, args) == [id |-> id, args |-> args]
Body(m) == FlattenSeq(m.args)

Header(m) == Number(1 + Len(Body(m))) \o <<m.id>>
Encode(m) == Header(m) \o Body(m)

\* A call of Send: its bytes, the message they are of, whether a part of that has
\* been sent already, and whether the caller is under the FILE lock.
Call(bytes, m, begun, locked) ==
  [bytes |-> bytes, of |-> m, begun |-> begun, locked |-> locked]

\* Messages that are sent by one Send each.
Calls(messages, locked) ==
  [k \in DOMAIN messages |-> Call(Encode(messages[k]), messages[k], FALSE, locked)]

Unchoke == <<Message(UNCHOKE, <<>>)>>
Interested == <<Message(INTERESTED, <<>>)>>
Have(i) == <<Message(HAVE_PIECE, <<Number(i)>>)>>
Block(i, b, block) == <<Message(PIECE, <<Number(i), Number(b), block>>)>>
Request(id, i, b, l) == <<Message(id, <<Number(i), Number(b), Number(l)>>)>>

Maybe(s) == {<<>>, s}   \* what is said only if it was not said before
-----------------------------------------------------------------------------
(***************************************************************************)
(* The threads that send.                                                  *)
(***************************************************************************)

\* Slip: LOCK_FILE is left out.
NoLockFile(t) == file' = t

LockFile(t) == file = Nobody /\ file' = t

\* t has nothing to do, and the connection is not known to be gone.
Idle(t) == work[t] = <<>> /\ conn = "open"

Begin(t, calls) ==
  /\ Idle(t) /\ left[t] > 0
  /\ left' = [left EXCEPT ![t] = @ - 1]
  /\ work' = [work EXCEPT ![t] = calls]
  /\ UNCHANGED <<greeted, wire, conn, reader, sent, crossed>>

\* message_handler begins with the bitfield: two Sends under one lock.
SendBitfield ==
  /\ ~greeted /\ conn = "open" /\ LockFile("receiver")
  /\ LET m == Message(BITFIELD, <<Bitfield>>)
     IN  work' = [work EXCEPT !["receiver"] =
           <<Call(Header(m), m, FALSE, TRUE), Call(Bitfield, m, TRUE, TRUE)>>]
  /\ greeted' = TRUE
  /\ UNCHANGED <<left, wire, conn, reader, sent, crossed>>

\* handle_interested, without the lock.
HandleInterested ==
  greeted /\ Begin("receiver", Calls(Unchoke, FALSE)) /\ UNCHANGED file

\* handle_have and handle_bitfield, for a piece that is wanted: the former ends
\* with an interested more.
ShowInterest ==
  /\ greeted /\ LockFile("receiver")
  /\ \E u \in Maybe(Unchoke), i \in Maybe(Interested), h \in Maybe(Interested) :
       /\ u \o i \o h # <<>>
       /\ Begin("receiver", Calls(u \o i \o h, TRUE))

\* handle_request sends the block it was asked for.
SendPiece ==
  /\ greeted /\ LockFile("receiver")
  /\ \E i, b \in Numbers, block \in Blocks :
       Begin("receiver", Calls(Block(i, b, block), TRUE))

\* handle_piece, in the end game, tells a peer that was not the first.
SendCancel ==
  /\ greeted /\ LockFile("receiver")
  /\ \E i, b \in Numbers :
       Begin("receiver", Calls(Request(CANCEL, i, b, 1), TRUE))

\* handle_piece of another connection, which found this peer in the pool.
SendHave ==
  /\ LockFile("others")
  /\ \E i \in Numbers : Begin("others", Calls(Have(i), TRUE))

\* request_a_piece takes no lock.  request_file knows the peer's pieces only
\* once the receiver has sent its own.
RequestPiece ==
  /\ greeted /\ \A k \in DOMAIN work["receiver"] : work["receiver"][k].of.id # BITFIELD
  /\ \E i \in Numbers :
       LET Asks == [k \in 1 .. Parts |-> Request(REQUEST, i, k - 1, 1)[1]]
       IN  Begin("requester", Calls(Interested \o Asks, FALSE))
  /\ UNCHANGED file

Speak == \/ SendBitfield \/ HandleInterested \/ ShowInterest \/ SendPiece
         \/ SendCancel \/ SendHave \/ RequestPiece

\* t has written a part of a message.
Inside(t) == work[t] # <<>> /\ Head(work[t]).begun

Locked(t) == Head(work[t]).locked

Min2(a, b) == IF a < b THEN a ELSE b

\* What one send() of the loop in Send copies: all that fits.
Copied(rest) == Min2(rest, Room - Len(wire))

\* The rest of t's errand; at its end the lock is given back.
Remains(t, calls) ==
  /\ work' = [work EXCEPT ![t] = calls]
  /\ file' = IF calls = <<>> /\ file = t THEN Nobody ELSE file

Write(t) ==
  /\ work[t] # <<>> /\ conn = "open"
  /\ LET call == Head(work[t])
         n == Copied(Len(call.bytes))
     IN  /\ n > 0
         /\ wire' = wire \o SubSeq(call.bytes, 1, n)
         /\ sent' = IF call.begun THEN sent ELSE Append(sent, call.of)
         /\ Remains(t, (IF n = Len(call.bytes) THEN <<>>
                        ELSE <<Call(SubSeq(call.bytes, n + 1, Len(call.bytes)), call.of,
                                    TRUE, call.locked)>>) \o Tail(work[t]))
  /\ crossed' = (crossed \/ \E u \in Threads \ {t} :
                              Inside(u) /\ ~(Locked(t) /\ Locked(u)))
  /\ UNCHANGED <<left, greeted, conn, reader>>

\* On a connection that is gone Send returns -1, as SIGPIPE is ignored, and so does
\* every further Send of an errand; then the lock is given back.
AllGiveUp ==
  /\ work' = [t \in Threads |-> <<>>] /\ file' = Nobody
  /\ UNCHANGED <<left, greeted, reader, sent, crossed>>

\* The sending client ends, and what is in the buffers still arrives; or the
\* connection breaks.  message_handler never closes its end itself.
Close == conn = "open" /\ conn' = "closed" /\ AllGiveUp /\ UNCHANGED wire

Reset == conn = "open" /\ conn' = "reset" /\ wire' = <<>> /\ AllGiveUp
-----------------------------------------------------------------------------
(***************************************************************************)
(* The thread that reads.                                                  *)
(***************************************************************************)

\* Slip: the bytes of the begin field are taken for the block's.
BlockLenByOne(n) == n - 2 * W

\* block_len: what a PIECE of length n holds behind its two ints.
BlockLen(n) == n - (2 * W + 1)

\* The fields behind the id of a message of length n.
Fields(id, n) ==
  CASE id = HAVE_PIECE -> <<W>>
    [] id = BITFIELD -> <<n - 1>>
    [] id \in {REQUEST, CANCEL} -> <<W, W, W>>
    [] id = PIECE -> <<W, W, BlockLen(n)>>
    [] OTHER -> <<>>

Want == CASE at = "len" -> W [] at = "id" -> 1 [] at = "args" -> Head(needs)

Goes(where) == at' = where /\ got' = <<>>

\* The handler is called, and the loop goes on with the next length.
Handle(m) ==
  /\ Goes("len")
  /\ heard' = Append(heard, m)
  /\ UNCHANGED <<len, needs, msg>>

\* A length of 0 or less is a keepalive.
TakeLen(bytes) ==
  /\ IF Value(bytes) > 0 THEN Goes("id") /\ len' = Value(bytes)
                         ELSE Goes("len") /\ UNCHANGED len
  /\ UNCHANGED <<needs, msg, heard>>

\* Nothing is skipped of a message with an unknown id.
TakeId(id) ==
  IF Fields(id, len) = <<>> THEN Handle(Message(id, <<>>))
  ELSE /\ Goes("args")
       /\ needs' = Fields(id, len)
       /\ msg' = Message(id, <<>>)
       /\ UNCHANGED <<len, heard>>

TakeArg(bytes) ==
  LET m == Message(msg.id, Append(msg.args, bytes))
  IN  IF Len(needs) = 1 THEN Handle(m)
      ELSE /\ Goes("args")
           /\ needs' = Tail(needs)
           /\ msg' = m
           /\ UNCHANGED <<len, heard>>

Take(bytes) == CASE at = "len" -> TakeLen(bytes)
                 [] at = "id" -> TakeId(bytes[1])
                 [] at = "args" -> TakeArg(bytes)

Disconnect == Goes("over") /\ UNCHANGED <<len, needs, msg, heard>>

\* One recv() of the loop in Recv, which returns when it has all it wants.
Receive ==
  /\ at # "over" /\ Want > 0 /\ wire # <<>>
  /\ LET n == Min2(Want - Len(got), Len(wire))
         bytes == got \o SubSeq(wire, 1, n)
     IN  /\ wire' = SubSeq(wire, n + 1, Len(wire))
         /\ IF Len(bytes) = Want THEN Take(bytes)
            ELSE got' = bytes /\ UNCHANGED <<at, len, needs, msg, heard>>
  /\ UNCHANGED <<sender, conn, sent, crossed>>

\* Slip: only an error of Recv is looked for, not an end of file.
NothingRead == FALSE

\* Recv(...) <= 0 at the end of the connection: it read nothing of the field.
Nothing == got = <<>>

\* At the end of the connection Recv returns what it has, and any of it is enough
\* for its caller, which then has a field that is partly uninitialised.  After a
\* length like that nothing can follow.
EndOfFile ==
  /\ at # "over" /\ Want > 0 /\ wire = <<>> /\ conn = "closed"
  /\ IF Nothing \/ at # "args" THEN Disconnect ELSE TakeArg(got)
  /\ UNCHANGED <<sender, wire, conn, sent, crossed>>

\* recv fails, or there is nothing to read of a field: a length that is too small.
RecvFails ==
  /\ at # "over" /\ (conn = "reset" \/ Want <= 0)
  /\ Disconnect
  /\ UNCHANGED <<sender, wire, conn, sent, crossed>>

Read == Receive \/ EndOfFile \/ RecvFails

Next == \/ Speak \/ Close \/ Reset \/ Read
        \/ \E t \in Threads : Write(t)

Spec == Init /\ [][Next]_vars

\* Every thread runs, and what is sent arrives.
FairSpec == Spec /\ WF_vars(Read) /\ \A t \in Threads : WF_vars(Write(t))
-----------------------------------------------------------------------------
\* What is handled is what was sent, in the order it was sent, although three
\* threads write to one socket and a Send may be interrupted at any byte: unless a
\* writer without the FILE lock met another in the middle of a message, a message
\* that is not handled as it was sent is the last one, on a connection that ended.
HandledAsSent ==
  ~crossed => \A k \in DOMAIN heard :
                \/ k \in DOMAIN sent /\ heard[k] = sent[k]
                \/ k = Len(heard) /\ conn = "closed"

\* Recv returns a short count at the end of a connection and its callers go on with
\* it.  A message cut short is still handled only if it lacks bytes of its last
\* field and has some of it: of a block, a bitfield, the number of a HAVE or the
\* length of a REQUEST, but never the place a block is written to.
TornInLastField ==
  ~crossed => \A k \in DOMAIN heard \cap DOMAIN sent :
    heard[k] # sent[k] =>
      /\ heard[k].id = sent[k].id
      /\ heard[k].args # <<>> /\ Front(heard[k].args) = Front(sent[k].args)
      /\ Last(heard[k].args) # <<>>
      /\ IsPrefix(Last(heard[k].args), Last(sent[k].args))

\* The reader never waits for bytes that do not come, nor a writer for room: on a
\* connection that stays open all that was said is handled in the end, if no
\* writer without the lock met another in the middle of a message.
Delivered ==
  []<>(\/ crossed \/ conn # "open"
       \/ heard = sent /\ \A t \in Threads : work[t] = <<>>)
=============================================================================
