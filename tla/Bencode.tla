------------------------------- MODULE Bencode -------------------------------
(***************************************************************************)
(* The decoder of bencode.c: _be_decode, whose recursion is the stack here, *)
(* over the bytes of a torrent file or of a tracker's response.  A number,  *)
(* a key and a character are one byte each; a length counts these bytes.    *)
(*                                                                         *)
(* A response may be cut short by the end of the connection.  Its buffer is *)
(* then as long as Content-Length said, and zero from the cut on; without   *)
(* Content-Length it ends at the cut, and the decoder reads what follows.   *)
(***************************************************************************)
EXTENDS Integers, Sequences, SequencesExt

CONSTANTS
  Inputs,    \* what may be decoded: [doc, tail, sent, announced, beyond]
  Nodes,     \* the trees that occur
  Depth,     \* how deep each is nested
  MaxItems   \* bound: the items for which realloc finds memory

\* strtoll of one byte.
Value == [n \in {"-1", "0", "1", "2", "5", "6", "12", "18"} |->
            CASE n = "-1" -> -1 [] n = "0" -> 0 [] n = "1" -> 1 [] n = "2" -> 2
              [] n = "5" -> 5 [] n = "6" -> 6 [] n = "12" -> 12 [] n = "18" -> 18]

Numeral(n) == CHOOSE t \in DOMAIN Value : Value[t] = n

Digits == DOMAIN Value \ {"-1"}

NULL == [null |-> TRUE]

\* A string node without a string: val.s is NULL.
CutString == [nostr |-> TRUE]

IsStr(node) == "str" \in DOMAIN node
IsInt(node) == "int" \in DOMAIN node
IsList(node) == "list" \in DOMAIN node
IsDict(node) == "dict" \in DOMAIN node

\* What the format says: the encoding of a node, from those of the nodes in it.
Encoding(node, encode) ==
  CASE IsStr(node)  -> <<Numeral(Len(node.str)), ":">> \o node.str
    [] IsInt(node)  -> <<"i", node.int, "e">>
    [] IsList(node) -> <<"l">> \o FlattenSeq([k \in 1 .. Len(node.list) |-> encode[node.list[k]]])
                         \o <<"e">>
    [] IsDict(node) -> <<"d">> \o FlattenSeq([k \in 1 .. Len(node.dict) |->
                                    encode[node.dict[k].key] \o encode[node.dict[k].val]])
                         \o <<"e">>

Encode[node \in Nodes] == Encoding(node, Encode)

Whole(in) == Encode[in.doc] \o in.tail

\* The kinds of a node, with what is in it less deep.
WellFormed(node) ==
  \/ node \in [str : Seq(STRING)] /\ \E t \in Digits : Value[t] = Len(node.str)
  \/ node \in [int : DOMAIN Value]
  \/ /\ node \in [list : Seq(Nodes)] /\ Len(node.list) <= MaxItems
     /\ \A k \in 1 .. Len(node.list) : Depth[node.list[k]] < Depth[node]
  \/ /\ node \in [dict : Seq([key : Nodes, val : Nodes])] /\ Len(node.dict) <= MaxItems
     /\ \A k \in 1 .. Len(node.dict) :
          /\ IsStr(node.dict[k].key) /\ Depth[node.dict[k].key] < Depth[node]
          /\ Depth[node.dict[k].val] < Depth[node]

\* A response that announces its length is one dictionary.
BencodeInput(in) ==
  /\ in.doc \in Nodes /\ in.tail \in Seq(STRING)
  /\ in.sent \in 0 .. Len(Whole(in))
  /\ in.announced => IsDict(in.doc) /\ in.tail = <<>>

ASSUME BencodeAssumption ==
  /\ MaxItems \in Nat
  /\ Depth \in [Nodes -> Nat]
  /\ \A node \in Nodes : WellFormed(node)
  /\ \A in \in Inputs : BencodeInput(in)

VARIABLES
  input,     \* the member of Inputs
  text,      \* the buffer
  data,      \* where _be_decode reads next
  data_len,  \* how many bytes it takes to be left
  stack,     \* the lists and dictionaries that are open
  result,    \* what the last call returned
  at         \* "decode", "loop", "return", "decoded", "fault"; others belong to
             \* the callers

decodeVars == <<input, text, data, data_len, stack, result, at>>

\* preprocess_tracker_response: recvline is zero where nothing came.
Received(in) ==
  LET came == SubSeq(Whole(in), 1, in.sent)
  IN  IF in.announced
      THEN came \o [k \in 1 .. Len(Whole(in)) - in.sent |-> "zero"]
      ELSE came

\* be_decoden.
DecodeInit ==
  /\ input \in Inputs
  /\ text = Received(input)
  /\ data = 1 /\ data_len = Len(text)
  /\ stack = <<>> /\ result = NULL
  /\ at = "decode"

Byte(p) == IF p <= Len(text) THEN text[p] ELSE input.beyond
-----------------------------------------------------------------------------
\* _be_decode_int: the number, or 0 where there is none.
Number(p) == IF Byte(p) \in DOMAIN Value THEN [int |-> Byte(p), next |-> p + 1]
                                         ELSE [int |-> "0", next |-> p]

Fits(len, left) == len <= left - 1

\* _be_decode_str: the string, and what is left.
DecodeStr(p, left) ==
  LET n    == Number(p)
      len  == Value[n.int]
      rest == left - (n.next - p)
  IN  IF len >= 0 /\ Fits(len, rest) /\ Byte(n.next) = ":"
      THEN [node |-> [str |-> SubSeq(text, n.next + 1, n.next + len)],
            data |-> n.next + 1 + len, left |-> rest - len - 1]
      ELSE [node |-> NULL, data |-> n.next, left |-> rest]

Takes(n) == data' = data + n /\ data_len' = data_len - n

Returns(val) == result' = val /\ at' = "return" /\ UNCHANGED stack

Opens(frame) == /\ Takes(1)
                /\ stack' = Append(stack, frame)
                /\ at' = "loop"
                /\ UNCHANGED result

\* A call of _be_decode, by the first byte.
NothingLeft == data_len = 0 /\ Returns(NULL) /\ UNCHANGED <<data, data_len>>

OpenList == Byte(data) = "l" /\ Opens([list |-> <<>>])

OpenDict == Byte(data) = "d" /\ Opens([dict |-> <<>>, key |-> NULL])

\* Slip: the end of a number is left where it is.
NumberEnds(len) == Takes(len - 1)

NumberTaken(len) == Takes(len)

DecodeInt ==
  /\ Byte(data) = "i"
  /\ LET n == Number(data + 1)
     IN  IF Byte(n.next) = "e"
         THEN NumberTaken(n.next + 1 - data) /\ Returns([int |-> n.int])
         ELSE Takes(n.next - data) /\ Returns(NULL)

DecodeString ==
  /\ Byte(data) \in Digits
  /\ LET s == DecodeStr(data, data_len)
     IN  /\ data' = s.data /\ data_len' = s.left
         /\ Returns(IF s.node = NULL THEN CutString ELSE s.node)

Invalid ==
  /\ Byte(data) \notin {"l", "d", "i"} \cup Digits
  /\ Returns(NULL) /\ UNCHANGED <<data, data_len>>

Decode ==
  /\ at = "decode"
  /\ \/ NothingLeft
     \/ data_len # 0 /\ (OpenList \/ OpenDict \/ DecodeInt \/ DecodeString \/ Invalid)
  /\ UNCHANGED <<input, text>>

Fault == at' = "fault" /\ UNCHANGED <<data, data_len, stack, result>>

ItemsOf(frame) == IF IsList(frame) THEN frame.list ELSE frame.dict

Finished(frame) == IF IsList(frame) THEN frame ELSE [dict |-> frame.dict]

\* while (**data != 'e') of the list or dictionary opened last: its end.  One
\* without items has no array to put the final NULL in.
Close ==
  /\ at = "loop" /\ Byte(data) = "e"
  /\ IF ItemsOf(Last(stack)) = <<>> THEN Fault
     ELSE /\ Takes(1)
          /\ result' = Finished(Last(stack)) /\ stack' = Front(stack)
          /\ at' = "return"
  /\ UNCHANGED <<input, text>>

\* Slip: what there is so far is returned.
StopsThere == /\ result' = Finished(Last(stack)) /\ stack' = Front(stack)
              /\ at' = "return"
              /\ UNCHANGED <<data, data_len>>

\* realloc returns NULL.
OutOfMemory == Fault

\* An item: realloc for it, the key in a dictionary, and the value.
Item ==
  /\ at = "loop" /\ Byte(data) # "e"
  /\ IF Len(ItemsOf(Last(stack))) = MaxItems THEN OutOfMemory
     ELSE /\ at' = "decode" /\ UNCHANGED result
          /\ IF IsList(Last(stack)) THEN UNCHANGED <<data, data_len, stack>>
             ELSE LET s == DecodeStr(data, data_len)
                  IN  /\ data' = s.data /\ data_len' = s.left
                      /\ stack' = Front(stack) \o <<[Last(stack) EXCEPT !.key = s.node]>>
  /\ UNCHANGED <<input, text>>

Put(frame, val) == IF IsList(frame) THEN [frame EXCEPT !.list = Append(@, val)]
                   ELSE [frame EXCEPT !.dict = Append(@, [key |-> frame.key, val |-> val])]

\* The value is put where the caller wants it.
Return ==
  /\ at = "return"
  /\ IF stack = <<>> THEN at' = "decoded" /\ UNCHANGED stack
     ELSE /\ at' = "loop"
          /\ stack' = Front(stack) \o <<Put(Last(stack), result)>>
  /\ UNCHANGED <<input, text, data, data_len, result>>

DecodeNext == Decode \/ Close \/ Item \/ Return
-----------------------------------------------------------------------------
Empty(node, empty) ==
  \/ IsList(node) /\ (node.list = <<>> \/ \E k \in 1 .. Len(node.list) : empty[node.list[k]])
  \/ IsDict(node) /\ (node.dict = <<>> \/ \E k \in 1 .. Len(node.dict) : empty[node.dict[k].val])

\* A list or dictionary that is, or has in it, one without items.
HasEmpty[node \in Nodes] == Empty(node, HasEmpty)

InputWhole == input.sent = Len(Whole(input))

\* Decoding inverts the encoding: the tree of what came whole is the tree that
\* was sent, and what follows it is left alone; unless a list or dictionary in it
\* is empty, which ends the client.
DecodesWhole ==
  InputWhole =>
    /\ at = "decoded" => result = input.doc /\ data_len = Len(input.tail) /\ ~HasEmpty[input.doc]
    /\ at = "fault" => HasEmpty[input.doc]

\* A response that is cut short and has a Content-Length is never taken for a
\* whole one: no value of it is used.  (The client reads zeros for ever, until
\* memory ends.)
CutIsNotParsed ==
  ~InputWhole /\ input.announced => at \in {"decode", "loop", "return", "decoded", "fault", "crash"}
=============================================================================
