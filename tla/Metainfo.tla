------------------------------ MODULE Metainfo ------------------------------
(***************************************************************************)
(* From bytes to fields: parsetorrentfile of a torrent file, and            *)
(* get_tracker_data of a tracker's response, over the tree that Bencode     *)
(* decodes.  Both go through the entries of a dictionary and know a key by  *)
(* what it begins with.                                                     *)
(*                                                                         *)
(* A field no entry sets keeps what malloc returned.  A value of another    *)
(* type than the code takes it for is a pointer or a number gone wrong: the *)
(* field is garbage, or the process ends.                                   *)
(***************************************************************************)
EXTENDS Bencode

CONSTANT Heap  \* what may lie behind an array, up to the first zero

PieceLength == "piece length"
FailureReason == "failure reason"

KeysOf(dict) == {dict[k].key.str[1] : k \in 1 .. Len(dict)}

At(dict, name) == dict[CHOOSE k \in 1 .. Len(dict) : dict[k].key.str = <<name>>].val

\* A key is one byte here, and no two are the same.
Keyed(dict) ==
  /\ \A k \in 1 .. Len(dict) : Len(dict[k].key.str) = 1
  /\ \A k, l \in 1 .. Len(dict) : dict[k].key.str = dict[l].key.str => k = l

\* The values of info are of the types the format has, and as its keys are in
\* order, pieces comes after the lengths.
InfoFormat(info) ==
  /\ Keyed(info)
  /\ \A k \in 1 .. Len(info) :
       LET key == info[k].key.str
           val == info[k].val
       IN  /\ key = <<"name">> => IsStr(val)
           /\ key = <<"length">> => IsInt(val) /\ Value[val.int] >= 0
           /\ key = <<PieceLength>> => IsInt(val) /\ Value[val.int] > 0
           /\ key = <<"pieces">> =>
                \A l \in k .. Len(info) : info[l].key.str \notin {<<"length">>, <<PieceLength>>}

\* A torrent file is whole, and info and a d behind it are nowhere but where the
\* info dictionary begins.
TorrentFormat(in) ==
  LET file == Whole(in)
  IN  /\ in.sent = Len(file)
      /\ IsDict(in.doc) =>
           /\ Keyed(in.doc.dict)
           /\ \A k \in 1 .. Len(in.doc.dict) :
                LET key == in.doc.dict[k].key.str
                    val == in.doc.dict[k].val
                IN  /\ key = <<"announce">> => IsStr(val)
                    /\ key = <<"info">> => IsDict(val) /\ InfoFormat(val.dict)
           /\ \A p, q \in 2 .. Len(file) :
                file[p - 1] = "info" /\ file[p] = "d" /\ file[q - 1] = "info" /\ file[q] = "d"
                  => p = q

\* The interval of a response is a number, and a string of peers holds six bytes
\* for each.
ResponseFormat(in) ==
  IsDict(in.doc) =>
    /\ Keyed(in.doc.dict)
    /\ \A k \in 1 .. Len(in.doc.dict) :
         LET key == in.doc.dict[k].key.str
             val == in.doc.dict[k].val
         IN  /\ key = <<"interval">> => IsInt(val)
             /\ key = <<"peers">> /\ IsStr(val) => Len(val.str) % 6 = 0

ASSUME MetainfoAssumption ==
  /\ \A in \in Inputs : /\ in.kind = "file" => TorrentFormat(in)
                        /\ in.kind = "response" => ResponseFormat(in)
  /\ \A heap \in Heap : heap \in Seq(STRING)

VARIABLES
  field,       \* torrentmetadata_t or tracker_data, but for the numbers below
  num_pieces,  \* of torrentmetadata_t, or numpeers of tracker_data
  filled,      \* necessary fields, as parsetorrentfile counts them
  i, j         \* the entry of the dictionary, and of the info dictionary

vars == <<decodeVars, field, num_pieces, filled, i, j>>

Unset == <<"unset">>
Garbage == <<"garbage">>

Fields == {"announce", "length", "name", "piece_len", "info_hash", "interval", "peers"}

\* Keys that begin with another one.
Longer == {<<"announce-list", "announce">>, <<"name.utf-8", "name">>, <<"peers6", "peers">>}

\* !strncmp(key, name, strlen(name)).
Begins(key, name) == /\ IsStr(key) /\ key.str # <<>>
                     /\ key.str = <<name>> \/ <<Head(key.str), name>> \in Longer

Init ==
  /\ DecodeInit
  /\ field = [f \in Fields |-> Unset] /\ num_pieces = -1
  /\ filled = 0
  /\ i = 1 /\ j = 1

Ends(how) == at' = how /\ UNCHANGED <<field, num_pieces, filled, i, j>>

StrOf(val) == IF IsStr(val) THEN val.str ELSE Garbage
IntOf(val) == IF IsInt(val) THEN <<val.int>> ELSE Garbage
-----------------------------------------------------------------------------
(***************************************************************************)
(* The torrent file.                                                       *)
(***************************************************************************)

\* strstr(data, "infod"): where the dictionary of the first such key begins.
InfoAt == {p \in 2 .. Len(text) : text[p - 1] = "info" /\ text[p] = "d"}

\* Slip: the e of the root dictionary is hashed.
ToTheEnd == Len(text)

\* The last byte, but for the e of the root dictionary.
InfoEnd == IF Last(text) = "e" THEN Len(text) - 1 ELSE Len(text)

\* The root is a dictionary, and the hash is that of all from info's value on.
HashInfo ==
  /\ at = "decoded" /\ input.kind = "file"
  /\ IF IsDict(result)
     THEN IF InfoAt # {}
          THEN /\ at' = "entries"
               /\ field' = [field EXCEPT !["info_hash"] = SubSeq(text, Min(InfoAt), InfoEnd)]
               /\ UNCHANGED <<num_pieces, filled, i, j>>
          ELSE Ends("crash")
     ELSE Ends(IF result = NULL THEN "crash" ELSE "exit")
  /\ UNCHANGED <<input, text, data, data_len, stack, result>>

Entry == result.dict[i]

\* The loops over the entries end at the first NULL value.
EntryLeft == at = "entries" /\ i <= Len(result.dict) /\ Entry.val # NULL

Reading == UNCHANGED <<input, text, data, data_len, stack, result>>

NextEntry == i' = i + 1 /\ UNCHANGED <<j, at>>

\* The zero behind the url is one byte more than malloc gave.
AnnounceEntry ==
  /\ EntryLeft /\ input.kind = "file" /\ Begins(Entry.key, "announce")
  /\ \/ /\ NextEntry
        /\ field' = [field EXCEPT !["announce"] = StrOf(Entry.val)]
        /\ filled' = filled + 1
        /\ UNCHANGED num_pieces
     \/ Ends("crash")
  /\ Reading

InfoEntry ==
  /\ EntryLeft /\ input.kind = "file" /\ Begins(Entry.key, "info")
  /\ IF IsDict(Entry.val)
     THEN at' = "info" /\ j' = 1 /\ UNCHANGED <<i, field, num_pieces, filled>>
     ELSE Ends("exit")
  /\ Reading

InfoKey == Entry.val.dict[j].key
InfoVal == Entry.val.dict[j].val

InInfo(name) == at = "info" /\ j <= Len(Entry.val.dict) /\ Begins(InfoKey, name)

NextInfo == j' = j + 1 /\ filled' = filled + 1 /\ UNCHANGED <<i, at>>

LengthEntry ==
  /\ InInfo("length") /\ NextInfo
  /\ field' = [field EXCEPT !["length"] = IntOf(InfoVal)]
  /\ UNCHANGED num_pieces
  /\ Reading

\* The name is copied without its zero, and then up to the first zero.
Named(val, heap) == IF IsStr(val) THEN val.str \o heap ELSE Garbage

NameEntry ==
  /\ InInfo("name")
  /\ \/ \E heap \in Heap : /\ NextInfo
                           /\ field' = [field EXCEPT !["name"] = Named(InfoVal, heap)]
                           /\ UNCHANGED num_pieces
     \/ Ends("crash")
  /\ Reading

PieceLengthEntry ==
  /\ InInfo(PieceLength) /\ NextInfo
  /\ field' = [field EXCEPT !["piece_len"] = IntOf(InfoVal)]
  /\ UNCHANGED num_pieces
  /\ Reading

PiecesOf(length, len) == length \div len + (IF length % len # 0 THEN 1 ELSE 0)

\* The number of pieces, from length and piece_len as they are now.
PiecesEntry ==
  /\ InInfo("pieces")
  /\ LET length == field["length"]
         len    == field["piece_len"]
     IN  IF {length, len} \cap {Unset, Garbage} = {}
         THEN /\ NextInfo
              /\ num_pieces' = PiecesOf(Value[length[1]], Value[len[1]])
              /\ UNCHANGED field
         ELSE \/ NextInfo /\ UNCHANGED <<num_pieces, field>>
              \/ Ends("crash")
  /\ Reading

InfoNames == {"length", "name", PieceLength, "pieces"}

OtherInfo ==
  /\ at = "info" /\ j <= Len(Entry.val.dict)
  /\ \A name \in InfoNames : ~Begins(InfoKey, name)
  /\ j' = j + 1 /\ UNCHANGED <<at, i, field, num_pieces, filled>>
  /\ Reading

\* The loop over info ends at a NULL key, which nothing has written: it is NULL,
\* or the process ends.
InfoDone ==
  /\ at = "info" /\ j > Len(Entry.val.dict)
  /\ \/ at' = "entries" /\ i' = i + 1 /\ UNCHANGED <<j, field, num_pieces, filled>>
     \/ Ends("crash")
  /\ Reading

\* Slip: four fields are enough.
Enough == filled >= 4

Complete == filled >= 5

\* be_free: what the fields keep was copied.
BeFree == result' = NULL /\ UNCHANGED <<input, text, data, data_len, stack>>

\* A torrent, or NULL.
TorrentDone ==
  /\ at = "entries" /\ ~EntryLeft /\ input.kind = "file"
  /\ Ends(IF Complete THEN "torrent" ELSE "refused")
  /\ BeFree

TorrentFile == \/ HashInfo \/ AnnounceEntry \/ InfoEntry
               \/ LengthEntry \/ NameEntry \/ PieceLengthEntry \/ PiecesEntry \/ OtherInfo
               \/ InfoDone \/ TorrentDone
-----------------------------------------------------------------------------
(***************************************************************************)
(* The tracker's response.                                                 *)
(***************************************************************************)
ReadResponse ==
  /\ at = "decoded" /\ input.kind = "response"
  /\ Ends(CASE result = NULL   -> "crash"
            [] IsDict(result)  -> "entries"
            [] OTHER           -> "exit")
  /\ Reading

FailureEntry ==
  /\ EntryLeft /\ input.kind = "response" /\ Begins(Entry.key, FailureReason)
  /\ Ends("exit")
  /\ Reading

IntervalEntry ==
  /\ EntryLeft /\ input.kind = "response" /\ Begins(Entry.key, "interval")
  /\ NextEntry
  /\ field' = [field EXCEPT !["interval"] = IntOf(Entry.val)]
  /\ UNCHANGED <<num_pieces, filled>>
  /\ Reading

\* Slip: the port is forgotten.
Addresses == 4

PerPeer == 6

\* be_str_len of a NULL string is 0.
PeerBytes(val) == IF val = CutString THEN <<>> ELSE val.str

\* get_peers: six bytes a peer in a string; anything else ends the client.
PeersEntry ==
  /\ EntryLeft /\ input.kind = "response" /\ Begins(Entry.key, "peers")
  /\ IF IsStr(Entry.val) \/ Entry.val = CutString
     THEN /\ NextEntry
          /\ field' = [field EXCEPT !["peers"] = PeerBytes(Entry.val)]
          /\ num_pieces' = Len(PeerBytes(Entry.val)) \div PerPeer
          /\ UNCHANGED filled
     ELSE Ends(IF IsDict(Entry.val) THEN "exit" ELSE "crash")
  /\ Reading

ResponseNames == {FailureReason, "interval", "peers"}
TorrentNames == {"announce", "info"}

\* strncmp of a key that is NULL ends the client.
OtherEntry ==
  /\ EntryLeft
  /\ \A name \in IF input.kind = "file" THEN TorrentNames ELSE ResponseNames :
       ~Begins(Entry.key, name)
  /\ IF Entry.key = NULL THEN Ends("crash")
     ELSE NextEntry /\ UNCHANGED <<field, num_pieces, filled>>
  /\ Reading

ResponseDone ==
  /\ at = "entries" /\ ~EntryLeft /\ input.kind = "response"
  /\ Ends("response")
  /\ BeFree

Response == ReadResponse \/ FailureEntry \/ IntervalEntry \/ PeersEntry \/ ResponseDone

Next == \/ DecodeNext /\ UNCHANGED <<field, num_pieces, filled, i, j>>
        \/ TorrentFile \/ Response \/ OtherEntry

Spec == Init /\ [][Next]_vars
-----------------------------------------------------------------------------
LongerKeys == {pair[1] : pair \in Longer}

Root == input.doc.dict

\* Of a file in which no key begins with another one, parsetorrentfile returns a
\* torrent exactly if its five fields are there, and then each field is the one
\* of the file, but for what the heap holds behind the name, and the pieces are as
\* many as cover the length.
FieldsOfFile ==
  at \in {"torrent", "refused"} =>
    LET info     == At(Root, "info").dict
        inner    == IF "info" \in KeysOf(Root) THEN KeysOf(info) ELSE {}
        complete == TorrentNames \subseteq KeysOf(Root) /\ InfoNames \subseteq inner
    IN  (KeysOf(Root) \cup inner) \cap LongerKeys = {} =>
          /\ at = "torrent" <=> complete
          /\ complete =>
               /\ field["announce"] = At(Root, "announce").str
               /\ \E heap \in Heap : field["name"] = Named(At(info, "name"), heap)
               /\ field["length"] = <<At(info, "length").int>>
               /\ field["piece_len"] = <<At(info, PieceLength).int>>
               /\ LET len == Value[field["piece_len"][1]]
                  IN  Value[field["length"][1]] \in (num_pieces - 1) * len + 1 .. num_pieces * len

\* The hash is the one the tracker and the peers know the torrent by exactly if
\* info is the last key of the file and nothing follows the file's last e.
HashOfInfo ==
  at = "torrent" =>
    (field["info_hash"] = Encode[At(Root, "info")]
       <=> Last(Root).key.str = <<"info">> /\ input.tail = <<>>)

\* Of a whole response without peers6, interval and peers are the ones the
\* tracker sent, six bytes a peer, or were not sent.
FieldsOfResponse ==
  at = "response" /\ InputWhole /\ KeysOf(Root) \cap LongerKeys = {} =>
    /\ field["interval"] = IF "interval" \in KeysOf(Root) THEN <<At(Root, "interval").int>> ELSE Unset
    /\ IF "peers" \in KeysOf(Root)
       THEN field["peers"] = At(Root, "peers").str /\ 6 * num_pieces = Len(field["peers"])
       ELSE field["peers"] = Unset
=============================================================================
