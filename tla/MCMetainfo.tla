------------------------------ MODULE MCMetainfo ------------------------------
\* Small torrent files and responses for TLC: every choice of keys, in the order
\* the format asks for, and every place to cut a response.
EXTENDS Metainfo

Text(t) == [str |-> <<t>>]

Pair(key, val) == [key |-> Text(key), val |-> val]

Chosen(pairs, names) == SelectSeq(pairs, LAMBDA p : p.key.str[1] \in names)

InfoPairs(size) ==
  << Pair("length", [int |-> size[1]]), Pair("name", Text("file")),
     Pair("name.utf-8", Text("fichier")), Pair("piece length", [int |-> size[2]]),
     Pair("pieces", [str |-> <<"h", "h">>]), Pair("private", [int |-> "1"]) >>

InfoKeys == {"length", "name", "name.utf-8", "piece length", "pieces", "private"}

RootPairs(size, names) ==
  << Pair("announce", Text("url")), Pair("announce-list", [list |-> <<[list |-> <<Text("url")>>]>>]),
     Pair("info", [dict |-> Chosen(InfoPairs(size), names)]), Pair("url-list", Text("url")) >>

RootKeys == {"announce", "announce-list", "info", "url-list"}

\* With a last piece that is short, and without.
Torrents == {[dict |-> Chosen(RootPairs(<<"5", "2">>, inner), outer)] :
               inner \in SUBSET InfoKeys, outer \in SUBSET RootKeys}
            \cup {[dict |-> Chosen(RootPairs(<<"12", "6">>, InfoKeys \ {"name.utf-8"}),
                                     {"announce", "info"})]}

TorrentFiles ==
  LET encode == Encode
  IN  {[kind |-> "file", doc |-> doc, tail |-> tail, sent |-> Len(encode[doc]) + Len(tail),
        announced |-> FALSE, beyond |-> "zero"] : doc \in Torrents, tail \in {<<>>, <<"newline">>}}

Peer(p) == [k \in 1 .. 6 |-> p]

PeerLists == {[str |-> <<>>], [str |-> Peer("p") \o Peer("q")],
              [list |-> <<>>], [list |-> <<[dict |-> <<Pair("ip", Text("p"))>>]>>]}

ResponsePairs(peers) ==
  << Pair("failure reason", Text("why")), Pair("interval", [int |-> "5"]),
     Pair("min interval", [int |-> "-1"]), Pair("peers", peers),
     Pair("peers6", [str |-> Peer("p") \o Peer("p") \o Peer("p")]) >>

ResponseKeys == {"failure reason", "interval", "min interval", "peers", "peers6"}

Answers == {[dict |-> Chosen(ResponsePairs(peers), names)] :
              peers \in PeerLists, names \in SUBSET ResponseKeys}

\* A string of five bytes that look like entries when it is cut.
CutEntries == [dict |-> <<Pair("tracker id", [str |-> <<"1", "i", "5", "e", "x">>])>>]

Responses ==
  LET encode == Encode
  IN  UNION {{[kind |-> "response", doc |-> doc, tail |-> <<>>, sent |-> n, announced |-> known,
               beyond |-> byte] :
                n \in 0 .. Len(encode[doc]), known \in BOOLEAN, byte \in {"zero", "e"}} :
             doc \in Answers \cup {CutEntries}}

ItemsIn(node) ==
  CASE IsList(node) -> {node.list[k] : k \in 1 .. Len(node.list)}
    [] IsDict(node) -> UNION {{node.dict[k].key, node.dict[k].val} : k \in 1 .. Len(node.dict)}
    [] OTHER        -> {}

Inner(trees) == UNION {ItemsIn(node) : node \in trees}

\* The documents, and what is in them down to the third level: no item there has
\* items.
Trees ==
  LET docs == Torrents \cup Answers \cup {CutEntries}
  IN  docs \cup Inner(docs) \cup Inner(Inner(docs)) \cup Inner(Inner(Inner(docs)))

RECURSIVE Nesting(_)
Nesting(node) == Max({0} \cup {Nesting(item) + 1 : item \in ItemsIn(node)})

Nestings == [node \in Trees |-> Nesting(node)]

\* TLC keeps the value of a definition, but not of what a constant is replaced by.
SmallNodes == Trees
SmallDepth == Nestings

SmallInputs == TorrentFiles \cup Responses

SmallHeap == {<<>>, <<"junk">>}
===============================================================================
