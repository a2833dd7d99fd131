-------------------------------- MODULE Tracker --------------------------------
(***************************************************************************)
(* The tracker's part of src/metadata: the announce URL, in file.rs, and   *)
(* the answer, in tracker.rs.  A URL is a sequence of symbols: characters, *)
(* the three characters %XX of an escaped byte, and the names and decimal  *)
(* numbers of the query as one symbol each.                                *)
(***************************************************************************)
EXTENDS Metainfo

CONSTANTS
    Spelling,        \* of each of Urls, its symbols
    Alphanumeric,    \* the bytes that are letters or digits, as characters
    Escape,          \* of every other byte, its %XX
    PeerId           \* PEER_ID, as bytes

Bytes == Alphanumeric \cup DOMAIN Escape

PairNames == {"port", "uploaded", "downloaded", "compact", "left"}
AppendedNames == {"info_hash", "peer_id"}
Names == PairNames \cup AppendedNames
Numbers == {"12345", "0", "1", "length"}

IsSequence(s) == s \in Seq({s[k] : k \in DOMAIN s})

\* %XX stands for one byte, and is no other symbol.  An announce URL has no pair with
\* one of the names that the program adds.
ASSUME TrackerAssumption ==
    /\ \A url \in Urls : IsSequence(Spelling[url]) /\ ToSet(Spelling[url]) \cap Names = {}
    /\ Bytes \cap Names = {}
    /\ Alphanumeric \cap DOMAIN Escape = {}
    /\ {"?", "#", "&", "=", "+"} \subseteq DOMAIN Escape
    /\ \A b \in DOMAIN Escape :
          /\ Escape[b] \notin Bytes \cup Names \cup Numbers
          /\ \A c \in DOMAIN Escape : Escape[b] = Escape[c] => b = c
    /\ PeerId \in Seq(Bytes)

-----------------------------------------------------------------------------
(* The announce URL.                                                        *)

\* Where c is in s for the first time, or the end of s.
Position(s, c) == Min({k \in DOMAIN s : s[k] = c} \cup {Len(s) + 1})
Before(s, c) == SubSeq(s, 1, Position(s, c) - 1)
After(s, c) == SubSeq(s, Position(s, c) + 1, Len(s))

\* Seeded fault: what is escaped are control characters and bytes beyond ASCII.
EscapeControls(bytes) ==
    [k \in DOMAIN bytes |-> IF bytes[k] = "0x80" THEN Escape[bytes[k]] ELSE bytes[k]]

\* With NON_ALPHANUMERIC.
percent_encode(bytes) ==
    [k \in DOMAIN bytes |-> IF bytes[k] \in Alphanumeric THEN bytes[k] ELSE Escape[bytes[k]]]

\* What append_pair adds: the port of the program, and `length` as a number.
Pairs ==
    <<"port", "=", "12345", "&", "uploaded", "=", "0", "&", "downloaded", "=", "0", "&",
      "compact", "=", "1", "&", "left", "=", "length">>

\* What query_pairs_mut puts between the URL and the first pair.
Separator(front) ==
    IF "?" \notin ToSet(front) THEN <<"?">>
    ELSE IF After(front, "?") = <<>> THEN <<>>
    ELSE <<"&">>

\* The last two pairs, which format! appends to the text of the URL.
Appended(hash) ==
    <<"&", "info_hash", "=">> \o percent_encode(hash)
        \o <<"&", "peer_id", "=">> \o percent_encode(PeerId)

\* query_pairs_mut adds to the query, in front of a fragment.  The last pairs come
\* after whatever the text of the URL ends with.
get_announce_url(announce, hash) ==
    LET text == Spelling[announce]
        front == Before(text, "#")
        fragment == SubSeq(text, Len(front) + 1, Len(text))
    IN  (front \o Separator(front) \o Pairs \o fragment) \o Appended(hash)

-----------------------------------------------------------------------------
(* How a tracker reads it.                                                  *)

\* A fragment is not sent.
Query(url) == After(Before(url, "#"), "?")

\* One byte of a value, from the symbol in the query.
Unescaped(symbol) ==
    IF symbol = "+" THEN " "
    ELSE IF \E b \in DOMAIN Escape : Escape[b] = symbol
         THEN CHOOSE b \in DOMAIN Escape : Escape[b] = symbol
    ELSE symbol

Decode(value) == [k \in DOMAIN value |-> Unescaped(value[k])]

\* What a query says of a name: the values of all its pairs with that name.
ValuesOf(query, name) ==
    LET starts == {k \in 1 .. Len(query) - 1 :
                      /\ k = 1 \/ query[k - 1] = "&"
                      /\ query[k] = name
                      /\ query[k + 1] = "="}
    IN  {Decode(Before(SubSeq(query, k + 2, Len(query)), "&")) : k \in starts}

-----------------------------------------------------------------------------
SocketSize == 6

\* Seeded fault: the bytes of a port in the wrong order.
LittleEndianPort(high, low) == high + 256 * low

Port(high, low) == 256 * high + low

extract_peers(items) ==
    IF "peers" \notin DOMAIN items THEN "MissingPeers"
    ELSE IF items["peers"].kind # "string" THEN "MalformedPeersList"
    ELSE Check(Len(items["peers"].bytes) % SocketSize = 0, "IllegalPeersLength")

\* The sockets in a peer list whose length is right.
Sockets(bytes) ==
    [i \in 1 .. Len(bytes) \div SocketSize |->
        LET start == (i - 1) * SocketSize
        IN  [ip |-> SubSeq(bytes, start + 1, start + 4),
             port |-> Port(bytes[start + 5], bytes[start + 6])]]

Interval(items) ==
    LET e == Uint(items, "interval")
    IN  CASE e \in {"none", "panic"} -> e
          [] e = "MissingRequiredKey" -> "MissingInterval"
          [] OTHER -> "MalformedInterval"

\* TrackerResponse::try_from.
try_from(value) ==
    IF value.kind # "dictionary" THEN "TrackerResponseNotADictionary"
    ELSE Then(Interval(value.items), extract_peers(value.items))
===============================================================================
