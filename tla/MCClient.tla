------------------------------- MODULE MCClient -------------------------------
(* Metainfo files with every combination of small lengths, some beyond a u64 *)
(* of 16 in sum or product, and one with each key missing or of another type *)
(* than it should be.  The hash of a piece is one byte, an MD5 two, and the  *)
(* SHA-1 of the info dictionary has every byte that means something in a URL.*)
EXTENDS Client, TLC

Site == <<"http", ":", "/", "/", "host", "/", "a">>
MCSpelling ==
    ("plain" :> Site)
        @@ ("query" :> Site \o <<"?", "key", "=", "a", "&", "b">>)
        @@ ("empty query" :> Site \o <<"?">>)
        @@ ("fragment" :> Site \o <<"#", "part", "?", "b">>)
        @@ ("both" :> Site \o <<"?", "key", "=", "?", "#", "part">>)

MCEscape ==
    ("?" :> "%3F") @@ ("#" :> "%23") @@ ("&" :> "%26") @@ ("=" :> "%3D") @@ ("%" :> "%25")
        @@ ("+" :> "%2B") @@ (" " :> "%20") @@ ("!" :> "%21") @@ ("0x80" :> "%80")
MCPeerId == <<"!", "a", "b">>
MCHashes == {<<"a", "&", "b", "=", "%">>, <<"#", "0x80", "+">>, <<" ", "?", "a", "!">>}

Num(n) == [kind |-> "integer", num |-> n]
Text(t) == [kind |-> "string", text |-> t, bytes |-> <<1>>]
Raw(n) == [kind |-> "string", text |-> "binary", bytes |-> [k \in 1 .. n |-> 200]]
ListOf(seq) == [kind |-> "list", elements |-> seq]
Dict(items) == [kind |-> "dictionary", items |-> items]

Seqs(S, n) == UNION {[1 .. m -> S] : m \in 0 .. n}
With(f, key, v) == [k \in DOMAIN f \cup {key} |-> IF k = key THEN v ELSE f[k]]
Without(f, key) == [k \in DOMAIN f \ {key} |-> f[k]]

Values == {Num(-1), Num(0), Num(1), Num(2), Text("word"), Raw(0), Raw(2), Raw(3), Dict(<<>>),
           ListOf(<<>>), ListOf(<<Text("word")>>), ListOf(<<Raw(1)>>), ListOf(<<Num(1)>>),
           ListOf(<<ListOf(<<>>), ListOf(<<Text("word")>>)>>),
           ListOf(<<ListOf(<<Raw(1)>>)>>), ListOf(<<Dict(<<>>)>>)}

\* f, and f with one key missing, added or of another value.
Changed(f, keys) ==
    {f} \cup {Without(f, k) : k \in keys} \cup {With(f, k, v) : k \in keys, v \in Values}

File(n) == Dict([length |-> Num(n), path |-> ListOf(<<Text("word")>>)])
MC_Info(pieceLength, np) ==
    ("piece length" :> Num(pieceLength)) @@ ("pieces" :> Raw(np)) @@ ("name" :> Text("word"))
SingleFile(pieceLength, np, n) == With(MC_Info(pieceLength, np), "length", Num(n))
Announce(url, info) == ("announce" :> Text(url)) @@ ("info" :> Dict(info))

Lengths ==
    {SingleFile(l, np, n) : l \in 0 .. 7, np \in {0, 1, 2, 4}, n \in {0, 1, 4, 6, 7}}
        \cup {With(MC_Info(l, np), "files", ListOf([k \in DOMAIN f |-> File(f[k])])) :
                 l \in {1, 3, 5, 7}, np \in {1, 3}, f \in Seqs({1, 7}, 3)}

InfoKeys == {"piece length", "pieces", "private", "name", "length", "md5sum", "files"}
TopKeys == {"announce", "announce-list", "creation date", "comment", "created by", "encoding", "info"}
FileKeys == {"length", "path", "md5sum"}

Dictionaries ==
    {Announce("plain", info) : info \in Lengths \cup Changed(SingleFile(2, 2, 3), InfoKeys)}
        \cup {Announce("plain", With(MC_Info(2, 2), "files", ListOf(<<File(2), Dict(f)>>))) :
                 f \in Changed(File(1).items, FileKeys)}
        \cup Changed(Announce("plain", SingleFile(2, 2, 4)), TopKeys)
        \cup {Announce(url, SingleFile(2, 2, 4)) : url \in DOMAIN MCSpelling \cup {"word"}}

MCDocuments == {Dict(d) : d \in Dictionaries} \cup {Num(1)}

Socket1 == [ip |-> <<10, 0, 0, 255>>, port |-> 6881]
Socket2 == [ip |-> <<192, 168, 1, 2>>, port |-> 80]
MCOffers == {<<>>, <<Socket1>>, <<Socket2, Socket1>>}

MCAnswers ==
    {Num(1)} \cup
    {Dict(d) : d \in Changed([interval |-> Num(1), peers |-> Raw(6)], {"interval", "peers"})}
===============================================================================
