------------------------------- MODULE Metainfo -------------------------------
(***************************************************************************)
(* TorrentFile::extract of src/metadata/file.rs: what is required of every *)
(* key of the metainfo, in the order of the code, and the arithmetic of    *)
(* u64 that decides whether pieces and files fit together.  An operator    *)
(* named after a function gives its error, or "none"; an unwrap or an      *)
(* overflow that ends the program is the error "panic".                    *)
(*                                                                         *)
(* Values are those of Bencode, with two abstractions: a dictionary maps   *)
(* names, and a byte string has, beside its bytes, its text, "binary" if   *)
(* they are not UTF-8.                                                     *)
(***************************************************************************)
EXTENDS Integers, SequencesExt

CONSTANTS
    U64,         \* 2^64
    HashSize,    \* 20, the bytes of a SHA-1
    Md5Size,     \* 16
    Urls         \* the texts that Url::parse takes

ASSUME MetainfoAssumption == U64 \in Nat \ {0} /\ HashSize \in Nat \ {0} /\ Md5Size \in Nat

-----------------------------------------------------------------------------
(* The `?` operator: the first error is the result.                         *)

Then(e, next) == IF e # "none" THEN e ELSE next

FirstError(errors) ==
    LET failed == {k \in DOMAIN errors : errors[k] # "none"}
    IN  IF failed = {} THEN "none" ELSE errors[Min(failed)]

Check(condition, error) == IF condition THEN "none" ELSE error

Required(items, key, mandatory) == Check(key \in DOMAIN items \/ ~ mandatory, "MissingRequiredKey")
Unwrap(items, key) == Check(key \in DOMAIN items, "panic")

-----------------------------------------------------------------------------
(* Seeded faults: operators below with one plausible mistake.               *)

\* A missing integer is never an error.
OptionalUint(items, key, mandatory) ==
    IF key \notin DOMAIN items THEN "none"
    ELSE Check(items[key].kind = "integer", "KeyDoesNotMapToInteger")

\* Only the upper bound is looked at.
UpperBoundOnly(pieceLength, np, total, checks) ==
    IF checks /\ pieceLength * np >= U64 THEN "panic"
    ELSE Check(total <= (pieceLength * np) % U64, "LengthMismatch")

-----------------------------------------------------------------------------
(* The keys.                                                                *)

convert_string(v) == v.kind = "string" /\ v.text # "binary"

extract_string(items, key, mandatory) ==
    IF key \notin DOMAIN items THEN Required(items, key, mandatory)
    ELSE Check(convert_string(items[key]), "KeyDoesNotMapToString")

extract_uint(items, key, mandatory) ==
    IF key \notin DOMAIN items THEN Required(items, key, mandatory)
    ELSE IF items[key].kind # "integer" THEN "KeyDoesNotMapToInteger"
    ELSE Check(items[key].num >= 0, "NegativeInteger")

String(items, key) == Then(extract_string(items, key, TRUE), Unwrap(items, key))
Uint(items, key) == Then(extract_uint(items, key, TRUE), Unwrap(items, key))

extract_list_of_string(v) ==
    IF v.kind # "list" THEN "KeyDoesNotMapToList"
    ELSE Check(\A k \in DOMAIN v.elements : convert_string(v.elements[k]), "KeyDoesNotMapToString")

\* An element is a tier of URLs, or one URL.
AnnounceListElement(v) ==
    CASE v.kind = "list" -> extract_list_of_string(v)
      [] v.kind = "string" -> Check(convert_string(v), "InvalidString")
      [] OTHER -> "InvalidAnnounceListElement"

extract_announce_list(items) ==
    LET v == items["announce-list"]
    IN  IF "announce-list" \notin DOMAIN items THEN "none"
        ELSE IF v.kind # "list" THEN "KeyDoesNotMapToList"
        ELSE IF v.elements = <<>> THEN "KeyMapsToAnEmptyList"
        ELSE FirstError([k \in DOMAIN v.elements |-> AnnounceListElement(v.elements[k])])

extract_pieces(info) ==
    IF "pieces" \notin DOMAIN info THEN "MissingRequiredKey"
    ELSE IF info["pieces"].kind # "string" THEN "KeyDoesNotMapToString"
    ELSE Check(Len(info["pieces"].bytes) % HashSize = 0, "InvalidNumberOfPieces")

NumPieces(info) == Len(info["pieces"].bytes) \div HashSize

extract_md5sum(items) ==
    IF "md5sum" \notin DOMAIN items THEN "none"
    ELSE IF items["md5sum"].kind # "string" THEN "KeyDoesNotMapToString"
    ELSE Check(Len(items["md5sum"].bytes) = Md5Size, "InvalidMd5Length")

Private(info) ==
    Then(extract_uint(info, "private", FALSE),
         Check("private" \in DOMAIN info => info["private"].num <= 1, "InvalidPrivateValue"))

-----------------------------------------------------------------------------
(* The files.                                                               *)

extract_multi_file_info(items) ==
    LET path == IF "path" \notin DOMAIN items THEN "MissingRequiredKey"
                ELSE Then(extract_list_of_string(items["path"]),
                          Check(items["path"].elements # <<>>, "KeyMapsToAnEmptyList"))
    IN  FirstError(<<Uint(items, "length"), path, extract_md5sum(items)>>)

FileElement(v) ==
    IF v.kind # "dictionary" THEN "KeyDoesNotMapToListOfStrings"
    ELSE extract_multi_file_info(v.items)

\* The exact sum of the lengths of the first k files.
LengthOfFirst(elements, k) ==
    LET LengthOf(v) == IF FileElement(v) = "none" THEN v.items["length"].num ELSE 0
        Sum[j \in 0 .. k] == IF j = 0 THEN 0 ELSE Sum[j - 1] + LengthOf(elements[j])
    IN  Sum[k]

\* The loop over the files; `length += e.length` may overflow.
Files(v, checks) ==
    IF v.kind # "list" THEN "KeyDoesNotMapToListOfStrings"
    ELSE Then(FirstError([k \in DOMAIN v.elements |->
                  Then(FileElement(v.elements[k]),
                       Check(checks => LengthOfFirst(v.elements, k) < U64, "panic"))]),
              Check(v.elements # <<>>, "KeyMapsToAnEmptyList"))

FilesOrFile(info, checks) ==
    IF "files" \in DOMAIN info THEN Files(info["files"], checks)
    ELSE Then(Uint(info, "length"), extract_md5sum(info))

\* The exact length of all files.
Length(info) ==
    IF "files" \in DOMAIN info
    THEN LengthOfFirst(info["files"].elements, Len(info["files"].elements))
    ELSE info["length"].num

\* Whether np pieces, the last of which may be shorter, hold `total` bytes.  Without
\* overflow checks every operation wraps, np - 1 for np = 0 too.
LengthCheck(pieceLength, np, total, checks) ==
    IF checks /\ (pieceLength * np >= U64 \/ np = 0) THEN "panic"
    ELSE Check(/\ (pieceLength * (np - 1)) % U64 < total
               /\ total <= (pieceLength * np) % U64, "LengthMismatch")

-----------------------------------------------------------------------------

InfoError(info, checks) ==
    Then(FirstError(<<Uint(info, "piece length"), Private(info), extract_pieces(info),
                      String(info, "name")>>),
         Then(FilesOrFile(info, checks),
              LengthCheck(info["piece length"].num, NumPieces(info), Length(info) % U64, checks)))

extract(items, checks) ==
    LET url == Then(String(items, "announce"),
                    Check(items["announce"].text \in Urls, "InvalidAnnounceUrl"))
        info == IF "info" \notin DOMAIN items THEN "MissingRequiredKey"
                ELSE IF items["info"].kind # "dictionary" THEN "KeyDoesNotMapToDictionary"
                ELSE InfoError(items["info"].items, checks)
    IN  Then(FirstError(<<url, extract_announce_list(items),
                          extract_uint(items, "creation date", FALSE),
                          extract_string(items, "comment", FALSE),
                          extract_string(items, "created by", FALSE),
                          extract_string(items, "encoding", FALSE)>>), info)

\* The TorrentFile that extract makes of items without an error.
Torrent(items) ==
    LET info == items["info"].items
    IN  [announce |-> items["announce"].text,
         num_bytes_per_piece |-> info["piece length"].num,
         num_pieces |-> NumPieces(info),
         total_num_bytes |-> Length(info) % U64,
         private |-> "private" \in DOMAIN info /\ info["private"].num = 0]

\* TorrentFile::new, of a file that is bencoded.
new(value, checks) ==
    IF value.kind # "dictionary" THEN "FileIsNotDictionary" ELSE extract(value.items, checks)
===============================================================================
