-------------------------------- MODULE InfoHash --------------------------------
(***************************************************************************)
(* A bencoded document as it is read, from the torrent file or from the    *)
(* tracker, and the way of the info hash: metadata/file.rs parses the      *)
(* document, encodes its value again and digests those bytes, and not the  *)
(* bytes it read.                                                          *)
(*                                                                         *)
(* The source of the document is external: bytes come in fragments, and    *)
(* may stop anywhere.  Bounds: Fragments and MaxFragments.                 *)
(***************************************************************************)
EXTENDS Bencode, Digest

CONSTANTS
    Fragments,       \* what a document is put together from
    MaxFragments

ASSUME InfoHashAssumption == Fragments \subseteq Seq(Byte)

VARIABLES
    contents,    \* the bytes read
    count        \* how many fragments they are

vars == <<contents, count>>

Init ==
    /\ contents = <<>>
    /\ count = 0

\* Another fragment, unless the parser finds fault with what is there.
ReadMore(f) ==
    /\ deserialize(contents).error \in {"none", "InsufficientContents"}
    /\ count < MaxFragments
    /\ contents' = contents \o f
    /\ count' = count + 1

Next == \E f \in Fragments : ReadMore(f)

Spec == Init /\ [][Next]_vars

-----------------------------------------------------------------------------
(* What must hold.                                                          *)

Accepted == ~ Failed(deserialize(contents))
Value == deserialize(contents).value
Reencoded == Encode(Value, contents)

\* A document that lacks its end is never taken for a shorter one, nor for a
\* malformed one: no part of an accepted document is accepted or refused.
TruncationIsNoticed ==
    Accepted => \A n \in 0 .. Len(contents) - 1 :
        deserialize(SubSeq(contents, 1, n)).error = "InsufficientContents"

\* The encoder loses nothing: its bytes parse to the same value.
EncodingIsParsed == Accepted => deserialize(Reencoded) = Ok(Value, Len(Reencoded) + 1)

\* The bytes that are hashed are those of the document in their order, but for bytes
\* '0', of which some may be missing if a string, hence a colon, occurs at all: the
\* encoder does not write the leading zeros that parse_string allows in lengths.  That
\* no other zero is missing is not said here; EncodingIsParsed says that those that are
\* do not count.
WithoutZeros(s) == FlattenSeq([k \in DOMAIN s |-> IF s[k] = Zero THEN <<>> ELSE <<s[k]>>])

HashedAsRead ==
    Accepted =>
        /\ WithoutZeros(Reencoded) = WithoutZeros(contents)
        /\ Len(Reencoded) <= Len(contents)
        /\ Len(Reencoded) = Len(contents) \/ Colon \notin ToSet(contents)
               => Reencoded = contents

\* The bytes that were padded, read back from the words that are digested.
Recovered(words, bigEndian) ==
    LET bytes == FlattenSeq([c \in DOMAIN words |-> from_ints(words[c], bigEndian)])
        marker == Max({k \in 1 .. Len(bytes) - FieldSize : bytes[k] # 0})
    IN  SubSeq(bytes, 1, marker - 1)

\* Nothing is lost on the way to the rounds of the digest, in either byte order:
\* different documents are different input to them.
DigestInputIsRecoverable ==
    \A bigEndian \in BOOLEAN : Recovered(Digested(contents, bigEndian), bigEndian) = contents
===============================================================================
