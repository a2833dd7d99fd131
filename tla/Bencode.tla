-------------------------------- MODULE Bencode --------------------------------
(***************************************************************************)
(* src/metadata/bencode.rs: the recursive parser BencodeParser and the     *)
(* encoder `From<&BencodeValue>`.  A byte is its number.  A parser         *)
(* function takes the bytes and a position, `pos`, and returns the value   *)
(* with the position after it, or the error; what an error says of its     *)
(* position is left out.  The functions that call each other are values of *)
(* one recursive function, `Parse`.                                        *)
(***************************************************************************)
EXTENDS Integers, SequencesExt

CONSTANT MaxInt    \* i64::MAX

ASSUME BencodeAssumption == MaxInt \in Nat

Byte == 0 .. 255
Digits == 48 .. 57
Zero == 48
Minus == 45
Colon == 58
EndMark == 101        \* e
IntegerMark == 105    \* i
ListMark == 108       \* l
DictionaryMark == 100 \* d

Integer(n) == [kind |-> "integer", num |-> n]
ByteString(s) == [kind |-> "string", bytes |-> s]
List(seq) == [kind |-> "list", elements |-> seq]
\* A BTreeMap: pairs of a key and its value in the order of the keys.
Dictionary(map) == [kind |-> "dictionary", items |-> map]

Ok(value, pos) == [error |-> "none", value |-> value, pos |-> pos]
Err(error) == [error |-> error]
Failed(r) == r.error # "none"

\* The order of byte strings, `cmp`.
Less(a, b) ==
    \/ IsStrictPrefix(a, b)
    \/ \E k \in DOMAIN a \cap DOMAIN b :
          a[k] < b[k] /\ \A j \in 1 .. k - 1 : a[j] = b[j]

-----------------------------------------------------------------------------
(* Seeded faults: operators below with one plausible mistake.               *)

\* The order of the keys is not looked at.
AnyOrder(a, b) == a # b

\* Only the last digit is written.
OneDigit(n) == <<Zero + (n % 10)>>

-----------------------------------------------------------------------------
(* The parser.                                                              *)

Available(s, pos) == pos <= Len(s)

\* The `?` operator: an error is the result, and a value is continued with.
Try(r, Continue(_)) == IF Failed(r) THEN r ELSE Continue(r)

\* The places from pos on that hold no digit.
AfterDigits(s, pos) == {q \in pos .. Len(s) : s[q] \notin Digits}

Number(digits) ==
    LET N[k \in 0 .. Len(digits)] == IF k = 0 THEN 0 ELSE 10 * N[k - 1] + (digits[k] - Zero)
    IN  N[Len(digits)]

parse_integer_value(s, pos, leadingZerosAllowed) ==
    IF AfterDigits(s, pos) = {} THEN Err("InsufficientContents")
    ELSE LET next == Min(AfterDigits(s, pos))
             digits == SubSeq(s, pos, next - 1)
         IN  IF next = pos THEN Err("EmptyInteger")
             ELSE IF ~ leadingZerosAllowed /\ s[pos] = Zero /\ next > pos + 1
                  THEN Err("IntegerWithLeadingZeros")
             ELSE IF Number(digits) > MaxInt THEN Err("IllegalInteger")
             ELSE Ok(Number(digits), next)

parse_integer(s, pos) ==
    LET negative == Available(s, pos + 1) /\ s[pos + 1] = Minus
    IN  Try(parse_integer_value(s, IF negative THEN pos + 2 ELSE pos + 1, FALSE),
            LAMBDA r : IF negative /\ r.value = 0 THEN Err("IllegalInteger")
                       ELSE IF s[r.pos] # EndMark THEN Err("UnterminatedValue")
                       ELSE Ok(Integer(IF negative THEN - r.value ELSE r.value), r.pos + 1))

parse_string(s, pos) ==
    Try(parse_integer_value(s, pos, TRUE),
        LAMBDA length :
            IF s[length.pos] # Colon THEN Err("StringMissingSeparator")
            ELSE IF length.pos + length.value > Len(s) THEN Err("InsufficientContents")
            ELSE Ok(ByteString(SubSeq(s, length.pos + 1, length.pos + length.value)),
                    length.pos + length.value + 1))

\* A value, and what is left of a list or of a dictionary whose last key, if it has
\* one, is in `last`.
Calls == [parse : {"value", "list", "dictionary"}, pos : Nat \ {0}, last : Seq(Seq(Byte))]
ValueAt(pos) == [parse |-> "value", pos |-> pos, last |-> <<>>]
ElementsFrom(pos) == [parse |-> "list", pos |-> pos, last |-> <<>>]
ItemsFrom(pos, last) == [parse |-> "dictionary", pos |-> pos, last |-> last]

parse_list(Parse, pos) ==
    Try(Parse[ElementsFrom(pos + 1)], LAMBDA r : Ok(List(r.value), r.pos))

parse_dictionary(Parse, pos) ==
    Try(Parse[ItemsFrom(pos + 1, <<>>)], LAMBDA r : Ok(Dictionary(r.value), r.pos))

parse_value(s, Parse, pos) ==
    IF ~ Available(s, pos) THEN Err("InsufficientContents")
    ELSE CASE s[pos] = IntegerMark -> parse_integer(s, pos)
           [] s[pos] = ListMark -> parse_list(Parse, pos)
           [] s[pos] = DictionaryMark -> parse_dictionary(Parse, pos)
           [] s[pos] \in Digits -> parse_string(s, pos)
           [] OTHER -> Err("UnknownType")

\* The loop of parse_list from pos on.
Elements(s, Parse, pos) ==
    IF ~ Available(s, pos) THEN Err("InsufficientContents")
    ELSE IF s[pos] = EndMark THEN Ok(<<>>, pos + 1)
    ELSE Try(Parse[ValueAt(pos)], LAMBDA v :
             Try(Parse[ElementsFrom(v.pos)], LAMBDA rest :
                 Ok(<<v.value>> \o rest.value, rest.pos)))

InOrder(last, key) == Less(last, key)

\* BTreeMap::insert of a key that is not there.
Insert(map, key, value) ==
    InsertAt(map, 1 + Cardinality({k \in DOMAIN map : Less(map[k].key, key)}),
             [key |-> key, value |-> value])

\* The loop of parse_dictionary.  A key is compared with the last one before its value
\* is parsed.
Items(s, Parse, pos, last) ==
    IF ~ Available(s, pos) THEN Err("InsufficientContents")
    ELSE IF s[pos] = EndMark THEN Ok(<<>>, pos + 1)
    ELSE Try(parse_string(s, pos), LAMBDA r :
             LET key == r.value.bytes
             IN  IF last = <<key>> THEN Err("DuplicateDictionaryKey")
                 ELSE IF last # <<>> /\ ~ InOrder(last[1], key)
                      THEN Err("DictionaryKeysOutOfOrder")
                 ELSE Try(Parse[ValueAt(r.pos)], LAMBDA v :
                          Try(Parse[ItemsFrom(v.pos, <<key>>)], LAMBDA rest :
                              Ok(Insert(rest.value, key, v.value), rest.pos))))

Step(s, Parse, c) ==
    CASE c.parse = "value" -> parse_value(s, Parse, c.pos)
      [] c.parse = "list" -> Elements(s, Parse, c.pos)
      [] c.parse = "dictionary" -> Items(s, Parse, c.pos, c.last)

Parser(s) == LET Parse[c \in Calls] == Step(s, Parse, c) IN Parse

\* Seeded fault: what follows the value is not looked at.
DeserializeStart(s) == Parser(s)[ValueAt(1)]

\* BencodeValue::try_from.
deserialize(s) ==
    Try(Parser(s)[ValueAt(1)],
        LAMBDA r : IF r.pos # Len(s) + 1 THEN Err("UnconsumedContents") ELSE r)

-----------------------------------------------------------------------------
(* The encoder.                                                             *)

DigitsOf(n) ==
    LET Decimal[m \in 0 .. n] ==
            IF m < 10 THEN <<Zero + m>> ELSE Append(Decimal[m \div 10], Zero + (m % 10))
    IN  Decimal[n]

EncodeBytes(s) == DigitsOf(Len(s)) \o <<Colon>> \o s

EncodeValue(Encoding, v) ==
    CASE v.kind = "integer" ->
             <<IntegerMark>> \o (IF v.num < 0 THEN <<Minus>> \o DigitsOf(- v.num)
                                 ELSE DigitsOf(v.num)) \o <<EndMark>>
      [] v.kind = "string" -> EncodeBytes(v.bytes)
      [] v.kind = "list" ->
             <<ListMark>> \o FlattenSeq([k \in DOMAIN v.elements |-> Encoding[v.elements[k]]])
                 \o <<EndMark>>
      [] v.kind = "dictionary" ->
             <<DictionaryMark>>
                 \o FlattenSeq([k \in DOMAIN v.items |->
                                   EncodeBytes(v.items[k].key) \o Encoding[v.items[k].value]])
                 \o <<EndMark>>

\* The values that are somewhere in the document s.
ValuesIn(s) ==
    LET results == {Parser(s)[ValueAt(pos)] : pos \in 1 .. Len(s)}
    IN  {r.value : r \in {q \in results : ~ Failed(q)}}

\* Vec::from, of a value that was read in s.
Encode(v, s) == LET Encoding[w \in ValuesIn(s)] == EncodeValue(Encoding, w) IN Encoding[v]
===============================================================================
