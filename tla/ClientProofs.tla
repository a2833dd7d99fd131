----------------------------- MODULE ClientProofs -----------------------------
(***************************************************************************)
(* What the length check of TorrentFile::extract guarantees, for integers  *)
(* of every width, why the program panics, what its success says, which    *)
(* peers it connects to, and what a tracker reads in the announce URL.     *)
(* The assumption about the documents, ClientAssumption, is about the      *)
(* types that the parser gives values.                                     *)
(***************************************************************************)
EXTENDS Client, Recursion

-----------------------------------------------------------------------------
(* The arithmetic.                                                          *)

\* A number within the width does not wrap, and a product that does not stays so
\* with a smaller factor.
LEMMA NoWrap ==
    ASSUME NEW n \in Nat, n < U64
    PROVE  n % U64 = n
BY MetainfoAssumption

\* Pieces and files that pass the check without an overflow fit together, and there is
\* a piece, with bytes in it.
THEOREM CheckedLengthsFit ==
    ASSUME NEW pieceLength \in 0 .. U64 - 1, NEW np \in Nat, NEW total \in Nat,
           NEW build \in BOOLEAN,
           LengthCheck(pieceLength, np, total, build) = "none",
           build \/ pieceLength * np < U64
    PROVE  /\ np > 0 /\ pieceLength > 0 /\ total > 0
           /\ pieceLength * (np - 1) < total
           /\ total <= pieceLength * np
<1> DEFINE upper == pieceLength * np
           lower == pieceLength * (np - 1)
<1>1. pieceLength \in Nat /\ U64 \in Nat \ {0} /\ pieceLength < U64
  BY MetainfoAssumption
<1>2. lower = upper - pieceLength /\ upper \in Nat /\ lower \in Int
  BY <1>1
<1>3. np = 0 => upper = 0
  BY <1>1
<1>4. np > 0 => lower \in Nat
  BY <1>1
<1>5. /\ upper < U64
      /\ lower % U64 < total /\ total <= upper % U64
  <2>1. ~ (build /\ (upper >= U64 \/ np = 0))
    BY DEF LengthCheck
  <2>2. upper < U64
    BY <1>1, <1>2, <2>1
  <2>3. Check(lower % U64 < total /\ total <= upper % U64, "LengthMismatch") = "none"
    BY <2>1 DEF LengthCheck
  <2>4. lower % U64 < total /\ total <= upper % U64
    BY <2>3, Zenon DEF Check
  <2> QED
    BY <2>2, <2>4
<1> HIDE DEF upper, lower
<1>6. upper % U64 = upper
  BY <1>2, <1>5, NoWrap
<1>7. np > 0
  <2>1. ASSUME np = 0 PROVE FALSE
    <3>1. lower % U64 \in Nat
      BY <1>1, <1>2
    <3> QED
      BY <1>3, <1>5, <1>6, <2>1, <3>1
  <2> QED
    BY <2>1
<1>8. lower % U64 = lower
  BY <1>1, <1>2, <1>4, <1>5, <1>7, NoWrap
<1>9. lower < total /\ total <= upper
  BY <1>5, <1>6, <1>8
<1>10. pieceLength > 0 /\ total > 0
  BY <1>1, <1>2, <1>4, <1>7, <1>9
<1> QED
  BY <1>7, <1>9, <1>10 DEF upper, lower

\* A torrent without pieces is refused, or ends a build with overflow checks, whatever
\* wraps.
THEOREM NoPiecesNeverFit ==
    ASSUME NEW pieceLength \in 0 .. U64 - 1, NEW total \in Nat, NEW build \in BOOLEAN
    PROVE  LengthCheck(pieceLength, 0, total, build) # "none"
<1>1. pieceLength * 0 = 0 /\ 0 % U64 = 0 /\ pieceLength * (0 - 1) \in Int
  BY MetainfoAssumption
<1>2. (pieceLength * (0 - 1)) % U64 \in Nat
  BY <1>1, MetainfoAssumption
<1>3. ~ ((pieceLength * (0 - 1)) % U64 < total /\ total <= (pieceLength * 0) % U64)
  BY <1>1, <1>2
<1> QED
  BY <1>3 DEF LengthCheck, Check

-----------------------------------------------------------------------------
(* The `?` operator over a list: no error is no error of any element.       *)

LEMMA SmallestOf ==
    ASSUME NEW S \in SUBSET Nat, S # {}
    PROVE  Min(S) \in S
<1>1. PICK x \in S : \A y \in S : x <= y
  BY LeastOf
<1> QED
  BY <1>1 DEF Min

\* Where no first error is found there is none.
LEMMA NoErrorAmong ==
    ASSUME NEW errors, DOMAIN errors \subseteq Nat, FirstError(errors) = "none"
    PROVE  \A k \in DOMAIN errors : errors[k] = "none"
<1> DEFINE failed == {k \in DOMAIN errors : errors[k] # "none"}
<1>1. CASE failed = {}
  BY <1>1
<1>2. CASE failed # {}
  <2>1. Min(failed) \in failed
    BY <1>2, SmallestOf
  <2>2. errors[Min(failed)] = "none"
    BY <1>2 DEF FirstError
  <2> QED
    BY <2>1, <2>2
<1> QED
  BY <1>1, <1>2

\* A panic is one of an element.
LEMMA PanicAmong ==
    ASSUME NEW errors, DOMAIN errors \subseteq Nat, FirstError(errors) = "panic"
    PROVE  \E k \in DOMAIN errors : errors[k] = "panic"
<1> DEFINE failed == {k \in DOMAIN errors : errors[k] # "none"}
<1>1. failed # {} /\ errors[Min(failed)] = "panic"
  BY DEF FirstError
<1>2. Min(failed) \in failed
  BY <1>1, SmallestOf
<1> QED
  BY <1>1, <1>2

\* Two checks pass if both do ...
LEMMA ThenNone ==
    ASSUME NEW e, NEW f
    PROVE  Then(e, f) = "none" <=> e = "none" /\ f = "none"
BY Zenon DEF Then

\* ... and panic if the first does, or the second after the first has passed.
LEMMA ThenPanics ==
    ASSUME NEW e, NEW f, Then(e, f) = "panic"
    PROVE  e = "panic" \/ (e = "none" /\ f = "panic")
BY Zenon DEF Then

-----------------------------------------------------------------------------
(* The keys: no unwrap fails, and what a key without an error holds.        *)

LEMMA UintIsSafe ==
    ASSUME NEW items, NEW key
    PROVE  /\ Uint(items, key) # "panic"
           /\ Uint(items, key) = "none" =>
                  key \in DOMAIN items /\ items[key].kind = "integer" /\ items[key].num >= 0
BY DEF Uint, Then, extract_uint, Required, Unwrap, Check

\* No string key makes extract panic ...
LEMMA StringIsSafe ==
    ASSUME NEW items, NEW key
    PROVE  String(items, key) # "panic"
BY DEF String, Then, extract_string, Required, Unwrap, Check

\* ... nor does an optional one, a digest, the pieces or the private flag ...
LEMMA OptionalIsSafe ==
    ASSUME NEW items, NEW key
    PROVE  /\ extract_uint(items, key, FALSE) # "panic"
           /\ extract_string(items, key, FALSE) # "panic"
           /\ extract_md5sum(items) # "panic"
           /\ extract_pieces(items) # "panic"
           /\ Private(items) # "panic"
BY DEF extract_uint, extract_string, extract_md5sum, extract_pieces, Private, Then, Required, Check

\* ... nor a list of strings.
LEMMA ListIsSafe ==
    ASSUME NEW v
    PROVE  extract_list_of_string(v) # "panic" /\ AnnounceListElement(v) # "panic"
<1>1. extract_list_of_string(v) # "panic"
  BY DEF extract_list_of_string, Check
<1> QED
  BY <1>1 DEF AnnounceListElement, Check

\* A sequence has a length.
LEMMA IsOrdered ==
    ASSUME NEW s, IsSequence(s)
    PROVE  Len(s) \in Nat /\ DOMAIN s = 1 .. Len(s) /\ (s # <<>> => Len(s) # 0)
BY DEF IsSequence

\* The errors of a list are a sequence, and no panic is in it.
LEMMA AnnounceListIsSafe ==
    ASSUME NEW items, Parsed(items)
    PROVE  extract_announce_list(items) # "panic"
<1> DEFINE v == items["announce-list"]
           errors == [k \in DOMAIN v.elements |-> AnnounceListElement(v.elements[k])]
<1>1. SUFFICES ASSUME extract_announce_list(items) = "panic" PROVE FALSE
  OBVIOUS
<1>2. "announce-list" \in DOMAIN items /\ v.kind = "list" /\ FirstError(errors) = "panic"
  BY <1>1 DEF extract_announce_list
<1>3. IsSequence(v.elements)
  BY <1>2 DEF Parsed
<1>4. DOMAIN errors \subseteq Nat
  BY <1>3, IsOrdered
<1>5. \E k \in DOMAIN errors : errors[k] = "panic"
  BY <1>2, <1>4, PanicAmong
<1> QED
  BY <1>5, ListIsSafe

\* An entry of files panics never, and has a length that is not negative if it passes.
LEMMA FileIsSafe ==
    ASSUME NEW v
    PROVE  /\ FileElement(v) # "panic"
           /\ FileElement(v) = "none" =>
                  /\ v.kind = "dictionary" /\ "length" \in DOMAIN v.items
                  /\ v.items["length"].kind = "integer" /\ v.items["length"].num >= 0
<1> DEFINE items == v.items
           path == IF "path" \notin DOMAIN items THEN "MissingRequiredKey"
                   ELSE Then(extract_list_of_string(items["path"]),
                             Check(items["path"].elements # <<>>, "KeyMapsToAnEmptyList"))
           uint == Uint(items, "length")
           sum == extract_md5sum(items)
           errors == <<uint, path, sum>>
<1>1. uint # "panic" /\ path # "panic" /\ sum # "panic"
  <2>1. path # "panic"
    BY ListIsSafe, ThenPanics DEF Check
  <2> QED
    BY <2>1, UintIsSafe, OptionalIsSafe, Zenon
<1>2. extract_multi_file_info(items) = FirstError(errors)
  BY DEF extract_multi_file_info
<1> HIDE DEF uint, path, sum
<1>3. DOMAIN errors = 1 .. 3 /\ errors[1] = uint /\ errors[2] = path /\ errors[3] = sum
  OBVIOUS
<1> HIDE DEF errors
<1>4. DOMAIN errors \subseteq Nat /\ \A k \in 1 .. 3 : k = 1 \/ k = 2 \/ k = 3
  BY <1>3
<1>5. FirstError(errors) # "panic"
  BY <1>1, <1>3, <1>4, PanicAmong
<1>6. FirstError(errors) = "none" => uint = "none"
  BY <1>3, <1>4, NoErrorAmong
<1>7. uint = "none" => "length" \in DOMAIN items /\ items["length"].kind = "integer"
                       /\ items["length"].num >= 0
  BY UintIsSafe DEF uint
<1> QED
  BY <1>2, <1>5, <1>6, <1>7 DEF FileElement

-----------------------------------------------------------------------------
(* The sum of the files' lengths.                                           *)

FileLength(v) == IF FileElement(v) = "none" THEN v.items["length"].num ELSE 0

Adds(f, elements, n) ==
    f[0] = 0 /\ \A j \in 1 .. n : f[j] = f[j - 1] + FileLength(elements[j])

\* The recursive function of LengthOfFirst is any that adds one length at a time.
LEMMA SumUnfolds ==
    ASSUME NEW elements, NEW n \in Nat, NEW f, Adds(f, elements, n)
    PROVE  \A k \in 0 .. n : LengthOfFirst(elements, k) = f[k]
<1> SUFFICES ASSUME NEW k \in 0 .. n PROVE LengthOfFirst(elements, k) = f[k]
  OBVIOUS
<1> USE DEF Adds
<1> DEFINE Unfolded(g) ==
               g = [j \in 0 .. k |-> IF j = 0 THEN 0 ELSE g[j - 1] + FileLength(elements[j])]
           chosen == CHOOSE g : Unfolded(g)
           h == [j \in 0 .. k |-> f[j]]
<1>1. LengthOfFirst(elements, k) = chosen[k]
  BY DEF LengthOfFirst, FileLength
<1>2. Unfolded(h)
  <2>1. ASSUME NEW j \in 0 .. k
        PROVE  f[j] = IF j = 0 THEN 0 ELSE h[j - 1] + FileLength(elements[j])
    <3>1. CASE j # 0
      <4>1. j \in 1 .. n /\ j - 1 \in 0 .. k
        BY <3>1
      <4>2. h[j - 1] = f[j - 1]
        BY <4>1
      <4> HIDE DEF h
      <4> QED
        BY <3>1, <4>1, <4>2
    <3> QED
      BY <3>1
  <2> QED
    BY <2>1
<1>3. Unfolded(chosen)
  <2> HIDE DEF Unfolded, h
  <2> QED
    BY <1>2, Zenon
<1> HIDE DEF chosen, h
<1>4. \A j \in 0 .. k : chosen[j] = IF j = 0 THEN 0 ELSE chosen[j - 1] + FileLength(elements[j])
  BY <1>3
<1> DEFINE T == {j \in 0 .. k : chosen[j] = f[j]}
<1>5. 0 \in T
  BY <1>4
<1>6. \A j \in 0 .. k : j < k /\ j \in T => j + 1 \in T
  <2> SUFFICES ASSUME NEW j \in 0 .. k, j < k, j \in T PROVE j + 1 \in T
    BY Zenon
  <2>1. j + 1 \in 1 .. n /\ j + 1 \in 0 .. k /\ (j + 1) - 1 = j /\ j + 1 # 0
    OBVIOUS
  <2>2. chosen[j + 1] = chosen[j] + FileLength(elements[j + 1])
    BY <1>4, <2>1
  <2>3. f[j + 1] = f[j] + FileLength(elements[j + 1])
    BY <2>1
  <2>4. chosen[j + 1] = f[j + 1]
    BY <2>2, <2>3
  <2> QED
    BY <2>1, <2>4
<1> HIDE DEF T
<1>7. k \in T
  BY <1>5, <1>6, BoundedInduction
<1> QED
  BY <1>1, <1>7 DEF T

\* It is a number, and no less for more files.
LEMMA SumGrows ==
    ASSUME NEW elements, NEW n \in Nat, \A j \in 1 .. n : FileLength(elements[j]) \in Nat,
           NEW k \in 0 .. n
    PROVE  /\ LengthOfFirst(elements, k) \in Nat /\ LengthOfFirst(elements, n) \in Nat
           /\ LengthOfFirst(elements, k) <= LengthOfFirst(elements, n)
<1> DEFINE size == [j \in 1 .. n |-> FileLength(elements[j])]
           step == [x \in (1 .. n) \X Nat |-> x[2] + size[x[1]]]
<1>1. size \in [1 .. n -> Nat]
  OBVIOUS
<1>2. step \in [(1 .. n) \X Nat -> Nat]
  <2> HIDE DEF size
  <2> QED
    BY <1>1
<1>3. PICK f \in [0 .. n -> Nat] : Iterates(f, n, 0, step)
  <2> HIDE DEF step
  <2> QED
    BY <1>2, Iteration
<1>4. Adds(f, elements, n)
  <2>1. ASSUME NEW j \in 1 .. n PROVE f[j] = f[j - 1] + FileLength(elements[j])
    <3>1. j - 1 \in 0 .. n
      OBVIOUS
    <3>2. <<j, f[j - 1]>> \in (1 .. n) \X Nat
      BY <1>3, <3>1
    <3>3. size[j] = FileLength(elements[j])
      OBVIOUS
    <3> HIDE DEF size
    <3>4. step[<<j, f[j - 1]>>] = f[j - 1] + size[j]
      BY <3>2
    <3> QED
      BY <1>3, <3>3, <3>4 DEF Iterates
  <2> QED
    BY <1>3, <2>1 DEF Iterates, Adds
<1> HIDE DEF size, step
<1>5. LengthOfFirst(elements, k) = f[k] /\ LengthOfFirst(elements, n) = f[n]
  <2>1. n \in 0 .. n
    OBVIOUS
  <2> QED
    BY <1>4, <2>1, SumUnfolds
<1> DEFINE T == {j \in 0 .. n : k <= j => f[k] <= f[j]}
<1>6. 0 \in T
  <2>1. f[k] \in Nat /\ 0 \in 0 .. n /\ (k <= 0 => k = 0)
    OBVIOUS
  <2> QED
    BY <2>1
<1>7. \A j \in 0 .. n : j < n /\ j \in T => j + 1 \in T
  <2> SUFFICES ASSUME NEW j \in 0 .. n, j < n, j \in T PROVE j + 1 \in T
    BY Zenon
  <2>1. j + 1 \in 1 .. n /\ j + 1 \in 0 .. n /\ (j + 1) - 1 = j
    OBVIOUS
  <2>2. f[j + 1] = f[j] + FileLength(elements[j + 1]) /\ FileLength(elements[j + 1]) \in Nat
    BY <1>4, <2>1 DEF Adds
  <2>3. f[j + 1] \in Nat /\ f[j] \in Nat /\ f[k] \in Nat
    BY <2>1
  <2>4. k <= j + 1 => f[k] <= f[j + 1]
    <3>1. CASE k = j + 1
      BY <2>3, <3>1
    <3>2. CASE k <= j
      BY <2>2, <2>3, <3>2
    <3> QED
      BY <3>1, <3>2
  <2> QED
    BY <2>1, <2>4
<1> HIDE DEF T
<1>8. n \in T
  BY <1>6, <1>7, BoundedInduction
<1> QED
  BY <1>5, <1>8 DEF T

\* What a dictionary of files without an error has.
LEMMA FileLengthIsNatural ==
    ASSUME NEW v, v.kind = "dictionary" => Parsed(v.items)
    PROVE  FileLength(v) \in Nat
<1>1. CASE FileElement(v) = "none"
  <2>1. /\ v.kind = "dictionary" /\ "length" \in DOMAIN v.items
        /\ v.items["length"].kind = "integer" /\ v.items["length"].num >= 0
    BY <1>1, FileIsSafe
  <2>2. v.items["length"].num \in -(U64 \div 2) .. (U64 \div 2) - 1
    BY <2>1, Zenon DEF Parsed
  <2>3. v.items["length"].num \in Nat
    <3> DEFINE num == v.items["length"].num
               half == U64 \div 2
    <3>1. half \in Int
      BY MetainfoAssumption
    <3> HIDE DEF half
    <3>2. num \in Int /\ num >= 0
      BY <2>1, <2>2, <3>1 DEF half
    <3> HIDE DEF num
    <3> QED
      BY <3>2 DEF num
  <2> QED
    BY <1>1, <2>3 DEF FileLength
<1> QED
  BY <1>1 DEF FileLength

\* An integer that is not negative is a u64.
LEMMA UintFits ==
    ASSUME NEW items, NEW key, Parsed(items), Uint(items, key) = "none"
    PROVE  items[key].num \in 0 .. U64 - 1
<1> DEFINE num == items[key].num
<1>1. key \in DOMAIN items /\ items[key].kind = "integer" /\ num >= 0
  BY UintIsSafe
<1>2. num \in -(U64 \div 2) .. (U64 \div 2) - 1
  BY <1>1, Zenon DEF Parsed
<1> HIDE DEF num
<1>3. num \in 0 .. U64 - 1
  BY <1>1, <1>2, MetainfoAssumption
<1> QED
  BY <1>3 DEF num

-----------------------------------------------------------------------------
(* Why extract ends the program, and what it has seen when it does not.     *)

\* The lengths of a list of files.
LEMMA FilesLengths ==
    ASSUME NEW items, ParsedFile(items), IsDictionary(items, "info"),
           IsList(items["info"].items, "files")
    PROVE  LET elements == items["info"].items["files"].elements
           IN  /\ IsSequence(elements)
               /\ \A k \in 1 .. Len(elements) : FileLength(elements[k]) \in Nat
<1> DEFINE info == items["info"].items
           elements == info["files"].elements
<1>1. /\ Parsed(info)
      /\ \A k \in DOMAIN elements :
             elements[k].kind = "dictionary" => Parsed(elements[k].items)
  BY Zenon DEF ParsedFile
<1>2. "files" \in DOMAIN info /\ info["files"].kind = "list"
  BY DEF IsList
<1> HIDE DEF info
<1>3. IsSequence(elements)
  BY <1>1, <1>2 DEF Parsed
<1>4. \A k \in DOMAIN elements : FileLength(elements[k]) \in Nat
  BY <1>1, FileLengthIsNatural
<1> HIDE DEF elements
<1>5. DOMAIN elements = 1 .. Len(elements)
  BY <1>3, IsOrdered
<1> QED
  BY <1>3, <1>4, <1>5 DEF elements, info

\* The loop over the files panics where the sum of their lengths does not fit.
LEMMA WhyFilesPanic ==
    ASSUME NEW v, NEW build \in BOOLEAN, Files(v, build) = "panic",
           v.kind = "list" => /\ IsSequence(v.elements)
                              /\ \A k \in 1 .. Len(v.elements) : FileLength(v.elements[k]) \in Nat
    PROVE  build /\ LengthOfFirst(v.elements, Len(v.elements)) >= U64
<1> DEFINE elements == v.elements
           n == Len(elements)
           ErrorAt(k) == Then(FileElement(elements[k]),
                              Check(build => LengthOfFirst(elements, k) < U64, "panic"))
           errors == [k \in DOMAIN elements |-> ErrorAt(k)]
<1>1. v.kind = "list" /\ FirstError(errors) = "panic"
  <2>1. Check(elements # <<>>, "KeyMapsToAnEmptyList") # "panic"
    BY DEF Check
  <2>2. /\ v.kind = "list"
        /\ Then(FirstError(errors), Check(elements # <<>>, "KeyMapsToAnEmptyList")) = "panic"
    BY DEF Files
  <2> QED
    BY <2>1, <2>2, ThenPanics, Zenon
<1>2. /\ n \in Nat /\ DOMAIN elements = 1 .. n
      /\ \A k \in 1 .. n : FileLength(elements[k]) \in Nat
  BY <1>1, IsOrdered, Zenon
<1>3. PICK k \in DOMAIN elements : ErrorAt(k) = "panic"
  <2>1. DOMAIN errors \subseteq Nat /\ DOMAIN errors = DOMAIN elements
    BY <1>2
  <2>2. PICK k \in DOMAIN errors : errors[k] = "panic"
    BY <1>1, <2>1, PanicAmong, Zenon
  <2> QED
    BY <2>1, <2>2
<1>4. build /\ ~ (LengthOfFirst(elements, k) < U64)
  <2>1. Check(build => LengthOfFirst(elements, k) < U64, "panic") = "panic"
    BY <1>3, ThenPanics, FileIsSafe, Zenon
  <2> QED
    BY <2>1 DEF Check
<1> HIDE DEF elements, n
<1>5. k \in 0 .. n
  BY <1>2
<1>6. /\ LengthOfFirst(elements, k) \in Nat /\ LengthOfFirst(elements, n) \in Nat
      /\ LengthOfFirst(elements, k) <= LengthOfFirst(elements, n)
  BY <1>2, <1>5, SumGrows, Zenon
<1> DEFINE a == LengthOfFirst(elements, k)
           b == LengthOfFirst(elements, n)
<1>7. a \in Nat /\ b \in Nat /\ a <= b /\ ~ (a < U64)
  BY <1>4, <1>6
<1> HIDE DEF a, b
<1>8. b >= U64
  BY <1>7, MetainfoAssumption
<1> QED
  BY <1>4, <1>8 DEF b, n, elements

\* What extract requires of the keys of the info dictionary before it counts.
LEMMA KeysOfInfo ==
    ASSUME NEW info
    PROVE  LET e == FirstError(<<Uint(info, "piece length"), Private(info),
                                 extract_pieces(info), String(info, "name")>>)
           IN  /\ e # "panic"
               /\ e = "none" => /\ Uint(info, "piece length") = "none"
                                /\ extract_pieces(info) = "none"
<1> DEFINE e1 == Uint(info, "piece length")
           e2 == Private(info)
           e3 == extract_pieces(info)
           e4 == String(info, "name")
           errors == <<e1, e2, e3, e4>>
<1>1. e1 # "panic" /\ e2 # "panic" /\ e3 # "panic" /\ e4 # "panic"
  BY UintIsSafe, OptionalIsSafe, StringIsSafe, Zenon
<1> HIDE DEF e1, e2, e3, e4
<1>2. /\ DOMAIN errors = 1 .. 4
      /\ errors[1] = e1 /\ errors[2] = e2 /\ errors[3] = e3 /\ errors[4] = e4
  OBVIOUS
<1> HIDE DEF errors
<1>3. DOMAIN errors \subseteq Nat /\ \A k \in 1 .. 4 : k = 1 \/ k = 2 \/ k = 3 \/ k = 4
  BY <1>2
<1>4. FirstError(errors) # "panic"
  BY <1>1, <1>2, <1>3, PanicAmong
<1>5. FirstError(errors) = "none" => e1 = "none" /\ e3 = "none"
  BY <1>2, <1>3, NoErrorAmong
<1> QED
  BY <1>4, <1>5 DEF errors, e1, e2, e3, e4

\* extract panics only in the arithmetic, of a build that looks for overflows.
LEMMA WhyPanic ==
    ASSUME NEW value \in Documents, NEW build \in BOOLEAN, new(value, build) = "panic"
    PROVE  build /\ (Overflows(value.items) \/ NumPieces(value.items["info"].items) = 0)
<1> DEFINE items == value.items
           info == items["info"].items
           url == Then(String(items, "announce"),
                       Check(items["announce"].text \in Urls, "InvalidAnnounceUrl"))
           fromInfo == IF "info" \notin DOMAIN items THEN "MissingRequiredKey"
                       ELSE IF items["info"].kind # "dictionary" THEN "KeyDoesNotMapToDictionary"
                       ELSE InfoError(info, build)
           list == extract_announce_list(items)
           date == extract_uint(items, "creation date", FALSE)
           comment == extract_string(items, "comment", FALSE)
           by == extract_string(items, "created by", FALSE)
           encoding == extract_string(items, "encoding", FALSE)
           errors == <<url, list, date, comment, by, encoding>>
<1>1. value.kind = "dictionary" /\ Then(FirstError(errors), fromInfo) = "panic"
  BY Zenon DEF new, extract
<1>2. ParsedFile(items)
  BY <1>1, ClientAssumption, Zenon
<1>3. FirstError(errors) # "panic"
  <2>1. url # "panic"
    <3>1. Check(items["announce"].text \in Urls, "InvalidAnnounceUrl") # "panic"
      BY DEF Check
    <3> QED
      BY <3>1, StringIsSafe, ThenPanics, Zenon
  <2>2. list # "panic"
    BY <1>2, AnnounceListIsSafe, Zenon DEF ParsedFile
  <2>3. date # "panic" /\ comment # "panic" /\ by # "panic" /\ encoding # "panic"
    BY OptionalIsSafe, Zenon
  <2> HIDE DEF url, list, date, comment, by, encoding
  <2>4. /\ DOMAIN errors = 1 .. 6
        /\ errors[1] = url /\ errors[2] = list /\ errors[3] = date
        /\ errors[4] = comment /\ errors[5] = by /\ errors[6] = encoding
    OBVIOUS
  <2> HIDE DEF errors
  <2>5. /\ DOMAIN errors \subseteq Nat
        /\ \A k \in 1 .. 6 : k = 1 \/ k = 2 \/ k = 3 \/ k = 4 \/ k = 5 \/ k = 6
    BY <2>4
  <2> QED
    BY <2>1, <2>2, <2>3, <2>4, <2>5, PanicAmong
<1>4. IsDictionary(items, "info") /\ InfoError(info, build) = "panic"
  <2>1. fromInfo = "panic"
    BY <1>1, <1>3, ThenPanics, Zenon
  <2> QED
    BY <2>1 DEF IsDictionary
<1> DEFINE keys == FirstError(<<Uint(info, "piece length"), Private(info),
                                extract_pieces(info), String(info, "name")>>)
           files == FilesOrFile(info, build)
           fit == LengthCheck(info["piece length"].num, NumPieces(info), Length(info) % U64, build)
<1>5. files = "panic" \/ (keys = "none" /\ fit = "panic")
  <2>1. Then(keys, Then(files, fit)) = "panic"
    BY <1>4, Zenon DEF InfoError
  <2>2. keys # "panic"
    BY KeysOfInfo
  <2> QED
    BY <2>1, <2>2, ThenPanics, Zenon
<1>6. CASE files = "panic"
  <2>1. "files" \in DOMAIN info /\ Files(info["files"], build) = "panic"
    <3>1. Then(Uint(info, "length"), extract_md5sum(info)) # "panic"
      BY UintIsSafe, OptionalIsSafe, ThenPanics, Zenon
    <3> QED
      BY <1>6, <3>1 DEF FilesOrFile
  <2> DEFINE elements == info["files"].elements
  <2>2. info["files"].kind = "list" =>
            /\ IsSequence(elements)
            /\ \A k \in 1 .. Len(elements) : FileLength(elements[k]) \in Nat
    BY <1>2, <1>4, <2>1, FilesLengths, Zenon DEF IsList
  <2>3. build /\ LengthOfFirst(elements, Len(elements)) >= U64
    BY <2>1, <2>2, WhyFilesPanic, Zenon
  <2>4. Length(info) >= U64
    BY <2>1, <2>3 DEF Length
  <2> QED
    BY <2>3, <2>4 DEF Overflows
<1>7. CASE fit = "panic"
  <2>1. build /\ (info["piece length"].num * NumPieces(info) >= U64 \/ NumPieces(info) = 0)
    <3>1. \A c : Check(c, "LengthMismatch") # "panic"
      BY DEF Check
    <3> QED
      BY <1>7, <3>1, Zenon DEF LengthCheck
  <2> QED
    BY <2>1, Zenon DEF Overflows
<1> QED
  BY <1>5, <1>6, <1>7

-----------------------------------------------------------------------------
(* The program.                                                             *)

\* The torrent that is worked on is what extract made of the file.
Accepted == new(document, checks) = "none" /\ torrent = Torrent(document.items)

\* Pieces are done only in a download, with peers, and if their length is right.
CInv ==
    /\ checks \in BOOLEAN /\ document \in Documents
    /\ torrent = NoTorrent \/ Accepted
    /\ at \in {"parsed", "asking", "answered", "downloading", "ok"} => Accepted
    /\ at \in {"started", "parsed", "asking", "answered"} => done = {}
    /\ done # {} => peers # <<>>
    /\ \A k \in done : Tiled => length = SizeOf(k)
    /\ at = "ok" => done = 0 .. torrent.num_pieces - 1 /\ torrent.num_pieces # 0

\* The program starts without a torrent ...
LEMMA CInit == Init => CInv
BY DEF Init, CInv

\* A step that keeps the file, the torrent and the pieces.
LEMMA Elsewhere ==
    ASSUME CInv, UNCHANGED <<inputs, torrent, done>>,
           done # {} => peers' = peers,
           at' \in {"parsed", "asking", "answered", "downloading", "ok"} => Accepted,
           at' \in {"started", "parsed", "asking", "answered"} => done = {},
           at' = "ok" => done = 0 .. torrent.num_pieces - 1 /\ torrent.num_pieces # 0
    PROVE  CInv'
<1>1. /\ checks' = checks /\ document' = document /\ torrent' = torrent /\ done' = done
  BY DEF inputs
<1>2. Accepted' <=> Accepted
  BY <1>1 DEF Accepted
<1>3. /\ Tiled' <=> Tiled
      /\ length' = length
      /\ \A k : SizeOf(k)' = SizeOf(k)
  BY <1>1 DEF Tiled, Info, length, SizeOf
<1> QED
  BY <1>1, <1>2, <1>3 DEF CInv

\* ... and every step keeps the torrent the one that new made.
LEMMA CNext == CInv /\ [Next]_vars => CInv'
<1> SUFFICES ASSUME CInv, [Next]_vars PROVE CInv'
  OBVIOUS
<1>1. CASE ReadFile
  <2>1. done = {} /\ done' = {} /\ inputs' = inputs /\ checks' = checks /\ document' = document
    BY <1>1 DEF ReadFile, CInv, inputs
  <2>2. CASE new(document, checks) = "none"
    <3>1. at' = "parsed" /\ torrent' = Torrent(document.items)
      BY <1>1, <2>2 DEF ReadFile
    <3>2. Accepted'
      BY <2>1, <2>2, <3>1 DEF Accepted
    <3> QED
      BY <2>1, <3>1, <3>2 DEF CInv
  <2>3. CASE new(document, checks) # "none"
    <3>1. torrent' = NoTorrent /\ at' \in {"panicked", "failed"}
      BY <1>1, <2>3 DEF ReadFile
    <3> QED
      BY <2>1, <3>1 DEF CInv
  <2> QED
    BY <2>2, <2>3
<1>2. CASE ReadFails
  BY <1>2, Elsewhere DEF ReadFails, GoTo
<1>3. CASE Inspect
  BY <1>3, Elsewhere DEF Inspect, GoTo
<1>4. CASE AskTracker
  BY <1>4, Elsewhere DEF AskTracker, CInv
<1>5. CASE StartDownload
  BY <1>5, Elsewhere DEF StartDownload, GoTo, CInv
<1>6. CASE NoTempDir
  BY <1>6, Elsewhere DEF NoTempDir, GoTo
<1>7. CASE TrackerStep
  <2>1. CASE TrackerFails
    BY <2>1, Elsewhere DEF TrackerFails, GoTo
  <2>2. ASSUME NEW value \in Answers, TrackerErrs(value) PROVE CInv'
    BY <2>2, Elsewhere DEF TrackerErrs, GoTo
  <2>3. ASSUME NEW offer \in Offers, NEW missing \in {0, 1}, TrackerAnswers(offer, missing)
        PROVE  CInv'
    <3>1. /\ at = "asking" /\ at' \in {"answered", "failed"}
          /\ UNCHANGED <<inputs, torrent, done>>
      BY <2>3, Zenon DEF TrackerAnswers
    <3> QED
      BY <3>1, Elsewhere DEF CInv
  <2> QED
    BY <1>7, <2>1, <2>2, <2>3 DEF TrackerStep
<1>8. CASE DownloadEnds
  <2>1. CASE Succeed
    BY <2>1, Elsewhere DEF Succeed, GoTo, CInv
  <2>2. CASE Fail
    BY <2>2, Elsewhere DEF Fail, GoTo
  <2> QED
    BY <1>8, <2>1, <2>2 DEF DownloadEnds
<1>9. ASSUME NEW k, FinishPiece(k) PROVE CInv'
  <2>1. /\ at = "downloading" /\ at' = at /\ peers # <<>> /\ peers' = peers
        /\ checks' = checks /\ document' = document /\ torrent' = torrent
        /\ done' = done \cup {k}
        /\ Tiled => length = SizeOf(k)
    BY <1>9 DEF FinishPiece, inputs
  <2>2. Accepted' <=> Accepted
    BY <2>1 DEF Accepted
  <2>3. /\ Tiled' <=> Tiled
        /\ length' = length
        /\ \A j : SizeOf(j)' = SizeOf(j)
    BY <2>1 DEF Tiled, Info, length, SizeOf
  <2> QED
    BY <2>1, <2>2, <2>3 DEF CInv
<1>10. CASE UNCHANGED vars
  BY <1>10, Elsewhere DEF vars, CInv
<1> QED
  BY <1>1, <1>2, <1>3, <1>4, <1>5, <1>6, <1>7, <1>8, <1>9, <1>10 DEF Next, OwnStep

\* The torrent is always the one that new made of the document.
LEMMA Invariant == Spec => []CInv
<1> QED
  BY CInit, CNext, PTL DEF Spec

\* An accepted torrent has passed the length check, with these types, and what the
\* loop over its files checks.
LEMMA AcceptedLengths ==
    ASSUME CInv, Accepted
    PROVE  /\ LengthCheck(torrent.num_bytes_per_piece, torrent.num_pieces,
                          torrent.total_num_bytes, checks) = "none"
           /\ torrent.num_bytes_per_piece \in 0 .. U64 - 1
           /\ torrent.num_bytes_per_piece \in Nat /\ torrent.num_pieces \in Nat
           /\ Length(Info) \in Nat /\ torrent.total_num_bytes = Length(Info) % U64
           /\ torrent.num_bytes_per_piece = Info["piece length"].num
           /\ torrent.num_pieces = NumPieces(Info)
           /\ checks => Length(Info) < U64
<1>1. new(document, checks) = "none" /\ document \in Documents /\ checks \in BOOLEAN
  BY DEF CInv, Accepted
<1>2. /\ torrent.num_bytes_per_piece = Info["piece length"].num
      /\ torrent.num_pieces = NumPieces(Info)
      /\ torrent.total_num_bytes = Length(Info) % U64
  BY DEF Accepted, Torrent, Info
<1>4. /\ \A e, f : Then(e, f) = "none" => f = "none"
      /\ \A e, f : Then(e, f) = "none" => e = "none"
  BY DEF Then
<1>5. extract(document.items, checks) = "none"
  BY <1>1 DEF new
<1>6. IsDictionary(document.items, "info") /\ InfoError(Info, checks) = "none"
  <2>1. \A e, f : Then(e, f) = "none" => f = "none"
    BY <1>4
  <2>2. /\ "info" \in DOMAIN document.items /\ document.items["info"].kind = "dictionary"
        /\ InfoError(document.items["info"].items, checks) = "none"
    BY <1>5, <2>1 DEF extract
  <2> QED
    BY <2>2 DEF Info, IsDictionary
<1>7. /\ Uint(Info, "piece length") = "none" /\ extract_pieces(Info) = "none"
      /\ FilesOrFile(Info, checks) = "none"
      /\ LengthCheck(Info["piece length"].num, NumPieces(Info), Length(Info) % U64, checks) = "none"
  <2> DEFINE keys == FirstError(<<Uint(Info, "piece length"), Private(Info),
                                  extract_pieces(Info), String(Info, "name")>>)
             files == FilesOrFile(Info, checks)
             fit == LengthCheck(Info["piece length"].num, NumPieces(Info), Length(Info) % U64, checks)
  <2>1. Then(keys, Then(files, fit)) = "none"
    BY <1>6, Zenon DEF InfoError
  <2>2. keys = "none" /\ files = "none" /\ fit = "none"
    <3> HIDE DEF keys, files, fit
    <3> QED
      BY <2>1 DEF Then
  <2> QED
    BY <2>2, KeysOfInfo
<1>3. /\ Info["piece length"].num \in 0 .. U64 - 1
      /\ NumPieces(Info) \in Nat
      /\ Length(Info) \in Nat
      /\ "files" \notin DOMAIN Info => Length(Info) < U64
      /\ "files" \in DOMAIN Info => DOMAIN Info["files"].elements = 1 .. Len(Info["files"].elements)
                                   /\ Len(Info["files"].elements) \in Nat
                                   /\ (Info["files"].elements # <<>> => Len(Info["files"].elements) # 0)
  <2> DEFINE elements == Info["files"].elements
             n == Len(elements)
             bytes == Info["pieces"].bytes
  <2>1. ParsedFile(document.items)
    <3>1. document.kind = "dictionary"
      BY <1>1 DEF new
    <3> QED
      BY <1>1, <3>1, ClientAssumption, Zenon
  <2>2. Parsed(Info)
    BY <1>6, <2>1 DEF ParsedFile, Info
  <2>3. Info["piece length"].num \in 0 .. U64 - 1
    BY <1>7, <2>2, UintFits
  <2>4. NumPieces(Info) \in Nat
    <3>1. "pieces" \in DOMAIN Info /\ Info["pieces"].kind = "string"
      BY <1>7 DEF extract_pieces
    <3>2. IsSequence(bytes)
      BY <2>2, <3>1 DEF Parsed
    <3> HIDE DEF bytes
    <3>3. Len(bytes) \in Nat
      BY <3>2, IsOrdered
    <3>4. Len(bytes) \div HashSize \in Nat
      BY <3>3, MetainfoAssumption
    <3> QED
      BY <3>4 DEF NumPieces, bytes
  <2>5. CASE "files" \in DOMAIN Info
    <3>1. Info["files"].kind = "list"
      BY <1>7, <2>5 DEF FilesOrFile, Files
    <3>2. IsSequence(elements) /\ \A k \in 1 .. n : FileLength(elements[k]) \in Nat
      <4>1. IsList(document.items["info"].items, "files")
        BY <2>5, <3>1 DEF IsList, Info
      <4> QED
        BY <1>6, <2>1, <4>1, FilesLengths, Zenon DEF Info
    <3> HIDE DEF elements
    <3>3. DOMAIN elements = 1 .. n /\ n \in Nat /\ (elements # <<>> => n # 0)
      BY <3>2, IsOrdered
    <3> HIDE DEF n
    <3>4. LengthOfFirst(elements, n) \in Nat
      <4>1. n \in 0 .. n
        BY <3>3
      <4> QED
        BY <3>2, <3>3, <4>1, SumGrows, Zenon
    <3>5. Length(Info) \in Nat
      BY <2>5, <3>4 DEF Length, elements, n
    <3> QED
      BY <2>3, <2>4, <2>5, <3>3, <3>5 DEF elements, n
  <2>6. CASE "files" \notin DOMAIN Info
    <3>1. Uint(Info, "length") = "none"
      BY <1>7, <2>6, ThenNone, Zenon DEF FilesOrFile
    <3>2. Info["length"].num \in 0 .. U64 - 1
      BY <2>2, <3>1, UintFits
    <3> DEFINE l == Length(Info)
    <3>3. l \in 0 .. U64 - 1
      BY <2>6, <3>2 DEF Length
    <3> HIDE DEF l
    <3>4. l \in Nat /\ l < U64
      BY <3>3, MetainfoAssumption
    <3> QED
      BY <2>3, <2>4, <2>6, <3>4 DEF l
  <2> QED
    BY <2>5, <2>6
<1>8. ASSUME checks PROVE Length(Info) < U64
  <2>1. CASE "files" \notin DOMAIN Info
    BY <1>3, <2>1
  <2>2. CASE "files" \in DOMAIN Info
    <3> DEFINE elements == Info["files"].elements
               last == Len(elements)
               ErrorAt(k) == Then(FileElement(elements[k]),
                                  Check(checks => LengthOfFirst(elements, k) < U64, "panic"))
               errors == [k \in DOMAIN elements |-> ErrorAt(k)]
    <3>1. Files(Info["files"], checks) = "none"
      BY <1>7, <2>2 DEF FilesOrFile
    <3>2. FirstError(errors) = "none" /\ Check(elements # <<>>, "KeyMapsToAnEmptyList") = "none"
      BY <1>4, <3>1, Zenon DEF Files
    <3>3. elements # <<>> /\ DOMAIN elements = 1 .. last /\ last \in Nat
      BY <1>3, <2>2, <3>2 DEF Check
    <3>4. last \in DOMAIN elements /\ DOMAIN errors \subseteq Nat
      <4>1. last # 0 /\ DOMAIN errors = DOMAIN elements
        BY <1>3, <2>2, <3>3
      <4> HIDE DEF elements, last, errors
      <4> QED
        BY <3>3, <4>1
    <3>5. errors[last] = "none"
      BY <3>2, <3>4, NoErrorAmong
    <3>6. Check(checks => LengthOfFirst(elements, last) < U64, "panic") = "none"
      <4>1. errors[last] = ErrorAt(last)
        BY <3>4
      <4> QED
        BY <1>4, <3>5, <4>1
    <3>7. LengthOfFirst(elements, last) < U64
      BY <1>8, <3>6, Zenon DEF Check
    <3> QED
      BY <2>2, <3>7 DEF Length
  <2> QED
    BY <2>1, <2>2
<1>9. torrent.num_bytes_per_piece \in Nat
  <2> DEFINE l == Info["piece length"].num
  <2>1. l \in 0 .. U64 - 1
    BY <1>3
  <2> HIDE DEF l
  <2>2. l \in Nat
    BY <2>1
  <2> QED
    BY <1>2, <2>2 DEF l
<1> QED
  BY <1>2, <1>3, <1>7, <1>8, <1>9

\* Where nothing wraps, pieces and files fit together.
LEMMA AcceptedIsTiled ==
    ASSUME CInv, Accepted, checks \/ ~ Overflows(document.items)
    PROVE  Tiled
<1> DEFINE l == torrent.num_bytes_per_piece
           np == torrent.num_pieces
           exact == Length(Info)
           upper == l * np
<1>1. checks \in BOOLEAN
  BY DEF CInv
<1>2. /\ LengthCheck(l, np, exact % U64, checks) = "none"
      /\ l \in 0 .. U64 - 1 /\ l \in Nat /\ np \in Nat /\ exact \in Nat
      /\ l = Info["piece length"].num /\ np = NumPieces(Info)
      /\ checks => exact < U64
  BY AcceptedLengths
<1>3. ~ Overflows(document.items) => exact < U64 /\ upper < U64
  <2>1. exact >= U64 \/ upper >= U64 => Overflows(document.items)
    BY <1>2 DEF Overflows, Info
  <2>2. exact \in Nat /\ upper \in Nat /\ U64 \in Nat
    <3>1. exact \in Nat /\ l \in Nat /\ np \in Nat /\ U64 \in Nat
      BY <1>2, MetainfoAssumption, Zenon
    <3> HIDE DEF exact, l, np
    <3> QED
      BY <3>1
  <2> HIDE DEF exact, upper
  <2> QED
    BY <2>1, <2>2
<1>4. exact < U64 /\ (checks \/ upper < U64)
  BY <1>2, <1>3
<1>5. exact % U64 = exact
  BY <1>2, <1>4, NoWrap
<1>6. LengthCheck(l, np, exact, checks) = "none"
  BY <1>2, <1>5
<1> HIDE DEF l, np, exact
<1>7. np > 0 /\ l * (np - 1) < exact /\ exact <= l * np
  BY <1>1, <1>2, <1>4, <1>6, CheckedLengthsFit
<1> QED
  BY <1>7 DEF Tiled, l, np, exact

\* The length check of extract (file.rs:269-274), for every width of integers, every
\* set of documents and either kind of build.
THEOREM PiecesTile == Spec => []PiecesTileTheFiles
<1>1. CInv => PiecesTileTheFiles
  <2> SUFFICES ASSUME CInv, torrent # NoTorrent, checks \/ ~ Overflows(document.items)
               PROVE  Tiled
    BY DEF PiecesTileTheFiles, CInv
  <2> QED
    BY AcceptedIsTiled DEF CInv
<1> QED
  BY <1>1, Invariant, PTL

-----------------------------------------------------------------------------
(* Success.                                                                 *)

\* Where all pieces hold the same number of bytes, so does each of them, and where there
\* is more than one, the length of the first is not truncated.
LEMMA AllOfOneLength ==
    ASSUME CInv, Accepted, Tiled, at = "ok"
    PROVE  /\ torrent.total_num_bytes = torrent.num_pieces * length
           /\ torrent.num_pieces > 1 => torrent.num_bytes_per_piece < U32
<1> DEFINE l == torrent.num_bytes_per_piece
           np == torrent.num_pieces
           total == torrent.total_num_bytes
           width == U32
<1>1. /\ l \in Nat /\ np \in Nat /\ np > 0 /\ total \in Nat
      /\ width \in Nat \ {0} /\ length = l % width
  <2>1. l \in Nat /\ np \in Nat /\ np > 0 /\ Length(Info) \in Nat /\ total = Length(Info) % U64
    BY AcceptedLengths, MetainfoAssumption DEF Tiled
  <2>2. total \in Nat
    BY <2>1, MetainfoAssumption
  <2> QED
    BY <2>1, <2>2, ClientAssumption DEF length
<1>2. /\ 0 \in done /\ np - 1 \in done
      /\ length = SizeOf(0) /\ length = SizeOf(np - 1)
  <2>1. done = 0 .. np - 1
    BY DEF CInv
  <2>2. 0 \in done /\ np - 1 \in done
    BY <1>1, <2>1
  <2> QED
    BY <2>2 DEF CInv
<1>3. length = total - l * (np - 1)
  <2>1. ~ (np - 1 < np - 1)
    BY <1>1
  <2> QED
    BY <1>2, <2>1 DEF SizeOf
<1>4. np > 1 => length = l
  <2>1. np > 1 => 0 < np - 1
    BY <1>1
  <2> QED
    BY <1>2, <2>1 DEF SizeOf
<1> HIDE DEF l, np, total, width
<1>5. length \in 0 .. width - 1
  BY <1>1
<1>6. CASE np = 1
  <2>1. l * (np - 1) = 0 /\ np * length = length
    BY <1>1, <1>5, <1>6
  <2> QED
    BY <1>1, <1>3, <1>5, <1>6, <2>1 DEF l, np, total, width
<1>7. CASE np > 1
  <2>1. total - l * (np - 1) = l
    BY <1>3, <1>4, <1>7
  <2>2. np * l = l * (np - 1) + l /\ l * (np - 1) \in Int
    BY <1>1
  <2>3. total = np * l
    <3> DEFINE rest == l * (np - 1)
               all == np * l
    <3>1. total - rest = l /\ all = rest + l /\ rest \in Int
      BY <2>1, <2>2
    <3> HIDE DEF rest, all
    <3>2. total = all
      BY <1>1, <3>1
    <3> QED
      BY <3>2 DEF all
  <2>4. l < width
    BY <1>1, <1>4, <1>5, <1>7
  <2> QED
    BY <1>4, <1>7, <2>3, <2>4 DEF l, np, total, width
<1> QED
  BY <1>1, <1>6, <1>7

\* "Successfully downloaded" (main.rs:38) takes peers, all pieces, and pieces that are all
\* of the length the program counts their bytes in.
THEOREM SuccessIsSound == Spec => []SuccessIsEarned
<1>1. CInv => SuccessIsEarned
  <2> SUFFICES ASSUME CInv, at = "ok"
               PROVE  /\ peers # <<>>
                      /\ done = 0 .. torrent.num_pieces - 1 /\ done # {}
                      /\ Tiled => /\ torrent.total_num_bytes = torrent.num_pieces * length
                                  /\ torrent.num_pieces > 1 => torrent.num_bytes_per_piece < U32
    BY DEF SuccessIsEarned
  <2>1. Accepted /\ done = 0 .. torrent.num_pieces - 1 /\ torrent.num_pieces # 0
    BY DEF CInv
  <2>2. torrent.num_pieces \in Nat
    BY <2>1, AcceptedLengths
  <2>3. 0 \in done
    BY <2>1, <2>2
  <2>4. peers # <<>> /\ done # {}
    BY <2>3 DEF CInv
  <2> QED
    BY <2>1, <2>4, AllOfOneLength
<1> QED
  BY <1>1, Invariant, PTL
-----------------------------------------------------------------------------
(* Panics.                                                                  *)

LEMMA AcceptedHasPieces ==
    ASSUME CInv, Accepted
    PROVE  torrent # NoTorrent /\ torrent.num_pieces > 0
<1>1. torrent # NoTorrent
  <2>1. "num_pieces" \in DOMAIN torrent
    BY DEF Accepted, Torrent
  <2>2. "num_pieces" \notin DOMAIN NoTorrent
    BY DEF NoTorrent
  <2> QED
    BY <2>1, <2>2, Zenon
<1> DEFINE l == torrent.num_bytes_per_piece
           np == torrent.num_pieces
           total == torrent.total_num_bytes
           exact == Length(Info)
<1>2. /\ l \in 0 .. U64 - 1 /\ np \in Nat /\ exact \in Nat /\ total = exact % U64
      /\ LengthCheck(l, np, total, checks) = "none"
  BY AcceptedLengths
<1>3. checks \in BOOLEAN
  BY DEF CInv
<1> HIDE DEF l, np, total, exact
<1>4. total \in Nat
  BY <1>2, MetainfoAssumption
<1>5. np # 0
  BY <1>2, <1>3, <1>4, NoPiecesNeverFit
<1> QED
  BY <1>1, <1>2, <1>5 DEF np

\* The panics of extract (file.rs:247, 269-274) are overflows, in a build that looks
\* for them; no other unwrap of the program fails, but that of the temporary directory
\* (file.rs:196) before anything is downloaded.
THEOREM PanicsHaveAReason == Spec => []PanicsAreExplained
<1>1. Init => PanicsAreExplained
  BY DEF Init, PanicsAreExplained
<1>2. CInv /\ PanicsAreExplained /\ [Next]_vars => PanicsAreExplained'
  <2> SUFFICES ASSUME CInv, PanicsAreExplained, [Next]_vars PROVE PanicsAreExplained'
    OBVIOUS
  <2>1. ASSUME at' # "panicked" PROVE PanicsAreExplained'
    BY <2>1 DEF PanicsAreExplained
  <2>2. CASE ReadFile
    <3>1. /\ checks' = checks /\ document' = document /\ checks \in BOOLEAN
          /\ document \in Documents
      BY <2>2 DEF ReadFile, inputs, CInv
    <3>2. ASSUME at' = "panicked"
          PROVE  /\ torrent' = NoTorrent /\ checks
                 /\ Overflows(document.items) \/ NumPieces(document.items["info"].items) = 0
      <4>1. torrent' = NoTorrent /\ new(document, checks) = "panic"
        BY <2>2, <3>2 DEF ReadFile
      <4> QED
        BY <3>1, <4>1, WhyPanic
    <3> QED
      BY <3>1, <3>2 DEF PanicsAreExplained
  <2>3. CASE NoTempDir
    <3>1. Accepted /\ done = {} /\ torrent' = torrent /\ done' = done
      BY <2>3 DEF NoTempDir, GoTo, CInv
    <3> QED
      BY <3>1, AcceptedHasPieces DEF PanicsAreExplained
  <2>4. CASE Succeed
    <3>1. Accepted
      BY <2>4 DEF Succeed, CInv
    <3>2. torrent.num_pieces # 0
      <4>1. torrent.num_pieces > 0 /\ torrent.num_pieces \in Nat
        BY <3>1, AcceptedHasPieces, AcceptedLengths
      <4> QED
        BY <4>1
    <3> QED
      BY <2>1, <2>4, <3>2 DEF Succeed, GoTo
  <2>5. CASE ReadFails \/ Inspect \/ AskTracker \/ StartDownload \/ Fail
    BY <2>1, <2>5 DEF ReadFails, Inspect, AskTracker, StartDownload, Fail, GoTo
  <2>6. ASSUME TrackerFails \/ \E value \in Answers : TrackerErrs(value)
        PROVE  PanicsAreExplained'
    BY <2>1, <2>6 DEF TrackerFails, TrackerErrs, GoTo
  <2>7. ASSUME NEW offer \in Offers, NEW missing \in {0, 1}, TrackerAnswers(offer, missing)
        PROVE  PanicsAreExplained'
    <3>1. at' \in {"answered", "failed"}
      BY <2>7, Zenon DEF TrackerAnswers
    <3> QED
      BY <2>1, <3>1
  <2>8. ASSUME NEW k, FinishPiece(k) PROVE PanicsAreExplained'
    BY <2>1, <2>8 DEF FinishPiece
  <2>9. CASE UNCHANGED vars
    BY <2>9 DEF vars, inputs, PanicsAreExplained
  <2> QED
    BY <2>2, <2>3, <2>4, <2>5, <2>6, <2>7, <2>8, <2>9 DEF Next, OwnStep, TrackerStep, DownloadEnds
<1> QED
  BY <1>1, <1>2, Invariant, PTL DEF Spec

-----------------------------------------------------------------------------
(* The tracker.                                                             *)

\* Byte j of socket i is byte 6 * (i - 1) + j of the list.
LEMMA ByteOfSocket ==
    ASSUME NEW i \in Nat \ {0}, NEW j \in 1 .. 6
    PROVE  LET k == (i - 1) * 6 + j
           IN  ((k - 1) \div 6) + 1 = i /\ ((k - 1) % 6) + 1 = j
OBVIOUS

\* Byte k of the compact form is a byte of a socket.
LEMMA SocketOfByte ==
    ASSUME NEW n \in Nat, NEW k \in 1 .. 6 * n
    PROVE  ((k - 1) \div 6) + 1 \in 1 .. n /\ ((k - 1) % 6) + 1 \in 1 .. 6
OBVIOUS

\* A socket is its six bytes.
ByteOf(s, j) ==
    CASE j <= 4 -> s.ip[j] [] j = 5 -> s.port \div 256 [] OTHER -> s.port % 256

OneByte == 0 .. 255

\* The bytes of a socket determine it.
LEMMA BytesOfSocket ==
    ASSUME NEW s \in SocketAddrV4
    PROVE  /\ \A j \in 1 .. 6 : ByteOf(s, j) \in OneByte
           /\ \A j \in 1 .. 4 : ByteOf(s, j) = s.ip[j]
           /\ Port(ByteOf(s, 5), ByteOf(s, 6)) = s.port
           /\ s = [ip |-> [j \in 1 .. 4 |-> s.ip[j]], port |-> s.port]
<1> DEFINE ip == s.ip
           p == s.port
           Ips == [1 .. 4 -> 0 .. 255]
           Ports == 0 .. 256 * 256 - 1
<1>1. s \in [ip : Ips, port : Ports]
  <2>1. SocketAddrV4 = [ip : Ips, port : Ports]
    BY Zenon DEF SocketAddrV4
  <2> HIDE DEF Ips, Ports
  <2> QED
    BY <2>1
<1> HIDE DEF Ips, Ports
<1>2. ip \in Ips /\ p \in Ports /\ s = [ip |-> ip, port |-> p]
  <2>1. s.ip \in Ips
    BY <1>1
  <2>2. s.port \in Ports
    BY <1>1
  <2>3. s = [ip |-> s.ip, port |-> s.port]
    BY <1>1
  <2> QED
    BY <2>1, <2>2, <2>3
<1> HIDE DEF ip, p
<1>3. p \div 256 \in OneByte /\ p % 256 \in OneByte /\ 256 * (p \div 256) + (p % 256) = p
  BY <1>2 DEF OneByte, Ports
<1>4. \A j \in 1 .. 4 : ByteOf(s, j) = ip[j] /\ ip[j] \in OneByte
  BY <1>2 DEF ByteOf, Ips, ip, OneByte
<1>5. ByteOf(s, 5) = p \div 256 /\ ByteOf(s, 6) = p % 256
  BY DEF ByteOf, p
<1>6. ip = [j \in 1 .. 4 |-> ip[j]]
  BY <1>2 DEF Ips
<1>7. \A j \in 1 .. 6 : j \in 1 .. 4 \/ j = 5 \/ j = 6
  OBVIOUS
<1> QED
  BY <1>2, <1>3, <1>4, <1>5, <1>6, <1>7, ZenonT(60) DEF Port, ip, p

\* The bytes of a list of sockets, and its length.
LEMMA CompactBytes ==
    ASSUME NEW offer \in Seq(SocketAddrV4)
    PROVE  LET n == Len(offer)
               bytes == Compact(offer)
           IN  /\ bytes \in Seq(OneByte) /\ Len(bytes) = 6 * n
               /\ \A i \in 1 .. n, j \in 1 .. 6 : bytes[(i - 1) * 6 + j] = ByteOf(offer[i], j)
<1> DEFINE n == Len(offer)
           size == 6 * n
           bytes == Compact(offer)
           ByteAt(k) == ByteOf(offer[((k - 1) \div 6) + 1], ((k - 1) % 6) + 1)
<1>1. n \in Nat /\ \A i \in 1 .. n : offer[i] \in SocketAddrV4
  OBVIOUS
<1>2. bytes = [k \in 1 .. size |-> ByteAt(k)]
  BY DEF Compact, SocketSize, ByteOf
<1> HIDE DEF n, bytes, ByteAt
<1>3. size \in Nat
  BY <1>1
<1>4. ASSUME NEW k \in 1 .. size PROVE ByteAt(k) \in OneByte
  <2>1. ((k - 1) \div 6) + 1 \in 1 .. n /\ ((k - 1) % 6) + 1 \in 1 .. 6
    BY <1>1, <1>4, SocketOfByte
  <2> QED
    BY <1>1, <2>1, BytesOfSocket, Zenon DEF ByteAt
<1>5. ASSUME NEW i \in 1 .. n, NEW j \in 1 .. 6 PROVE bytes[(i - 1) * 6 + j] = ByteOf(offer[i], j)
  <2> DEFINE k == (i - 1) * 6 + j
  <2>1. k \in 1 .. size
    BY <1>1
  <2>2. ((k - 1) \div 6) + 1 = i /\ ((k - 1) % 6) + 1 = j
    BY <1>1, ByteOfSocket
  <2> HIDE DEF k, size
  <2>3. bytes[k] = ByteOf(offer[i], j)
    BY <1>2, <2>1, <2>2, Zenon DEF ByteAt
  <2> QED
    BY <2>3 DEF k
<1> HIDE DEF size
<1>6. bytes \in Seq(OneByte) /\ Len(bytes) = size
  BY <1>2, <1>3, <1>4
<1> QED
  BY <1>5, <1>6 DEF n, size, bytes

\* A compact list that is read whole gives the sockets it was made of.
LEMMA CompactIsRead ==
    ASSUME NEW offer \in Seq(SocketAddrV4)
    PROVE  LET sent == SubSeq(Compact(offer), 1, SocketSize * Len(offer) - 0)
           IN  Len(sent) = SocketSize * Len(offer) /\ Sockets(sent) = offer
<1> DEFINE n == Len(offer)
           bytes == Compact(offer)
           size == 6 * n
<1> HIDE DEF bytes
<1>1. /\ n \in Nat /\ offer = [i \in 1 .. n |-> offer[i]]
      /\ \A i \in 1 .. n : offer[i] \in SocketAddrV4
  OBVIOUS
<1>2. /\ bytes \in Seq(OneByte) /\ Len(bytes) = 6 * n
      /\ \A i \in 1 .. n, j \in 1 .. 6 : bytes[(i - 1) * 6 + j] = ByteOf(offer[i], j)
  BY CompactBytes DEF bytes
<1> HIDE DEF n
<1>3. size \in Nat /\ size \div 6 = n /\ SocketSize * n - 0 = size /\ SocketSize * n = size
  BY <1>1 DEF SocketSize
<1>4. ASSUME NEW i \in 1 .. n
      PROVE  LET start == (i - 1) * 6
             IN  [ip |-> SubSeq(bytes, start + 1, start + 4),
                  port |-> Port(bytes[start + 5], bytes[start + 6])] = offer[i]
  <2> DEFINE start == (i - 1) * 6
             ip == SubSeq(bytes, start + 1, start + 4)
             s == offer[i]
  <2>1. start \in Nat /\ start + 6 <= size
    BY <1>1
  <2>2. \A j \in 1 .. 6 : bytes[start + j] = ByteOf(s, j)
    BY <1>2
  <2>3. s \in SocketAddrV4
    BY <1>1
  <2> HIDE DEF start, s, size
  <2>4. ip = [j \in 1 .. 4 |-> bytes[start + j]]
    BY <1>2, <2>1 DEF size
  <2>5. \A j \in 1 .. 4 : bytes[start + j] = s.ip[j]
    BY <2>2, <2>3, BytesOfSocket
  <2>6. Port(bytes[start + 5], bytes[start + 6]) = s.port
    <3>1. bytes[start + 5] = ByteOf(s, 5) /\ bytes[start + 6] = ByteOf(s, 6)
      BY <2>2
    <3> QED
      BY <2>3, <3>1, BytesOfSocket
  <2> HIDE DEF ip
  <2>7. ip = [j \in 1 .. 4 |-> s.ip[j]]
    BY <2>4, <2>5
  <2>8. [ip |-> ip, port |-> Port(bytes[start + 5], bytes[start + 6])] = s
    BY <2>3, <2>6, <2>7, BytesOfSocket, Zenon
  <2> QED
    BY <2>8, Zenon DEF ip, start, s
<1> HIDE DEF size
<1>5. SubSeq(bytes, 1, size) = bytes /\ Len(bytes) = size
  BY <1>2, <1>3 DEF size
<1>6. Sockets(bytes) = [i \in 1 .. n |-> offer[i]]
  BY <1>3, <1>4, <1>5, Zenon DEF Sockets, SocketSize
<1> QED
  BY <1>1, <1>3, <1>5, <1>6, Zenon DEF n, bytes

\* An answer that misses a byte is refused, and another is read exactly.
LEMMA AnswerIsWhole ==
    ASSUME NEW offer \in Offers, NEW missing \in {0, 1}, TrackerAnswers(offer, missing)
    PROVE  /\ offered' = offer
           /\ \/ at' = "answered" /\ peers' = offer
              \/ at' = "failed" /\ peers' = peers
<1> DEFINE sent == SubSeq(Compact(offer), 1, SocketSize * Len(offer) - missing)
           list == [kind |-> "string", text |-> "binary", bytes |-> sent]
           items == [interval |-> [kind |-> "integer", num |-> 1], peers |-> list]
           value == [kind |-> "dictionary", items |-> items]
           n == Len(offer)
<1> HIDE DEF sent
<1>1. /\ missing <= SocketSize * n /\ offered' = offer
      /\ \/ try_from(value) = "none" /\ at' = "answered" /\ peers' = Sockets(sent)
         \/ at' = "failed" /\ peers' = peers
  BY Zenon DEF TrackerAnswers, sent
<1>2. offer \in Seq(SocketAddrV4)
  BY ClientAssumption, Zenon
<1>3. ASSUME try_from(value) = "none" PROVE Len(sent) % SocketSize = 0
  <2>1. \A e, f : Then(e, f) = "none" => f = "none"
    BY DEF Then
  <2>2. value.kind = "dictionary" /\ value.items = items
    OBVIOUS
  <2> HIDE DEF value
  <2>3. extract_peers(items) = "none"
    BY <1>3, <2>1, <2>2, Zenon DEF try_from
  <2>4. "peers" \in DOMAIN items /\ items["peers"] = list
    OBVIOUS
  <2> HIDE DEF items
  <2>5. list.kind = "string" /\ list.bytes = sent
    OBVIOUS
  <2> HIDE DEF list
  <2>6. Check(Len(sent) % SocketSize = 0, "IllegalPeersLength") = "none"
    BY <2>3, <2>4, <2>5 DEF extract_peers
  <2> QED
    BY <2>6, Zenon DEF Check
<1>4. ASSUME missing = 1 PROVE Len(sent) % SocketSize # 0
  <2> DEFINE bytes == Compact(offer)
  <2>1. bytes \in Seq(OneByte) /\ Len(bytes) = 6 * n /\ n \in Nat
    BY <1>2, CompactBytes
  <2> HIDE DEF bytes, n
  <2>2. sent = SubSeq(bytes, 1, 6 * n - 1) /\ 1 <= 6 * n
    BY <1>1, <1>4 DEF sent, bytes, n, SocketSize
  <2> DEFINE size == 6 * n
  <2>3. size \in Nat /\ 1 <= size
    BY <2>1, <2>2
  <2> HIDE DEF size
  <2>4. Len(SubSeq(bytes, 1, size - 1)) = size - 1
    BY <2>1, <2>3 DEF size
  <2>5. (6 * n - 1) % 6 # 0
    BY <2>1, <2>2
  <2> QED
    BY <2>2, <2>4, <2>5 DEF size, SocketSize
<1>5. ASSUME missing = 0 PROVE Sockets(sent) = offer
  BY <1>2, <1>5, CompactIsRead DEF sent
<1> HIDE DEF value, n
<1>6. CASE missing = 1
  BY <1>1, <1>3, <1>4, <1>6, Zenon
<1>7. CASE missing = 0
  <2>1. Sockets(sent) = offer
    BY <1>5, <1>7
  <2> DEFINE taken == try_from(value) = "none"
             sockets == Sockets(sent)
  <2>2. /\ offered' = offer
        /\ \/ taken /\ at' = "answered" /\ peers' = sockets
           \/ at' = "failed" /\ peers' = peers
    BY <1>1
  <2>3. sockets = offer
    BY <2>1
  <2> HIDE DEF taken, sockets
  <2> QED
    BY <2>2, <2>3
<1> QED
  BY <1>6, <1>7

PeersInv ==
    /\ peers \in {<<>>, offered}
    /\ at \in {"started", "parsed", "asking"} => peers = <<>>
    /\ at = "answered" => peers = offered

\* The sockets of extract_peers (tracker.rs:43-72) are the tracker's, byte for byte, or
\* there are none.
THEOREM PeersAreTheTrackers == Spec => []PeersAsEncoded
<1>1. Init => PeersInv
  BY DEF Init, PeersInv
<1>2. PeersInv /\ [Next]_vars => PeersInv'
  <2> SUFFICES ASSUME PeersInv, [Next]_vars PROVE PeersInv'
    OBVIOUS
  <2>1. ASSUME NEW offer \in Offers, NEW missing \in {0, 1}, TrackerAnswers(offer, missing)
        PROVE  PeersInv'
    <3>1. at = "asking"
      BY <2>1, Zenon DEF TrackerAnswers
    <3> QED
      BY <2>1, <3>1, AnswerIsWhole DEF PeersInv
  <2>2. ASSUME UNCHANGED <<offered, peers>>, at' # "answered" \/ at' = at,
               at' \in {"started", "parsed", "asking"} => at \in {"started", "parsed", "asking"}
        PROVE  PeersInv'
    BY <2>2 DEF PeersInv
  <2>3. ASSUME OwnStep PROVE PeersInv'
    BY <2>2, <2>3 DEF OwnStep, ReadFile, ReadFails, Inspect, AskTracker, StartDownload, NoTempDir, GoTo
  <2>4. ASSUME DownloadEnds PROVE PeersInv'
    BY <2>2, <2>4 DEF DownloadEnds, Succeed, Fail, GoTo
  <2>5. ASSUME NEW k, FinishPiece(k) PROVE PeersInv'
    BY <2>2, <2>5 DEF FinishPiece
  <2>6. ASSUME TrackerFails \/ \E value \in Answers : TrackerErrs(value) PROVE PeersInv'
    BY <2>2, <2>6 DEF TrackerFails, TrackerErrs, GoTo
  <2>7. CASE UNCHANGED vars
    BY <2>2, <2>7 DEF vars
  <2> QED
    BY <2>1, <2>3, <2>4, <2>5, <2>6, <2>7 DEF Next, TrackerStep
<1>3. PeersInv => PeersAsEncoded
  BY DEF PeersInv, PeersAsEncoded
<1> QED
  BY <1>1, <1>2, <1>3, PTL DEF Spec

-----------------------------------------------------------------------------
(* The announce URL.                                                        *)

\* What an announce URL may consist of.
Symbols ==
    Bytes \cup {Escape[b] : b \in DOMAIN Escape} \cup Names \cup Numbers
        \cup UNION {ToSet(Spelling[url]) : url \in Urls}
Texts == Seq(Symbols)

\* c is found at k, or k is the end of s, and nowhere before.
FoundAt(s, c, k) ==
    /\ k \in 1 .. Len(s) + 1
    /\ k = Len(s) + 1 \/ s[k] = c
    /\ \A j \in 1 .. k - 1 : s[j] # c

\* Position finds the first one, and there is only one first.
LEMMA PositionFinds ==
    ASSUME NEW s \in Texts, NEW c
    PROVE  /\ FoundAt(s, c, Position(s, c))
           /\ \A k : FoundAt(s, c, k) => k = Position(s, c)
<1> DEFINE n == Len(s)
           S == {k \in DOMAIN s : s[k] = c} \cup {n + 1}
           least == Position(s, c)
<1>1. n \in Nat /\ DOMAIN s = 1 .. n
  BY DEF Texts
<1>2. S \in SUBSET Nat /\ n + 1 \in S
  BY <1>1
<1>3. \E x \in S : \A y \in S : x <= y
  BY <1>2, LeastOf
<1>4. least \in S /\ \A y \in S : least <= y
  BY <1>3 DEF Position, Min
<1> HIDE DEF least
<1>5. least \in 1 .. n + 1 /\ (least = n + 1 \/ s[least] = c)
  BY <1>1, <1>4
<1>6. ASSUME NEW j \in 1 .. least - 1 PROVE s[j] # c
  BY <1>1, <1>4, <1>5
<1>7. ASSUME NEW k, FoundAt(s, c, k) PROVE k = least
  <2>1. k \in S /\ k \in 1 .. n + 1
    BY <1>1, <1>7 DEF FoundAt
  <2>2. ~ (least < k)
    BY <1>1, <1>4, <1>5, <1>7 DEF FoundAt
  <2> QED
    BY <1>4, <1>5, <2>1, <2>2
<1> QED
  BY <1>5, <1>6, <1>7 DEF FoundAt, least

\* u consists of s and t.
Consists(u, s, t) ==
    /\ u \in Texts
    /\ Len(s) \in Nat /\ Len(t) \in Nat /\ Len(u) = Len(s) + Len(t)
    /\ \A k \in 1 .. Len(s) : u[k] = s[k]
    /\ \A k \in 1 .. Len(t) : u[Len(s) + k] = t[k]

\* A concatenation, element by element.
LEMMA Joined ==
    ASSUME NEW s \in Texts, NEW t \in Texts
    PROVE  Consists(s \o t, s, t)
BY DEF Consists, Texts

\* No symbol of s is c.
Lacks(s, c) == \A k \in 1 .. Len(s) : s[k] # c

\* A concatenation lacks what both its parts lack.
LEMMA JoinedLacks ==
    ASSUME NEW s \in Texts, NEW t \in Texts, NEW c, Lacks(s, c), Lacks(t, c)
    PROVE  Lacks(s \o t, c)
<1> DEFINE m == Len(s)
           u == s \o t
<1>1. /\ m \in Nat /\ Len(t) \in Nat
      /\ Len(u) = m + Len(t)
      /\ \A k \in 1 .. m : u[k] = s[k]
      /\ \A k \in 1 .. Len(t) : u[m + k] = t[k]
  <2>1. Consists(u, s, t)
    BY Joined, Zenon
  <2> QED
    BY <2>1 DEF Consists
<1> HIDE DEF m, u
<1>2. ASSUME NEW k \in 1 .. Len(u) PROVE u[k] # c
  <2>1. CASE k <= m
    BY <1>1, <1>2, <2>1 DEF Lacks, m
  <2>2. CASE k > m
    <3>1. k - m \in 1 .. Len(t) /\ m + (k - m) = k
      BY <1>1, <1>2, <2>2
    <3> QED
      BY <1>1, <3>1 DEF Lacks
  <2> QED
    BY <1>1, <1>2, <2>1, <2>2
<1> QED
  BY <1>2 DEF Lacks, u

\* The pair at k, whose value ends in front of j, is alone with its name.
OnlyPair(query, name, k, j) ==
    /\ k \in 1 .. Len(query) - 1 /\ j \in k + 2 .. Len(query) + 1
    /\ k = 1 \/ query[k - 1] = "&"
    /\ query[k] = name
    /\ query[k + 1] = "="
    /\ j = Len(query) + 1 \/ query[j] = "&"
    /\ \A i \in k + 2 .. j - 1 : query[i] # "&"
    /\ \A i \in 1 .. Len(query) : query[i] = name => i = k

\* The value of such a pair is all that a query says of the name.
LEMMA ValueOfPair ==
    ASSUME NEW query \in Texts, NEW name, NEW k, NEW j, OnlyPair(query, name, k, j)
    PROVE  ValuesOf(query, name) = {Decode(SubSeq(query, k + 2, j - 1))}
<1> USE DEF OnlyPair
<1> DEFINE n == Len(query)
           rest == SubSeq(query, k + 2, n)
           p == j - (k + 1)
           starts == {i \in 1 .. n - 1 :
                         (i = 1 \/ query[i - 1] = "&") /\ query[i] = name /\ query[i + 1] = "="}
<1>1. n \in Nat /\ query \in Seq(Symbols)
  BY DEF Texts
<1>2. starts = {k}
  BY <1>1
<1>3. /\ rest \in Texts /\ Len(rest) = n - (k + 1)
      /\ \A i \in 1 .. n - (k + 1) : rest[i] = query[k + 1 + i]
  BY <1>1 DEF Texts
<1>4. p \in 1 .. Len(rest) + 1 /\ k + 1 + p = j
  BY <1>1, <1>3
<1>5. FoundAt(rest, "&", p)
  <2>1. p = Len(rest) + 1 \/ rest[p] = "&"
    BY <1>1, <1>3, <1>4
  <2>2. ASSUME NEW i \in 1 .. p - 1 PROVE rest[i] # "&"
    <3>1. k + 1 + i \in k + 2 .. j - 1 /\ i \in 1 .. n - (k + 1)
      BY <1>1, <1>3, <1>4
    <3> QED
      BY <1>3, <3>1
  <2> QED
    BY <1>4, <2>1, <2>2 DEF FoundAt
<1>6. Before(rest, "&") = SubSeq(rest, 1, p - 1)
  <2>1. Position(rest, "&") = p
    BY <1>3, <1>5, PositionFinds
  <2> QED
    BY <2>1 DEF Before
<1>7. SubSeq(rest, 1, p - 1) = SubSeq(query, k + 2, j - 1)
  <2> DEFINE a == SubSeq(rest, 1, p - 1)
             b == SubSeq(query, k + 2, j - 1)
  <2>1. p - 1 \in 0 .. Len(rest) /\ k + 2 \in 1 .. n + 1 /\ j - 1 \in k + 1 .. n
    BY <1>1, <1>4
  <2>2. a \in Seq(Symbols) /\ Len(a) = p - 1 /\ \A i \in 1 .. p - 1 : a[i] = rest[i]
    BY <1>3, <2>1 DEF Texts
  <2>3. b \in Seq(Symbols) /\ Len(b) = p - 1 /\ \A i \in 1 .. p - 1 : b[i] = query[k + 1 + i]
    BY <1>1, <1>4, <2>1
  <2>4. ASSUME NEW i \in 1 .. p - 1 PROVE a[i] = b[i]
    <3>1. i \in 1 .. n - (k + 1)
      BY <1>3, <1>4, <2>4
    <3> QED
      BY <1>3, <2>2, <2>3, <3>1
  <2> HIDE DEF a, b
  <2>5. a = b
    BY <2>2, <2>3, <2>4, SeqEqual
  <2> QED
    BY <2>5 DEF a, b
<1> QED
  BY <1>2, <1>6, <1>7 DEF ValuesOf

\* What percent_encode makes of a byte is the byte itself or its %XX, and neither
\* means anything else in a query.
LEMMA EncodedByte ==
    ASSUME NEW b \in Bytes
    PROVE  LET symbol == IF b \in Alphanumeric THEN b ELSE Escape[b]
           IN  /\ symbol \in Symbols
               /\ symbol \notin Names \cup {"?", "#", "&", "=", "+"}
               /\ Unescaped(symbol) = b
<1>1. CASE b \in Alphanumeric
  <2>1. b \in Symbols
    BY DEF Symbols
  <2>2. b \notin Names /\ b \notin DOMAIN Escape
    BY <1>1, TrackerAssumption
  <2>3. b \notin {"?", "#", "&", "=", "+"}
    BY <2>2, TrackerAssumption
  <2>4. ~ \E c \in DOMAIN Escape : Escape[c] = b
    BY TrackerAssumption
  <2>5. Unescaped(b) = b
    BY <2>3, <2>4, Zenon DEF Unescaped
  <2> QED
    BY <1>1, <2>1, <2>2, <2>3, <2>5, Zenon
<1>2. CASE b \notin Alphanumeric
  <2>1. b \in DOMAIN Escape
    BY <1>2 DEF Bytes
  <2>2. Escape[b] \in Symbols /\ Escape[b] \notin Bytes \cup Names
    BY <2>1, TrackerAssumption DEF Symbols
  <2>3. Escape[b] \notin {"?", "#", "&", "=", "+"}
    BY <2>2, TrackerAssumption DEF Bytes
  <2>4. \A c \in DOMAIN Escape : Escape[c] = Escape[b] => c = b
    BY <2>1, TrackerAssumption
  <2>5. Unescaped(Escape[b]) = b
    BY <2>1, <2>3, <2>4, Zenon DEF Unescaped
  <2> QED
    BY <1>2, <2>2, <2>3, <2>5, Zenon
<1> QED
  BY <1>1, <1>2

\* What percent_encode makes of any bytes has nothing that ends a value or a query,
\* and no name, and it decodes to the bytes.
THEOREM EncodingDecodes ==
    ASSUME NEW bytes \in Seq(Bytes)
    PROVE  /\ percent_encode(bytes) \in Texts
           /\ Len(percent_encode(bytes)) = Len(bytes)
           /\ \A c \in Names \cup {"#", "&"} : Lacks(percent_encode(bytes), c)
           /\ Decode(percent_encode(bytes)) = bytes
<1> DEFINE n == Len(bytes)
           code(b) == IF b \in Alphanumeric THEN b ELSE Escape[b]
           text == percent_encode(bytes)
<1>1. n \in Nat /\ DOMAIN bytes = 1 .. n /\ bytes = [k \in 1 .. n |-> bytes[k]]
  OBVIOUS
<1>2. \A k \in 1 .. n : bytes[k] \in Bytes
  BY <1>1
<1>3. text = [k \in 1 .. n |-> code(bytes[k])]
  BY <1>1, Zenon DEF percent_encode
<1>4. ASSUME NEW k \in 1 .. n
      PROVE  /\ code(bytes[k]) \in Symbols
             /\ code(bytes[k]) \notin Names \cup {"#", "&"}
             /\ Unescaped(code(bytes[k])) = bytes[k]
  BY <1>2, EncodedByte
<1> HIDE DEF text, code
<1>5. text \in Texts /\ Len(text) = n
  BY <1>1, <1>3, <1>4 DEF Texts
<1>6. ASSUME NEW c \in Names \cup {"#", "&"} PROVE Lacks(text, c)
  BY <1>1, <1>3, <1>4, <1>5 DEF Lacks
<1>7. Decode(text) = bytes
  <2>1. Decode(text) = [k \in 1 .. n |-> Unescaped(text[k])]
    BY <1>3, Zenon DEF Decode
  <2>2. \A k \in 1 .. n : Unescaped(text[k]) = bytes[k]
    BY <1>3, <1>4
  <2> QED
    BY <1>1, <2>1, <2>2
<1> QED
  BY <1>5, <1>6, <1>7 DEF text

\* The pairs, symbol by symbol.
LEMMA PairsAre ==
    /\ Pairs \in Texts /\ Len(Pairs) = 19
    /\ Pairs[1] = "port" /\ Pairs[2] = "=" /\ Pairs[3] = "12345" /\ Pairs[4] = "&"
    /\ Pairs[5] = "uploaded" /\ Pairs[6] = "=" /\ Pairs[7] = "0" /\ Pairs[8] = "&"
    /\ Pairs[9] = "downloaded" /\ Pairs[10] = "=" /\ Pairs[11] = "0" /\ Pairs[12] = "&"
    /\ Pairs[13] = "compact" /\ Pairs[14] = "=" /\ Pairs[15] = "1" /\ Pairs[16] = "&"
    /\ Pairs[17] = "left" /\ Pairs[18] = "=" /\ Pairs[19] = "length"
<1>1. Len(Pairs) = 19
  BY DEF Pairs
<1>2. Pairs = [k \in 1 .. 19 |-> Pairs[k]]
  BY DEF Pairs
<1>3. /\ Pairs[1] = "port" /\ Pairs[2] = "=" /\ Pairs[3] = "12345" /\ Pairs[4] = "&"
      /\ Pairs[5] = "uploaded" /\ Pairs[6] = "=" /\ Pairs[7] = "0" /\ Pairs[8] = "&"
      /\ Pairs[9] = "downloaded" /\ Pairs[10] = "=" /\ Pairs[11] = "0" /\ Pairs[12] = "&"
  BY DEF Pairs
<1>4. /\ Pairs[13] = "compact" /\ Pairs[14] = "=" /\ Pairs[15] = "1" /\ Pairs[16] = "&"
      /\ Pairs[17] = "left" /\ Pairs[18] = "=" /\ Pairs[19] = "length"
  BY DEF Pairs
<1>5. Bytes \cup Names \cup Numbers \subseteq Symbols /\ "=" \in Bytes /\ "&" \in Bytes
  BY TrackerAssumption DEF Symbols, Bytes
<1>6. /\ {"port", "uploaded", "downloaded", "compact", "left"} \subseteq Symbols
      /\ {"=", "&", "12345", "0", "1", "length"} \subseteq Symbols
  BY <1>5, Zenon DEF Names, PairNames, Numbers
<1>7. ASSUME NEW k \in 1 .. 19 PROVE Pairs[k] \in Symbols
  <2>1. CASE k <= 12
    BY <1>3, <1>6, <1>7, <2>1
  <2>2. CASE k > 12
    BY <1>4, <1>6, <1>7, <2>2
  <2> QED
    BY <1>7, <2>1, <2>2
<1>8. Pairs \in Texts
  BY <1>2, <1>7 DEF Texts
<1> QED
  BY <1>1, <1>3, <1>4, <1>8

\* The appended pairs, symbol by symbol.
LEMMA AppendedAre ==
    ASSUME NEW digest \in Seq(Bytes)
    PROVE  LET n == Len(digest)
               m == Len(PeerId)
               text == Appended(digest)
           IN  /\ text \in Texts /\ Len(text) = n + m + 6
               /\ text[1] = "&" /\ text[2] = "info_hash" /\ text[3] = "="
               /\ \A k \in 1 .. n : text[3 + k] = percent_encode(digest)[k]
               /\ text[n + 4] = "&" /\ text[n + 5] = "peer_id" /\ text[n + 6] = "="
               /\ \A k \in 1 .. m : text[n + 6 + k] = percent_encode(PeerId)[k]
<1> DEFINE n == Len(digest)
           m == Len(PeerId)
           I == <<"&", "info_hash", "=">>
           J == <<"&", "peer_id", "=">>
           c == percent_encode(digest)
           d == percent_encode(PeerId)
           x == I \o c
           y == x \o J
           text == y \o d
<1>1. /\ n \in Nat /\ m \in Nat
      /\ c \in Texts /\ Len(c) = n /\ d \in Texts /\ Len(d) = m
  BY TrackerAssumption, EncodingDecodes
<1>2. {"&", "=", "info_hash", "peer_id"} \subseteq Symbols
  BY TrackerAssumption DEF Symbols, Bytes, Names, AppendedNames
<1>3. /\ I \in Texts /\ Len(I) = 3 /\ I[1] = "&" /\ I[2] = "info_hash" /\ I[3] = "="
      /\ J \in Texts /\ Len(J) = 3 /\ J[1] = "&" /\ J[2] = "peer_id" /\ J[3] = "="
  BY <1>2 DEF Texts
<1>4. Appended(digest) = text
  BY Zenon DEF Appended
<1> HIDE DEF n, m, I, J, c, d
<1>5. /\ x \in Texts /\ Len(x) = 3 + n
      /\ \A k \in 1 .. 3 : x[k] = I[k]
      /\ \A k \in 1 .. n : x[3 + k] = c[k]
  <2>1. Consists(x, I, c)
    BY <1>1, <1>3, Joined, Zenon
  <2> QED
    BY <1>1, <1>3, <2>1 DEF Consists
<1> HIDE DEF x
<1>6. /\ y \in Texts /\ Len(y) = n + 6
      /\ \A k \in 1 .. n + 3 : y[k] = x[k]
      /\ \A k \in 1 .. 3 : y[n + 3 + k] = J[k]
  <2>1. Consists(y, x, J)
    BY <1>3, <1>5, Joined, Zenon
  <2> QED
    BY <1>1, <1>3, <1>5, <2>1 DEF Consists
<1> HIDE DEF y
<1>7. /\ text \in Texts /\ Len(text) = n + m + 6
      /\ \A k \in 1 .. n + 6 : text[k] = y[k]
      /\ \A k \in 1 .. m : text[n + 6 + k] = d[k]
  <2>1. Consists(text, y, d)
    BY <1>1, <1>6, Joined, Zenon
  <2> QED
    BY <1>1, <1>6, <2>1 DEF Consists
<1> HIDE DEF text
<1>8. text[1] = "&" /\ text[2] = "info_hash" /\ text[3] = "="
  <2>1. \A k \in 1 .. 3 : text[k] = I[k]
    BY <1>1, <1>5, <1>6, <1>7
  <2> QED
    BY <1>3, <2>1
<1>9. ASSUME NEW k \in 1 .. n PROVE text[3 + k] = c[k]
  <2>1. 3 + k \in 1 .. n + 3 /\ 3 + k \in 1 .. n + 6
    BY <1>1
  <2> QED
    BY <1>5, <1>6, <1>7, <2>1
<1>10. text[n + 4] = "&" /\ text[n + 5] = "peer_id" /\ text[n + 6] = "="
  <2>1. text[(n + 3) + 1] = J[1] /\ text[(n + 3) + 2] = J[2] /\ text[(n + 3) + 3] = J[3]
    BY <1>1, <1>6, <1>7
  <2> QED
    BY <1>1, <1>3, <2>1
<1> QED
  BY <1>4, <1>7, <1>8, <1>9, <1>10 DEF n, m, c, d

\* No pair has a character that starts a fragment, or a name of the others.
LEMMA PairsLack == \A c \in AppendedNames \cup {"#"} : Lacks(Pairs, c)
<1>1. ASSUME NEW c \in {"info_hash", "peer_id", "#"}, NEW k \in 1 .. 19 PROVE Pairs[k] # c
  <2>1. CASE k <= 12
    BY <1>1, <2>1, PairsAre
  <2>2. CASE k > 12
    BY <1>1, <2>2, PairsAre
  <2> QED
    BY <1>1, <2>1, <2>2
<1> QED
  BY <1>1, PairsAre DEF Lacks, AppendedNames

\* The appended pairs have no such character either, and no name of the first ones.
LEMMA AppendedLacks ==
    ASSUME NEW digest \in Seq(Bytes)
    PROVE  \A c \in PairNames \cup {"#"} : Lacks(Appended(digest), c)
<1> DEFINE n == Len(digest)
           m == Len(PeerId)
           text == Appended(digest)
<1>1. n \in Nat /\ m \in Nat /\ Len(text) = n + m + 6
  BY AppendedAre, TrackerAssumption
<1>2. ASSUME NEW c \in PairNames \cup {"#"}, NEW k \in 1 .. n + m + 6 PROVE text[k] # c
  <2>1. c \notin {"&", "=", "info_hash", "peer_id"}
    BY <1>2 DEF PairNames
  <2>2. CASE k \in {1, 2, 3, n + 4, n + 5, n + 6}
    BY <2>1, <2>2, AppendedAre
  <2>3. CASE k \in 4 .. n + 3
    <3>1. k - 3 \in 1 .. n /\ 3 + (k - 3) = k
      BY <1>1, <2>3
    <3>2. text[k] = percent_encode(digest)[k - 3]
      BY <3>1, AppendedAre
    <3>3. Lacks(percent_encode(digest), c) /\ Len(percent_encode(digest)) = n
      BY <1>2, EncodingDecodes DEF Names
    <3> QED
      BY <3>1, <3>2, <3>3 DEF Lacks
  <2>4. CASE k \in n + 7 .. n + m + 6
    <3>1. k - (n + 6) \in 1 .. m /\ n + 6 + (k - (n + 6)) = k
      BY <1>1, <2>4
    <3>2. text[k] = percent_encode(PeerId)[k - (n + 6)]
      BY <3>1, AppendedAre
    <3>3. Lacks(percent_encode(PeerId), c) /\ Len(percent_encode(PeerId)) = m
      BY <1>2, EncodingDecodes, TrackerAssumption DEF Names
    <3> QED
      BY <3>1, <3>2, <3>3 DEF Lacks
  <2> QED
    BY <1>1, <1>2, <2>2, <2>3, <2>4
<1> QED
  BY <1>1, <1>2 DEF Lacks

\* A prefix cut off a concatenation.
LEMMA CutJoined ==
    ASSUME NEW s \in Texts, NEW t \in Texts, NEW q \in 0 .. Len(s)
    PROVE  SubSeq(s \o t, q + 1, Len(s \o t)) = SubSeq(s, q + 1, Len(s)) \o t
<1> DEFINE m == Len(s)
           n == Len(t)
           u == s \o t
           a == SubSeq(u, q + 1, m + n)
           r == SubSeq(s, q + 1, m)
           b == r \o t
<1>1. /\ m \in Nat /\ n \in Nat /\ q \in 0 .. m
      /\ u \in Texts /\ Len(u) = m + n
      /\ \A k \in 1 .. m : u[k] = s[k]
      /\ \A k \in 1 .. n : u[m + k] = t[k]
  <2>1. Consists(u, s, t)
    BY Joined, Zenon
  <2> QED
    BY <2>1 DEF Consists
<1>2. r \in Texts /\ Len(r) = m - q /\ \A k \in 1 .. m - q : r[k] = s[q + k]
  BY <1>1 DEF Texts
<1> HIDE DEF u, m, n
<1>3. a \in Texts /\ Len(a) = m + n - q /\ \A k \in 1 .. m + n - q : a[k] = u[q + k]
  BY <1>1 DEF Texts
<1> HIDE DEF r
<1>4. /\ b \in Texts /\ Len(b) = m - q + n
      /\ \A k \in 1 .. m - q : b[k] = r[k]
      /\ \A k \in 1 .. n : b[(m - q) + k] = t[k]
  <2>1. Consists(b, r, t)
    BY <1>2, Joined, Zenon
  <2> QED
    BY <1>2, <2>1 DEF Consists, n
<1> HIDE DEF a, b
<1>5. ASSUME NEW k \in 1 .. m + n - q PROVE a[k] = b[k]
  <2>1. CASE k <= m - q
    BY <1>1, <1>2, <1>3, <1>4, <1>5, <2>1
  <2>2. CASE k > m - q
    <3>1. /\ k - (m - q) \in 1 .. n /\ (m - q) + (k - (m - q)) = k
          /\ m + (k - (m - q)) = q + k
      BY <1>1, <1>5, <2>2
    <3>2. b[k] = t[k - (m - q)]
      BY <1>4, <3>1
    <3>3. u[q + k] = t[k - (m - q)]
      BY <1>1, <3>1
    <3> QED
      BY <1>3, <1>5, <3>2, <3>3
  <2> QED
    BY <1>1, <1>5, <2>1, <2>2
<1>6. a = b
  <2>1. Len(a) = Len(b)
    BY <1>1, <1>3, <1>4
  <2> QED
    BY <1>3, <1>4, <1>5, <2>1, SeqEqual DEF Texts
<1> QED
  BY <1>1, <1>6 DEF a, b, r, m, n, u

\* In front of the first pair there is nothing, or other pairs.
OtherPairs(s) ==
    /\ s \in Texts
    /\ s = <<>> \/ s[Len(s)] = "&"
    /\ \A c \in Names : Lacks(s, c)

\* The announce URL has a fragment.
HasFragment(announce) == "#" \in ToSet(Spelling[announce])

\* The query that the tracker gets to see.
LEMMA QueryIs ==
    ASSUME NEW announce \in Urls, NEW digest \in Seq(Bytes)
    PROVE  \E others :
               /\ OtherPairs(others)
               /\ Query(get_announce_url(announce, digest)) =
                      (others \o Pairs) \o (IF HasFragment(announce) THEN <<>> ELSE Appended(digest))
<1> DEFINE text == Spelling[announce]
           n == Len(text)
           p == Position(text, "#")
           front == Before(text, "#")
           separator == Separator(front)
           fragment == SubSeq(text, Len(front) + 1, n)
           f == front \o separator
           x == f \o Pairs
           y == x \o fragment
           a == Appended(digest)
           url == y \o a
           rest == IF HasFragment(announce) THEN <<>> ELSE a
           z == x \o rest
<1>1. text \in Texts /\ n \in Nat /\ DOMAIN text = 1 .. n /\ \A c \in Names : Lacks(text, c)
  <2>1. IsSequence(text) /\ ToSet(text) \cap Names = {}
    BY TrackerAssumption
  <2>2. ToSet(text) \subseteq Symbols
    BY DEF Symbols
  <2>3. text \in Texts
    BY <2>1, <2>2 DEF IsSequence, ToSet, Texts
  <2> QED
    BY <2>1, <2>3 DEF ToSet, Lacks, Texts
<1>2. FoundAt(text, "#", p)
  BY <1>1, PositionFinds, Zenon
<1>3. HasFragment(announce) <=> p # n + 1
  <2>1. HasFragment(announce) <=> \E k \in 1 .. n : text[k] = "#"
    BY <1>1, Zenon DEF HasFragment, ToSet
  <2> HIDE DEF text, n, p
  <2> QED
    BY <1>1, <1>2, <2>1 DEF FoundAt
<1>4. get_announce_url(announce, digest) = url
  BY Zenon DEF get_announce_url
<1>5. /\ front \in Texts /\ Len(front) = p - 1
      /\ \A k \in 1 .. p - 1 : front[k] = text[k]
      /\ p = n + 1 => front = text
  BY <1>1, <1>2 DEF Before, FoundAt, Texts
<1>6. /\ fragment \in Texts /\ Len(fragment) = n + 1 - p
      /\ p # n + 1 => fragment[1] = "#"
      /\ p = n + 1 => fragment = <<>>
  <2>1. fragment = SubSeq(text, p, n) /\ p \in 1 .. n + 1
    <3>1. p \in 1 .. n + 1
      BY <1>2, Zenon DEF FoundAt
    <3>2. Len(front) + 1 = p
      BY <1>1, <1>5, <3>1
    <3> QED
      BY <3>1, <3>2, Zenon
  <2> HIDE DEF text, p, fragment
  <2>2. fragment \in Texts /\ Len(fragment) = n + 1 - p
    BY <1>1, <2>1 DEF Texts
  <2>3. ASSUME p # n + 1 PROVE fragment[1] = "#"
    <3>1. fragment[1] = text[p]
      BY <1>1, <2>1, <2>3 DEF Texts
    <3> QED
      BY <1>2, <2>3, <3>1 DEF FoundAt
  <2>4. ASSUME p = n + 1 PROVE fragment = <<>>
    BY <1>1, <2>2, <2>4 DEF Texts
  <2> QED
    BY <2>2, <2>3, <2>4
<1> HIDE DEF text, n, p, front, fragment
<1>7. \A c \in Names \cup {"#"} : Lacks(front, c)
  BY <1>1, <1>2, <1>5 DEF Lacks, FoundAt
<1>8. /\ separator \in Texts
      /\ \A c \in Names \cup {"#"} : Lacks(separator, c)
      /\ separator \in {<<>>, <<"?">>, <<"&">>}
  <2>1. separator \in {<<>>, <<"?">>, <<"&">>}
    BY Zenon DEF Separator
  <2>2. "?" \in Symbols /\ "&" \in Symbols /\ ~ ("?" \in Names) /\ ~ ("&" \in Names)
    BY TrackerAssumption DEF Symbols, Bytes
  <2>3. "?" # "#" /\ "&" # "#"
    OBVIOUS
  <2> HIDE DEF separator
  <2>4. <<>> \in Texts /\ \A c : Lacks(<<>>, c)
    BY DEF Lacks, Texts
  <2>5. ASSUME NEW b \in {"?", "&"}
        PROVE  <<b>> \in Texts /\ \A c \in Names \cup {"#"} : Lacks(<<b>>, c)
    BY <2>2, <2>3 DEF Lacks, Texts
  <2> QED
    BY <2>1, <2>4, <2>5
<1> HIDE DEF separator
<1>9. a \in Texts /\ Lacks(a, "#") /\ a[1] = "&"
  BY AppendedLacks, AppendedAre, Zenon
<1>10. Pairs \in Texts /\ Lacks(Pairs, "#")
  BY PairsLack, PairsAre
<1> HIDE DEF a
<1>11. f \in Texts /\ \A c \in Names \cup {"#"} : Lacks(f, c)
  BY <1>5, <1>7, <1>8, Joined, JoinedLacks DEF Consists
<1>12. x \in Texts /\ Lacks(x, "#")
  BY <1>10, <1>11, Joined, JoinedLacks DEF Consists
<1>13. Before(url, "#") = z
  <2>1. Consists(y, x, fragment) /\ Consists(url, y, a)
    <3>1. Consists(y, x, fragment)
      BY <1>6, <1>12, Joined, Zenon
    <3>2. y \in Texts
      BY <3>1, Zenon DEF Consists
    <3> QED
      BY <1>9, <3>1, <3>2, Joined, Zenon
  <2>2. CASE p = n + 1
    <3>1. y = x /\ url = z
      <4>1. x \o <<>> = x
        BY <1>12 DEF Texts
      <4>2. rest = a
        BY <1>3, <2>2
      <4> QED
        BY <1>6, <2>2, <4>1, <4>2, Zenon
    <3>2. Lacks(url, "#") /\ url \in Texts
      BY <1>9, <1>12, <2>1, <3>1, JoinedLacks, Zenon DEF Consists
    <3> HIDE DEF url, z
    <3>3. FoundAt(url, "#", Len(url) + 1)
      BY <3>2 DEF Lacks, FoundAt, Texts
    <3>4. Before(url, "#") = SubSeq(url, 1, (Len(url) + 1) - 1)
      BY <3>2, <3>3, PositionFinds, Zenon DEF Before
    <3>5. SubSeq(url, 1, (Len(url) + 1) - 1) = url
      BY <3>2 DEF Texts
    <3> QED
      BY <3>1, <3>4, <3>5
  <2>3. CASE p # n + 1
    <3>1. z = x
      <4>1. rest = <<>>
        BY <1>3, <2>3
      <4>2. x \o <<>> = x
        BY <1>12 DEF Texts
      <4> QED
        BY <4>1, <4>2, Zenon
    <3> DEFINE m == Len(x)
    <3> HIDE DEF x, y, url, z
    <3>2. Len(fragment) > 0 /\ fragment[1] = "#"
      BY <1>1, <1>2, <1>6, <2>3 DEF FoundAt
    <3>3. /\ url \in Texts /\ m \in Nat /\ m + 1 <= Len(url)
          /\ \A k \in 1 .. m : url[k] = x[k]
          /\ url[m + 1] = "#"
      <4>1. /\ m \in Nat /\ Len(y) = m + Len(fragment) /\ Len(fragment) \in Nat
            /\ \A k \in 1 .. m : y[k] = x[k]
            /\ y[m + 1] = "#"
        BY <2>1, <3>2 DEF Consists
      <4> HIDE DEF m
      <4>2. /\ url \in Texts /\ Len(url) = Len(y) + Len(a) /\ Len(a) \in Nat
            /\ \A k \in 1 .. Len(y) : url[k] = y[k]
        BY <2>1 DEF Consists
      <4> QED
        BY <3>2, <4>1, <4>2
    <3>4. FoundAt(url, "#", m + 1)
      BY <1>12, <3>3 DEF FoundAt, Lacks, Texts
    <3>5. Before(url, "#") = SubSeq(url, 1, (m + 1) - 1)
      BY <3>3, <3>4, PositionFinds, Zenon DEF Before
    <3>6. SubSeq(url, 1, m) = x
      <4>1. /\ SubSeq(url, 1, m) \in Seq(Symbols) /\ Len(SubSeq(url, 1, m)) = m
            /\ \A k \in 1 .. m : SubSeq(url, 1, m)[k] = url[k]
        BY <3>3 DEF Texts
      <4> QED
        BY <1>12, <3>3, <4>1, SeqEqual DEF Texts
    <3> QED
      BY <3>1, <3>3, <3>5, <3>6
  <2> QED
    BY <2>2, <2>3
<1>14. Query(url) = After(z, "?")
  BY <1>13 DEF Query
<1> DEFINE q == Position(front, "?")
<1>15. q \in 1 .. Len(f) /\ FoundAt(z, "?", q)
  <2>1. FoundAt(front, "?", q)
    BY <1>5, PositionFinds, Zenon
  <2>2. separator = <<"?">> <=> q = Len(front) + 1
    <3>1. "?" \in ToSet(front) <=> q # Len(front) + 1
      BY <1>5, <2>1 DEF FoundAt, ToSet, Texts
    <3> QED
      BY <3>1 DEF Separator, separator
  <2>3. Consists(f, front, separator) /\ Consists(x, f, Pairs) /\ Consists(z, x, rest)
    <3>1. rest \in Texts
      BY <1>9 DEF Texts
    <3> QED
      BY <1>5, <1>8, <1>10, <1>11, <1>12, <3>1, Joined, Zenon
  <2> HIDE DEF q, f, x, z, rest
  <2>4. /\ Len(front) \in Nat /\ Len(f) \in Nat /\ Len(front) <= Len(f) /\ Len(f) <= Len(z)
        /\ \A k \in 1 .. Len(front) : f[k] = front[k]
        /\ \A k \in 1 .. Len(f) : z[k] = f[k]
        /\ separator = <<"?">> => Len(f) = Len(front) + 1 /\ f[Len(front) + 1] = "?"
    <3>1. /\ Len(front) \in Nat /\ Len(f) \in Nat /\ Len(front) <= Len(f)
          /\ \A k \in 1 .. Len(front) : f[k] = front[k]
      BY <2>3 DEF Consists
    <3>2. ASSUME separator = <<"?">> PROVE Len(f) = Len(front) + 1 /\ f[Len(front) + 1] = "?"
      <4>1. Len(separator) = 1 /\ separator[1] = "?"
        BY <3>2
      <4> QED
        BY <2>3, <4>1 DEF Consists
    <3>3. /\ Len(f) <= Len(x) /\ Len(x) <= Len(z)
          /\ \A k \in 1 .. Len(f) : x[k] = f[k]
          /\ \A k \in 1 .. Len(x) : z[k] = x[k]
          /\ Len(x) \in Nat /\ Len(z) \in Nat
      <4>1. /\ Len(f) <= Len(x) /\ Len(x) \in Nat
            /\ \A k \in 1 .. Len(f) : x[k] = f[k]
        BY <2>3 DEF Consists
      <4>2. /\ Len(x) <= Len(z) /\ Len(z) \in Nat
            /\ \A k \in 1 .. Len(x) : z[k] = x[k]
        BY <2>3 DEF Consists
      <4> QED
        BY <4>1, <4>2, Zenon
    <3> QED
      BY <3>1, <3>2, <3>3
  <2>5. q \in 1 .. Len(f) /\ z[q] = "?"
    <3>1. CASE q = Len(front) + 1
      BY <2>2, <2>4, <3>1
    <3>2. CASE q # Len(front) + 1
      BY <2>1, <2>4, <3>2 DEF FoundAt
    <3> QED
      BY <3>1, <3>2
  <2>6. q \in 1 .. Len(z) + 1
    BY <2>4, <2>5
  <2>7. ASSUME NEW j \in 1 .. q - 1 PROVE z[j] # "?"
    <3>1. front[j] # "?" /\ j \in 1 .. Len(front) /\ j \in 1 .. Len(f)
      BY <2>1, <2>4 DEF FoundAt
    <3> QED
      BY <2>4, <3>1
  <2> QED
    BY <2>5, <2>6, <2>7 DEF FoundAt
<1> DEFINE others == SubSeq(f, q + 1, Len(f))
<1> HIDE DEF q
<1>16. OtherPairs(others)
  <2>1. /\ others \in Texts /\ Len(others) = Len(f) - q /\ Len(f) \in Nat
        /\ \A k \in 1 .. Len(f) - q : others[k] = f[q + k]
    BY <1>11, <1>15 DEF Texts
  <2> HIDE DEF others
  <2>2. ASSUME NEW c \in Names PROVE Lacks(others, c)
    <3>1. Lacks(f, c)
      BY <1>11, <2>2
    <3>2. ASSUME NEW k \in 1 .. Len(others) PROVE others[k] # c
      <4>1. k \in 1 .. Len(f) - q /\ q + k \in 1 .. Len(f)
        BY <1>15, <2>1, <3>2
      <4> QED
        BY <2>1, <3>1, <4>1 DEF Lacks
    <3> QED
      BY <3>2 DEF Lacks
  <2>3. others = <<>> \/ others[Len(others)] = "&"
    <3>1. Consists(f, front, separator)
      BY <1>5, <1>8, Joined, Zenon
    <3>2. FoundAt(front, "?", q)
      BY <1>5, PositionFinds, Zenon DEF q
    <3>3. "?" \in ToSet(front) <=> q # Len(front) + 1
      BY <1>5, <3>2 DEF FoundAt, ToSet, Texts
    <3> HIDE DEF f
    <3>4. CASE q = Len(front) + 1
      <4>1. Len(separator) = 1
        BY <3>3, <3>4 DEF Separator, separator
      <4>2. Len(f) - q = 0
        BY <3>1, <3>4, <4>1 DEF Consists
      <4> QED
        BY <2>1, <4>2 DEF Texts
    <3>5. CASE q # Len(front) + 1 /\ After(front, "?") = <<>>
      <4>1. Len(separator) = 0
        BY <3>3, <3>5 DEF Separator, separator
      <4>2. Len(After(front, "?")) = Len(front) - q
        BY <1>5, <3>2, <3>5 DEF FoundAt, After, Texts, q
      <4>3. Len(f) - q = 0
        BY <3>1, <3>2, <3>5, <4>1, <4>2 DEF Consists, FoundAt
      <4> QED
        BY <2>1, <4>3 DEF Texts
    <3>6. CASE q # Len(front) + 1 /\ After(front, "?") # <<>>
      <4>1. Len(separator) = 1 /\ separator[1] = "&"
        BY <3>3, <3>6 DEF Separator, separator
      <4>2. Len(f) = Len(front) + 1 /\ f[Len(front) + 1] = "&" /\ Len(front) \in Nat
        BY <3>1, <4>1 DEF Consists
      <4>3. Len(f) - q \in 1 .. Len(f) - q /\ q + (Len(f) - q) = Len(f)
        BY <3>2, <3>6, <4>2 DEF FoundAt
      <4> QED
        BY <2>1, <4>2, <4>3
    <3> QED
      BY <3>4, <3>5, <3>6
  <2> QED
    BY <2>1, <2>2, <2>3 DEF OtherPairs
<1>17. After(z, "?") = (others \o Pairs) \o rest
  <2> HIDE DEF rest
  <2>1. rest \in Texts
    BY <1>9 DEF Texts, rest
  <2>2. z \in Texts
    <3>1. Consists(z, x, rest)
      BY <1>12, <2>1, Joined, Zenon
    <3> QED
      BY <3>1, Zenon DEF Consists
  <2>3. Len(x) = Len(f) + Len(Pairs) /\ Len(f) \in Nat /\ Len(Pairs) \in Nat
    <3>1. Consists(x, f, Pairs)
      BY <1>10, <1>11, Joined, Zenon
    <3> QED
      BY <3>1, Zenon DEF Consists
  <2> HIDE DEF f
  <2>4. q \in 0 .. Len(f) /\ q \in 0 .. Len(x)
    BY <1>15, <2>3
  <2>5. SubSeq(x, q + 1, Len(x)) = others \o Pairs
    BY <1>10, <1>11, <2>4, CutJoined, Zenon
  <2>6. SubSeq(z, q + 1, Len(z)) = SubSeq(x, q + 1, Len(x)) \o rest
    BY <1>12, <2>1, <2>4, CutJoined, Zenon
  <2>7. Position(z, "?") = q
    BY <1>15, <2>2, PositionFinds, Zenon
  <2> QED
    BY <2>5, <2>6, <2>7, Zenon DEF After
<1> HIDE DEF others, rest, z, url
<1>18. Query(get_announce_url(announce, digest)) = (others \o Pairs) \o rest
  BY <1>4, <1>14, <1>17, Zenon
<1> QED
  BY <1>16, <1>18, Zenon DEF rest, a

\* A number of the query reads as itself.
LEMMA NumberDecodes ==
    ASSUME NEW v \in Numbers, NEW s \in Texts, NEW k \in 1 .. Len(s), s[k] = v
    PROVE  Decode(SubSeq(s, k, k)) = <<v>>
<1>1. Unescaped(v) = v
  <2>1. v # "+" /\ ~ \E b \in DOMAIN Escape : Escape[b] = v
    BY TrackerAssumption DEF Numbers
  <2> QED
    BY <2>1, Zenon DEF Unescaped
<1>2. SubSeq(s, k, k) = <<v>>
  <2> DEFINE t == SubSeq(s, k, k)
  <2>1. t \in Seq(Symbols) /\ Len(t) = 1 /\ t[1] = v
    BY DEF Texts
  <2> HIDE DEF t
  <2>2. t = <<v>>
    BY <2>1
  <2> QED
    BY <2>2 DEF t
<1>3. Decode(<<v>>) = <<Unescaped(v)>>
  BY DEF Decode
<1> QED
  BY <1>1, <1>2, <1>3, Zenon

\* What follows the first pairs: nothing, or other pairs.
LaterPairs(s) ==
    /\ s \in Texts
    /\ s = <<>> \/ s[1] = "&"
    /\ \A c \in PairNames : Lacks(s, c)

\* Where the symbols of a query come from.
Parts(query, others, later) ==
    LET u == Len(others)
        m == Len(later)
    IN  /\ query \in Texts /\ u \in Nat /\ m \in Nat /\ Len(query) = u + 19 + m
        /\ \A i \in 1 .. u : query[i] = others[i]
        /\ \A i \in 1 .. 19 : query[u + i] = Pairs[i]
        /\ \A i \in 1 .. m : query[u + 19 + i] = later[i]

\* That is where the symbols of the three parts stand.
LEMMA QueryParts ==
    ASSUME NEW others \in Texts, NEW later \in Texts
    PROVE  Parts((others \o Pairs) \o later, others, later)
<1> DEFINE u == Len(others)
           m == Len(later)
           x == others \o Pairs
           query == x \o later
<1>1. Consists(x, others, Pairs)
  BY PairsAre, Joined, Zenon
<1>2. Consists(query, x, later)
  <2>1. x \in Texts
    BY <1>1, Zenon DEF Consists
  <2> QED
    BY <2>1, Joined, Zenon
<1>3. x \in Texts /\ u \in Nat /\ Len(x) = u + 19
  <2>1. Len(Pairs) = 19
    BY PairsAre, Zenon
  <2> HIDE DEF x
  <2> QED
    BY <1>1, <2>1 DEF Consists
<1>4. /\ \A i \in 1 .. u : x[i] = others[i]
      /\ \A i \in 1 .. 19 : x[u + i] = Pairs[i]
  <2>1. Len(Pairs) = 19
    BY PairsAre, Zenon
  <2> HIDE DEF x
  <2> QED
    BY <1>1, <2>1 DEF Consists
<1> HIDE DEF x, query
<1>5. query \in Texts /\ m \in Nat /\ Len(query) = u + 19 + m
  BY <1>2, <1>3 DEF Consists
<1>6. /\ \A i \in 1 .. u + 19 : query[i] = x[i]
      /\ \A i \in 1 .. m : query[u + 19 + i] = later[i]
  BY <1>2, <1>3 DEF Consists
<1> HIDE DEF u, m
<1>7. ASSUME NEW i \in 1 .. u PROVE query[i] = others[i]
  <2>1. i \in 1 .. u + 19
    BY <1>3
  <2> QED
    BY <1>4, <1>6, <2>1
<1>8. ASSUME NEW i \in 1 .. 19 PROVE query[u + i] = Pairs[i]
  <2>1. u + i \in 1 .. u + 19
    BY <1>3
  <2> QED
    BY <1>4, <1>6, <2>1
<1> QED
  BY <1>3, <1>5, <1>6, <1>7, <1>8, Zenon DEF Parts, u, m, query, x

\* The first pairs are read as they are, whatever stands around them.
LEMMA PairIsRead ==
    ASSUME NEW others, OtherPairs(others), NEW later, LaterPairs(later),
           NEW a \in {1, 5, 9, 13, 17}
    PROVE  ValuesOf((others \o Pairs) \o later, Pairs[a]) = {<<Pairs[a + 2]>>}
<1> DEFINE u == Len(others)
           m == Len(later)
           x == others \o Pairs
           query == x \o later
           k == u + a
           j == u + a + 3
<1>1. query \in Texts /\ u \in Nat /\ m \in Nat /\ Len(query) = u + 19 + m
  BY QueryParts, Zenon DEF OtherPairs, LaterPairs, Parts
<1>2. /\ \A i \in 1 .. u : query[i] = others[i]
      /\ \A i \in 1 .. 19 : query[u + i] = Pairs[i]
      /\ \A i \in 1 .. m : query[u + 19 + i] = later[i]
  BY QueryParts, Zenon DEF OtherPairs, LaterPairs, Parts
<1>3. /\ Pairs[a] \in PairNames /\ Pairs[a + 1] = "=" /\ Pairs[a + 2] \in Numbers
      /\ Pairs[a + 2] # "&"
      /\ a = 1 \/ Pairs[a - 1] = "&"
      /\ a = 17 \/ Pairs[a + 3] = "&"
  BY PairsAre DEF PairNames, Numbers
<1>4. ASSUME NEW i \in 1 .. 19, Pairs[i] = Pairs[a] PROVE i = a
  <2>1. CASE i <= 12
    BY <1>4, <2>1, PairsAre
  <2>2. CASE i > 12
    BY <1>4, <2>2, PairsAre
  <2> QED
    BY <1>4, <2>1, <2>2
<1> HIDE DEF query, u, m
<1>5. /\ a \in 1 .. 17 /\ k \in Nat /\ j = k + 3
      /\ k \in 1 .. Len(query) - 1 /\ j \in k + 2 .. Len(query) + 1
  BY <1>1
<1>6. k = 1 \/ query[k - 1] = "&"
  <2>1. CASE a = 1 /\ u = 0
    BY <2>1
  <2>2. CASE a = 1 /\ u # 0
    <3>1. k - 1 = u /\ u \in 1 .. u
      BY <1>1, <2>2
    <3>2. others[u] = "&"
      BY <2>2 DEF OtherPairs, u
    <3> QED
      BY <1>2, <3>1, <3>2
  <2>3. CASE a # 1
    <3>1. k - 1 = u + (a - 1) /\ a - 1 \in 1 .. 19
      BY <1>1, <2>3
    <3> QED
      BY <1>2, <1>3, <2>3, <3>1
  <2> QED
    BY <2>1, <2>2, <2>3
<1>7. query[k] = Pairs[a] /\ query[k + 1] = "=" /\ query[k + 2] = Pairs[a + 2]
  <2>1. a \in 1 .. 19 /\ a + 1 \in 1 .. 19 /\ a + 2 \in 1 .. 19
    OBVIOUS
  <2>2. k + 1 = u + (a + 1) /\ k + 2 = u + (a + 2)
    BY <1>1
  <2> QED
    BY <1>2, <1>3, <2>1, <2>2
<1>8. j = Len(query) + 1 \/ query[j] = "&"
  <2>1. CASE a = 17 /\ m = 0
    BY <1>1, <2>1
  <2>2. CASE a = 17 /\ m # 0
    <3>1. j = u + 19 + 1 /\ 1 \in 1 .. m
      BY <1>1, <2>2
    <3>2. later[1] = "&"
      BY <2>2 DEF LaterPairs, m
    <3> QED
      BY <1>2, <3>1, <3>2
  <2>3. CASE a # 17
    <3>1. j = u + (a + 3) /\ a + 3 \in 1 .. 19
      BY <1>1, <2>3
    <3> QED
      BY <1>2, <1>3, <2>3, <3>1
  <2> QED
    BY <2>1, <2>2, <2>3
<1>9. ASSUME NEW i \in k + 2 .. j - 1 PROVE query[i] # "&"
  <2>1. i = k + 2
    BY <1>5, <1>9
  <2> QED
    BY <1>3, <1>7, <2>1
<1>10. ASSUME NEW i \in 1 .. Len(query), query[i] = Pairs[a] PROVE i = k
  <2>1. CASE i <= u
    <3>1. i \in 1 .. u
      BY <1>1, <1>10, <2>1
    <3>2. others[i] = Pairs[a]
      BY <1>2, <1>10, <3>1
    <3> QED
      BY <1>3, <3>1, <3>2 DEF OtherPairs, Lacks, Names, u
  <2>2. CASE i > u /\ i <= u + 19
    <3>1. i - u \in 1 .. 19 /\ u + (i - u) = i
      BY <1>1, <1>10, <2>2
    <3>2. Pairs[i - u] = Pairs[a]
      BY <1>2, <1>10, <3>1
    <3>3. i - u = a
      BY <1>4, <3>1, <3>2
    <3> QED
      BY <1>1, <1>10, <3>3
  <2>3. CASE i > u + 19
    <3>1. i - (u + 19) \in 1 .. m /\ u + 19 + (i - (u + 19)) = i
      BY <1>1, <1>10, <2>3
    <3>2. later[i - (u + 19)] = Pairs[a]
      BY <1>2, <1>10, <3>1
    <3> QED
      BY <1>3, <3>1, <3>2 DEF LaterPairs, Lacks, m
  <2> QED
    BY <1>1, <1>10, <2>1, <2>2, <2>3
<1>11. ValuesOf(query, Pairs[a]) = {Decode(SubSeq(query, k + 2, j - 1))}
  <2> HIDE DEF k, j
  <2>1. OnlyPair(query, Pairs[a], k, j)
    BY <1>5, <1>6, <1>7, <1>8, <1>9, <1>10, Zenon DEF OnlyPair
  <2> QED
    BY <1>1, <2>1, ValueOfPair, Zenon
<1>12. Decode(SubSeq(query, k + 2, k + 2)) = <<Pairs[a + 2]>>
  <2>1. k + 2 \in 1 .. Len(query)
    BY <1>1
  <2> HIDE DEF k
  <2> QED
    BY <1>1, <1>3, <1>7, <2>1, NumberDecodes, Zenon
<1>13. k + 2 = j - 1
  BY <1>1
<1> QED
  BY <1>11, <1>12, <1>13, Zenon DEF query

\* The pair at k has encoded bytes for its value.
EncodedPair(query, name, k, bytes) ==
    /\ OnlyPair(query, name, k, k + 2 + Len(bytes))
    /\ \A i \in 1 .. Len(bytes) : query[k + 1 + i] = percent_encode(bytes)[i]

\* Encoded bytes are read as these bytes.
LEMMA EncodedIsRead ==
    ASSUME NEW query \in Texts, NEW name, NEW k, NEW bytes \in Seq(Bytes),
           EncodedPair(query, name, k, bytes)
    PROVE  ValuesOf(query, name) = {bytes}
<1> DEFINE n == Len(bytes)
           j == k + 2 + n
           c == percent_encode(bytes)
           v == SubSeq(query, k + 2, j - 1)
<1>1. n \in Nat /\ c \in Texts /\ Len(c) = n /\ Decode(c) = bytes
  BY EncodingDecodes
<1>2. k \in 1 .. Len(query) - 1 /\ j \in k + 2 .. Len(query) + 1
  BY DEF EncodedPair, OnlyPair
<1> HIDE DEF n, c
<1>3. /\ v \in Texts /\ Len(v) = n
      /\ \A i \in 1 .. n : v[i] = query[k + 1 + i]
  BY <1>1, <1>2 DEF Texts
<1> HIDE DEF v
<1>4. \A i \in 1 .. n : v[i] = c[i]
  BY <1>3 DEF n, c, EncodedPair
<1>5. v = c
  BY <1>1, <1>3, <1>4, SeqEqual DEF Texts
<1>6. ValuesOf(query, name) = {Decode(v)}
  <2>1. OnlyPair(query, name, k, j)
    BY Zenon DEF EncodedPair, n
  <2>2. ASSUME NEW i, OnlyPair(query, name, k, i)
        PROVE  ValuesOf(query, name) = {Decode(SubSeq(query, k + 2, i - 1))}
    BY <2>2, ValueOfPair
  <2> HIDE DEF j
  <2>3. ValuesOf(query, name) = {Decode(SubSeq(query, k + 2, j - 1))}
    BY <2>1, <2>2, Zenon
  <2> QED
    BY <2>3 DEF v
<1> QED
  BY <1>1, <1>5, <1>6

\* The appended names stand in one place each.
LEMMA AppendedNamesOnce ==
    ASSUME NEW digest \in Seq(Bytes), NEW k \in 1 .. Len(Appended(digest))
    PROVE  /\ Appended(digest)[k] = "info_hash" => k = 2
           /\ Appended(digest)[k] = "peer_id" => k = Len(digest) + 5
<1> DEFINE n == Len(digest)
           m == Len(PeerId)
           text == Appended(digest)
<1>1. n \in Nat /\ m \in Nat /\ Len(text) = n + m + 6
  BY AppendedAre, TrackerAssumption
<1>2. CASE k \in {1, 2, 3, n + 4, n + 5, n + 6}
  BY <1>1, <1>2, AppendedAre
<1>3. CASE k \in 4 .. n + 3
  <2>1. k - 3 \in 1 .. n /\ 3 + (k - 3) = k
    BY <1>1, <1>3
  <2>2. text[k] = percent_encode(digest)[k - 3]
    BY <2>1, AppendedAre
  <2>3. text[k] \notin AppendedNames
    BY <2>1, <2>2, EncodingDecodes DEF Lacks, Names
  <2> QED
    BY <2>3 DEF AppendedNames
<1>4. CASE k \in n + 7 .. n + m + 6
  <2>1. k - (n + 6) \in 1 .. m /\ n + 6 + (k - (n + 6)) = k
    BY <1>1, <1>4
  <2>2. text[k] = percent_encode(PeerId)[k - (n + 6)]
    BY <2>1, AppendedAre
  <2>3. text[k] \notin AppendedNames
    BY <2>1, <2>2, EncodingDecodes, TrackerAssumption DEF Lacks, Names
  <2> QED
    BY <2>3 DEF AppendedNames
<1> QED
  BY <1>1, <1>2, <1>3, <1>4

\* The tracker reads the info hash and the peer id.
LEMMA AppendedIsRead ==
    ASSUME NEW others, OtherPairs(others), NEW digest \in Seq(Bytes)
    PROVE  LET query == (others \o Pairs) \o Appended(digest)
           IN  ValuesOf(query, "info_hash") = {digest} /\ ValuesOf(query, "peer_id") = {PeerId}
<1> DEFINE u == Len(others)
           n == Len(digest)
           m == Len(PeerId)
           text == Appended(digest)
           query == (others \o Pairs) \o text
<1>1. /\ n \in Nat /\ m \in Nat /\ text \in Texts /\ Len(text) = n + m + 6
      /\ PeerId \in Seq(Bytes)
  BY AppendedAre, TrackerAssumption
<1>2. Parts(query, others, text)
  BY <1>1, QueryParts, Zenon DEF OtherPairs
<1>3. query \in Texts /\ u \in Nat /\ Len(query) = u + 19 + n + m + 6
  BY <1>1, <1>2 DEF Parts
<1> HIDE DEF query
<1>4. ASSUME NEW i \in 1 .. n + m + 6 PROVE query[u + 19 + i] = text[i]
  BY <1>1, <1>2, <1>4 DEF Parts
<1>5. ASSUME NEW name \in AppendedNames, NEW i \in 1 .. Len(query), query[i] = name
      PROVE  i - (u + 19) \in 1 .. n + m + 6 /\ text[i - (u + 19)] = name
  <2>1. CASE i <= u
    <3>1. i \in 1 .. u /\ others[i] = name
      <4>1. i \in 1 .. u
        BY <1>3, <1>5, <2>1
      <4> QED
        BY <1>2, <1>5, <4>1 DEF Parts
    <3>2. Lacks(others, name)
      BY <1>5 DEF OtherPairs, Names
    <3> QED
      BY <3>1, <3>2 DEF Lacks
  <2>2. CASE i > u /\ i <= u + 19
    <3>1. i - u \in 1 .. 19 /\ u + (i - u) = i
      <4>1. u \in Nat /\ i \in Int
        BY <1>3, <1>5
      <4> HIDE DEF u
      <4> QED
        BY <2>2, <4>1
    <3>2. Pairs[i - u] = name
      BY <1>2, <1>5, <3>1 DEF Parts
    <3> QED
      BY <1>5, <3>1, <3>2, PairsLack, PairsAre DEF Lacks
  <2>3. CASE i > u + 19
    <3>1. i - (u + 19) \in 1 .. n + m + 6 /\ u + 19 + (i - (u + 19)) = i
      BY <1>1, <1>3, <1>5, <2>3
    <3> QED
      BY <1>4, <1>5, <3>1
  <2> QED
    BY <1>3, <1>5, <2>1, <2>2, <2>3
<1> HIDE DEF text, u, n, m
<1>6. ValuesOf(query, "info_hash") = {digest}
  <2> DEFINE k == u + 21
             j == k + 2 + n
  <2>1. text[1] = "&" /\ text[2] = "info_hash" /\ text[3] = "=" /\ text[n + 4] = "&"
    BY AppendedAre DEF text, n
  <2>2. /\ k - 1 = u + 19 + 1 /\ k = u + 19 + 2 /\ k + 1 = u + 19 + 3 /\ j = u + 19 + (n + 4)
        /\ {1, 2, 3, n + 4} \subseteq 1 .. n + m + 6
        /\ k \in 1 .. Len(query) - 1 /\ j \in k + 2 .. Len(query) + 1
    BY <1>1, <1>3
  <2>3. query[k - 1] = "&" /\ query[k] = "info_hash" /\ query[k + 1] = "=" /\ query[j] = "&"
    BY <1>4, <2>1, <2>2
  <2>4. ASSUME NEW i \in 1 .. n PROVE query[k + 1 + i] = percent_encode(digest)[i]
    <3>1. k + 1 + i = u + 19 + (3 + i) /\ 3 + i \in 1 .. n + m + 6
      BY <1>1, <1>3
    <3>2. text[3 + i] = percent_encode(digest)[i]
      BY AppendedAre DEF text, n
    <3> QED
      BY <1>4, <3>1, <3>2
  <2>5. ASSUME NEW i \in k + 2 .. j - 1 PROVE query[i] # "&"
    <3>1. i - (k + 1) \in 1 .. n /\ k + 1 + (i - (k + 1)) = i
      BY <1>1, <1>3
    <3>2. query[i] = percent_encode(digest)[i - (k + 1)]
      BY <2>4, <3>1
    <3>3. Lacks(percent_encode(digest), "&") /\ Len(percent_encode(digest)) = n
      BY EncodingDecodes, Zenon DEF n
    <3> QED
      BY <3>1, <3>2, <3>3 DEF Lacks
  <2>6. ASSUME NEW i \in 1 .. Len(query), query[i] = "info_hash" PROVE i = k
    <3>1. i - (u + 19) \in 1 .. Len(text) /\ text[i - (u + 19)] = "info_hash"
      BY <1>1, <1>5, <2>6 DEF AppendedNames
    <3>2. i - (u + 19) = 2
      BY <3>1, AppendedNamesOnce, Zenon DEF text
    <3> QED
      BY <1>3, <3>2
  <2> HIDE DEF k
  <2>7. OnlyPair(query, "info_hash", k, j)
    BY <2>2, <2>3, <2>5, <2>6, Zenon DEF OnlyPair
  <2>8. EncodedPair(query, "info_hash", k, digest)
    BY <2>4, <2>7, Zenon DEF EncodedPair, n
  <2> QED
    BY <1>3, <2>8, EncodedIsRead, Zenon
<1>7. ValuesOf(query, "peer_id") = {PeerId}
  <2> DEFINE k == u + n + 24
             j == k + 2 + m
  <2>1. text[n + 4] = "&" /\ text[n + 5] = "peer_id" /\ text[n + 6] = "="
    BY AppendedAre DEF text, n
  <2>2. /\ k - 1 = u + 19 + (n + 4) /\ k = u + 19 + (n + 5) /\ k + 1 = u + 19 + (n + 6)
        /\ {n + 4, n + 5, n + 6} \subseteq 1 .. n + m + 6
        /\ k \in 1 .. Len(query) - 1 /\ j \in k + 2 .. Len(query) + 1 /\ j = Len(query) + 1
    BY <1>1, <1>3
  <2>3. query[k - 1] = "&" /\ query[k] = "peer_id" /\ query[k + 1] = "="
    BY <1>4, <2>1, <2>2
  <2>4. ASSUME NEW i \in 1 .. m PROVE query[k + 1 + i] = percent_encode(PeerId)[i]
    <3>1. k + 1 + i = u + 19 + (n + 6 + i) /\ n + 6 + i \in 1 .. n + m + 6
      BY <1>1, <1>3
    <3>2. text[n + 6 + i] = percent_encode(PeerId)[i]
      BY AppendedAre DEF text, n, m
    <3> QED
      BY <1>4, <3>1, <3>2
  <2>5. ASSUME NEW i \in k + 2 .. j - 1 PROVE query[i] # "&"
    <3>1. i - (k + 1) \in 1 .. m /\ k + 1 + (i - (k + 1)) = i
      BY <1>1, <1>3
    <3>2. query[i] = percent_encode(PeerId)[i - (k + 1)]
      BY <2>4, <3>1
    <3>3. Lacks(percent_encode(PeerId), "&") /\ Len(percent_encode(PeerId)) = m
      BY <1>1, EncodingDecodes, Zenon DEF m
    <3> QED
      BY <3>1, <3>2, <3>3 DEF Lacks
  <2>6. ASSUME NEW i \in 1 .. Len(query), query[i] = "peer_id" PROVE i = k
    <3>1. i - (u + 19) \in 1 .. Len(text) /\ text[i - (u + 19)] = "peer_id"
      BY <1>1, <1>5, <2>6 DEF AppendedNames
    <3>2. i - (u + 19) = n + 5
      BY <3>1, AppendedNamesOnce, Zenon DEF text, n
    <3> QED
      BY <1>1, <1>3, <3>2
  <2> HIDE DEF k
  <2>7. OnlyPair(query, "peer_id", k, j)
    BY <2>2, <2>3, <2>5, <2>6, Zenon DEF OnlyPair
  <2>8. EncodedPair(query, "peer_id", k, PeerId)
    BY <2>4, <2>7, Zenon DEF EncodedPair, m
  <2> QED
    BY <1>1, <1>3, <2>8, EncodedIsRead, Zenon
<1> QED
  BY <1>6, <1>7 DEF query, text

\* The announce URL of an accepted torrent is one that Url::parse takes.
LEMMA AcceptedAnnounce ==
    ASSUME Accepted
    PROVE  torrent.announce \in Urls
<1> DEFINE items == document.items
           text == items["announce"].text
           url == Then(String(items, "announce"), Check(text \in Urls, "InvalidAnnounceUrl"))
           keys == <<url, extract_announce_list(items),
                     extract_uint(items, "creation date", FALSE),
                     extract_string(items, "comment", FALSE),
                     extract_string(items, "created by", FALSE),
                     extract_string(items, "encoding", FALSE)>>
<1>1. \A e, f : Then(e, f) = "none" => e = "none" /\ f = "none"
  BY DEF Then
<1>2. extract(items, checks) = "none" /\ torrent.announce = text
  BY DEF Accepted, new, Torrent
<1>3. FirstError(keys) = "none"
  BY <1>1, <1>2, Zenon DEF extract
<1>4. DOMAIN keys = 1 .. 6 /\ keys[1] = url
  OBVIOUS
<1> HIDE DEF keys
<1>5. url = "none"
  <2>1. DOMAIN keys \subseteq Nat /\ 1 \in DOMAIN keys
    BY <1>4
  <2>2. keys[1] = "none"
    BY <1>3, <2>1, NoErrorAmong, Zenon
  <2> QED
    BY <1>4, <2>2
<1>6. Check(text \in Urls, "InvalidAnnounceUrl") = "none"
  BY <1>1, <1>5, Zenon
<1> QED
  BY <1>2, <1>6 DEF Check

\* The pairs at the end of the URL are pairs like any other, and no pairs at all are.
LEMMA LaterOnes ==
    ASSUME NEW bytes \in Seq(Bytes)
    PROVE  LaterPairs(<<>>) /\ LaterPairs(Appended(bytes))
<1>1. LaterPairs(<<>>)
  BY DEF LaterPairs, Lacks, Texts
<1>2. LaterPairs(Appended(bytes))
  BY AppendedAre, AppendedLacks DEF LaterPairs
<1> QED
  BY <1>1, <1>2

\* What a tracker reads in an announce URL.
LEMMA UrlIsRead ==
    ASSUME NEW announce \in Urls, NEW bytes \in Seq(Bytes)
    PROVE  LET query == Query(get_announce_url(announce, bytes))
           IN  /\ ValuesOf(query, "port") = {<<"12345">>}
               /\ ValuesOf(query, "left") = {<<"length">>}
               /\ \A name \in {"uploaded", "downloaded"} : ValuesOf(query, name) = {<<"0">>}
               /\ ValuesOf(query, "compact") = {<<"1">>}
               /\ IF "#" \in ToSet(Spelling[announce])
                  THEN \A name \in AppendedNames : ValuesOf(query, name) = {}
                  ELSE /\ ValuesOf(query, "info_hash") = {bytes}
                       /\ ValuesOf(query, "peer_id") = {PeerId}
<1> DEFINE query == Query(get_announce_url(announce, bytes))
           later == IF HasFragment(announce) THEN <<>> ELSE Appended(bytes)
<1>1. PICK others : OtherPairs(others) /\ query = (others \o Pairs) \o later
  BY QueryIs, Zenon
<1>2. LaterPairs(later)
  BY LaterOnes, Zenon
<1> HIDE DEF query
<1>3. ASSUME NEW a \in {1, 5, 9, 13, 17} PROVE ValuesOf(query, Pairs[a]) = {<<Pairs[a + 2]>>}
  <2> HIDE DEF later
  <2>1. ValuesOf((others \o Pairs) \o later, Pairs[a]) = {<<Pairs[a + 2]>>}
    <3>1. OtherPairs(others) /\ LaterPairs(later)
      BY <1>1, <1>2, Zenon
    <3> QED
      BY <3>1, PairIsRead
  <2> QED
    BY <1>1, <2>1, Zenon
<1>4. /\ Pairs[1] = "port" /\ Pairs[1 + 2] = "12345"
      /\ Pairs[5] = "uploaded" /\ Pairs[5 + 2] = "0"
      /\ Pairs[9] = "downloaded" /\ Pairs[9 + 2] = "0"
      /\ Pairs[13] = "compact" /\ Pairs[13 + 2] = "1"
      /\ Pairs[17] = "left" /\ Pairs[17 + 2] = "length"
  BY PairsAre
<1>5. CASE HasFragment(announce)
  <2>1. later = <<>>
    BY <1>5
  <2> HIDE DEF later
  <2>2. Parts(query, others, later)
    BY <1>1, <1>2, QueryParts, Zenon DEF OtherPairs, LaterPairs
  <2> DEFINE u == Len(others)
             n == Len(query)
  <2>3. /\ u \in Nat /\ n = u + 19
        /\ \A i \in 1 .. u : query[i] = others[i]
        /\ \A i \in 1 .. 19 : query[u + i] = Pairs[i]
    BY <2>1, <2>2 DEF Parts
  <2>4. ASSUME NEW name \in AppendedNames, NEW i \in 1 .. u PROVE others[i] # name
    BY <1>1 DEF OtherPairs, Names, Lacks
  <2> HIDE DEF u, n
  <2>5. ASSUME NEW name \in AppendedNames, NEW i \in 1 .. n PROVE query[i] # name
    <3>1. CASE i <= u
      <4>1. i \in 1 .. u
        BY <2>3, <2>5, <3>1
      <4> QED
        BY <2>3, <2>4, <2>5, <4>1
    <3>2. CASE i > u
      <4>1. i - u \in 1 .. 19 /\ u + (i - u) = i
        BY <2>3, <2>5, <3>2
      <4>2. Pairs[i - u] # name
        BY <2>5, <4>1, PairsLack, PairsAre DEF Lacks
      <4> QED
        BY <2>3, <4>1, <4>2
    <3> QED
      BY <2>3, <3>1, <3>2
  <2>6. ASSUME NEW name \in AppendedNames PROVE ValuesOf(query, name) = {}
    <3>1. \A k \in 1 .. n - 1 : k \in 1 .. n
      BY <2>3
    <3>2. \A k \in 1 .. n - 1 : query[k] # name
      BY <2>5, <2>6, <3>1, Zenon
    <3> QED
      BY <3>2, Zenon DEF ValuesOf, n
  <2> QED
    BY <1>3, <1>4, <1>5, <2>6 DEF HasFragment, query
<1>6. CASE ~ HasFragment(announce)
  <2>1. ValuesOf(query, "info_hash") = {bytes} /\ ValuesOf(query, "peer_id") = {PeerId}
    BY <1>1, <1>6, AppendedIsRead, Zenon
  <2> QED
    BY <1>3, <1>4, <1>6, <2>1 DEF HasFragment, query
<1> QED
  BY <1>5, <1>6

\* The request is made of a URL that Url::parse took, and of the hash.
RequestInv ==
    /\ at \in {"started", "parsed"} => request = <<>>
    /\ hash \in Hashes
    /\ \/ request = <<>>
       \/ torrent.announce \in Urls /\ request = get_announce_url(torrent.announce, hash)

\* The tracker reads the five values, the info hash and the peer id in the announce URL,
\* each once and byte for byte, for every announce URL, hash and peer id; where the
\* announce URL has a fragment, it sees neither hash nor peer id (file.rs:426-441).
THEOREM TrackerUnderstands == Spec => []AnnounceIsUnderstood
<1>1. Init => RequestInv
  BY DEF Init, RequestInv
<1>2. CInv /\ RequestInv /\ [Next]_vars => RequestInv'
  <2> SUFFICES ASSUME CInv, RequestInv, [Next]_vars PROVE RequestInv'
    OBVIOUS
  <2>1. ASSUME UNCHANGED <<inputs, torrent, request>>,
               at' \in {"started", "parsed"} => at \in {"started", "parsed"}
        PROVE  RequestInv'
    <3>1. UNCHANGED <<hash, torrent, request>>
      BY <2>1 DEF inputs
    <3> QED
      BY <2>1, <3>1 DEF RequestInv
  <2>2. CASE ReadFile
    <3>1. at = "started" /\ request' = request /\ inputs' = inputs
      BY <2>2, Zenon DEF ReadFile
    <3> QED
      BY <3>1 DEF RequestInv, inputs
  <2>3. CASE AskTracker
    <3>1. /\ at' = "asking" /\ torrent' = torrent /\ hash' = hash
          /\ request' = get_announce_url(torrent.announce, hash)
      BY <2>3 DEF AskTracker, inputs
    <3>2. torrent.announce \in Urls
      BY <2>3, AcceptedAnnounce DEF AskTracker, CInv
    <3> QED
      BY <3>1, <3>2 DEF RequestInv
  <2>4. CASE ReadFails \/ Inspect \/ StartDownload \/ NoTempDir
    BY <2>1, <2>4 DEF ReadFails, Inspect, StartDownload, NoTempDir, GoTo
  <2>5. ASSUME TrackerFails \/ \E value \in Answers : TrackerErrs(value) PROVE RequestInv'
    BY <2>1, <2>5 DEF TrackerFails, TrackerErrs, GoTo
  <2>6. ASSUME NEW offer \in Offers, NEW missing \in {0, 1}, TrackerAnswers(offer, missing)
        PROVE  RequestInv'
    <3>1. at' \in {"answered", "failed"} /\ UNCHANGED <<inputs, torrent, request>>
      BY <2>6, Zenon DEF TrackerAnswers
    <3> QED
      BY <2>1, <3>1
  <2>7. ASSUME DownloadEnds PROVE RequestInv'
    BY <2>1, <2>7 DEF DownloadEnds, Succeed, Fail, GoTo
  <2>8. ASSUME NEW k, FinishPiece(k) PROVE RequestInv'
    BY <2>1, <2>8 DEF FinishPiece
  <2>9. CASE UNCHANGED vars
    BY <2>1, <2>9 DEF vars
  <2> QED
    BY <2>2, <2>3, <2>4, <2>5, <2>6, <2>7, <2>8, <2>9 DEF Next, OwnStep, TrackerStep
<1>3. RequestInv => AnnounceIsUnderstood
  <2> SUFFICES ASSUME RequestInv, request # <<>> PROVE AnnounceIsUnderstood
    BY DEF AnnounceIsUnderstood
  <2> DEFINE announce == torrent.announce
  <2>1. announce \in Urls /\ hash \in Seq(Bytes) /\ request = get_announce_url(announce, hash)
    BY ClientAssumption DEF RequestInv
  <2> HIDE DEF announce
  <2> DEFINE query == Query(request)
  <2>2. /\ ValuesOf(query, "port") = {<<"12345">>}
        /\ ValuesOf(query, "left") = {<<"length">>}
        /\ \A name \in {"uploaded", "downloaded"} : ValuesOf(query, name) = {<<"0">>}
        /\ ValuesOf(query, "compact") = {<<"1">>}
        /\ IF "#" \in ToSet(Spelling[announce])
           THEN \A name \in AppendedNames : ValuesOf(query, name) = {}
           ELSE /\ ValuesOf(query, "info_hash") = {hash}
                /\ ValuesOf(query, "peer_id") = {PeerId}
    BY <2>1, UrlIsRead
  <2> QED
    BY <2>2 DEF AnnounceIsUnderstood, announce
<1> QED
  BY <1>1, <1>2, <1>3, Invariant, PTL DEF Spec
===============================================================================
