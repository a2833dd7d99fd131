------------------------- MODULE ReconstitutionProofs -------------------------
(***************************************************************************)
(* Proofs about Reconstitution, for every number of pieces, every way the  *)
(* torrent is cut into files and every state the piece files are found in. *)
(* What was copied is compared with how far the reader has got: the reader *)
(* is never behind, and if it is not ahead nothing has been skipped.       *)
(***************************************************************************)
EXTENDS Reconstitution, TLAPS

\* The place of the reader in the torrent, had every piece file been whole.
Position == PieceStart(reader.piece) + reader.offset

\* How many bytes the files have been given.
Copied == Cuts[file] + (IF at = "copying" THEN Len(out[Path[file]]) ELSE 0)

Streaming == {"opening", "creating", "copying"}

\* The files that are finished, and the part of the one in hand, are exact.
ExactSoFar ==
    /\ \A i \in Files : i < file /\ LastOfPath(i) => out[Path[i]] = Content(i)
    /\ at = "copying"
         => \A m \in 1 .. Len(out[Path[file]]) : out[Path[file]][m] = Cuts[file] + m

StreamInv ==
    /\ \A p \in Paths : \A m \in DOMAIN out[p] : out[p][m] <= Position
    /\ at \in Streaming => Copied <= Position
    /\ at \in Streaming /\ Copied = Position => ExactSoFar

IInv == TypeOK /\ StreamInv /\ BytesInOrder /\ RemovedOnlyWhenExact

-----------------------------------------------------------------------------
(* The sizes.                                                               *)

\* Each piece ends where the next one begins, and the last one with the torrent.
LEMMA PieceEnds ==
    ASSUME NEW k \in Pieces
    PROVE  /\ PieceStart(k) \in Nat
           /\ PieceSize(k) \in 0 .. PieceLength
           /\ Total \in Nat
           /\ PieceStart(k) + PieceSize(k) <= Total
           /\ k < NumPieces => /\ k + 1 \in Pieces
                               /\ PieceStart(k + 1) = PieceStart(k) + PieceSize(k)
<1> USE ReconstitutionAssumption DEF Pieces, Files
<1>1. Total \in Nat
  BY DEF Total, NumFiles
<1>2. /\ PieceStart(k) \in Nat
      /\ PieceStart(k + 1) = PieceStart(k) + PieceLength
  BY DEF PieceStart
<1>3. CASE k = NumPieces
  BY <1>1, <1>2, <1>3 DEF PieceSize, PieceStart
<1>4. CASE k < NumPieces
  <2> DEFINE d == NumPieces - 1 - k
  <2>1. d \in Nat /\ NumPieces - 1 = k + d /\ k \in Nat /\ PieceLength \in Nat
    BY <1>4
  <2> HIDE DEF d
  <2>2. (k + d) * PieceLength = k * PieceLength + d * PieceLength
    BY <2>1
  <2>3. d * PieceLength \in Nat /\ k * PieceLength \in Nat
    BY <2>1
  <2>4. k * PieceLength < Total
    <3>1. (k + d) * PieceLength < Total
      BY <2>1
    <3> QED
      BY ONLY <1>1, <2>2, <2>3, <3>1
  <2>5. PieceStart(k + 1) = k * PieceLength
    BY <2>1 DEF PieceStart
  <2> QED
    BY <1>1, <1>2, <1>4, <2>1, <2>3, <2>4, <2>5 DEF PieceSize
<1> QED
  BY <1>3, <1>4

\* The reader never leaves the torrent.
LEMMA PositionInTorrent ==
    ASSUME TypeOK
    PROVE  Position \in Nat /\ Position <= Total /\ Total \in Nat
<1>1. reader.piece \in Pieces /\ reader.offset \in Nat
  BY DEF TypeOK
<1>2. PieceSize(reader.piece) \in Nat
  BY <1>1, PieceEnds
<1> QED
  BY <1>1, <1>2, PieceEnds DEF TypeOK, Position

\* Every file has a path, a place and a length.
LEMMA FilesOK ==
    ASSUME NEW i \in Files
    PROVE  /\ Path[i] \in Paths
           /\ Cuts[i] \in Nat
           /\ Cuts[i + 1] \in Nat
           /\ Length(i) \in Nat
           /\ Cuts[i + 1] = Cuts[i] + Length(i)
           /\ i + 1 \in 1 .. NumFiles + 1
<1>1. NumFiles \in Nat /\ i \in 1 .. NumFiles /\ Len(Cuts) = NumFiles + 1 /\ Cuts \in Seq(Nat)
  BY ReconstitutionAssumption DEF Files, NumFiles
<1>2. Cuts[i] \in Nat /\ Cuts[i + 1] \in Nat /\ Cuts[i] <= Cuts[i + 1]
  BY <1>1, ReconstitutionAssumption DEF Files
<1> QED
  BY <1>1, <1>2 DEF Paths, Length

\* What the definition of Seq says of one element.
LEMMA SeqElement ==
    ASSUME NEW S, NEW s \in Seq(S), NEW m \in DOMAIN s
    PROVE  s[m] \in S /\ m \in Nat
<1>1. s \in [1 .. Len(s) -> S] /\ Len(s) \in Nat
  OBVIOUS
<1> QED
  BY <1>1

-----------------------------------------------------------------------------
(* The steps.                                                               *)

\* What CopyByte adds to a file.
LEMMA CopyAppends ==
    ASSUME TypeOK, CopyByte
    PROVE  /\ file \in Files
           /\ out[Path[file]] \in Seq(1 .. Total)
           /\ Position' = Position + 1
           /\ Position + 1 \in 1 .. Total
           /\ out' = [out EXCEPT ![Path[file]] = Append(@, Position + 1)]
           /\ reader.offset + 1 <= PieceSize(reader.piece)
<1>1. file \in Files /\ reader.piece \in Pieces /\ reader.offset \in Nat
  BY DEF TypeOK, CopyByte
<1>2. reader.offset + 1 <= PieceSize(reader.piece)
  <2>1. visible[reader.piece] \in Absent .. PieceLength
    BY <1>1 DEF TypeOK
  <2>2. visible[reader.piece] <= PieceSize(reader.piece) /\ PieceSize(reader.piece) \in Nat
    BY <1>1, PieceEnds DEF TypeOK
  <2>3. reader.offset < visible[reader.piece] /\ visible[reader.piece] \in Int
    BY <2>1, ReconstitutionAssumption DEF CopyByte, Absent
  <2> QED
    BY <1>1, <2>2, <2>3
<1>3. reader' = [reader EXCEPT !.offset = @ + 1]
  BY DEF CopyByte
<1>4. Position' = Position + 1
  BY <1>1, <1>3, PieceEnds DEF Position, TypeOK
<1>5. Position + 1 \in 1 .. Total
  BY <1>1, <1>2, PieceEnds DEF Position
<1>6. out' = [out EXCEPT ![Path[file]] = Append(@, Position + 1)]
  BY DEF CopyByte, Position
<1> QED
  BY <1>1, <1>2, <1>4, <1>5, <1>6, FilesOK DEF TypeOK

\* Every step keeps every variable's type.
LEMMA TypeStep ==
    ASSUME TypeOK, [Next]_vars
    PROVE  TypeOK'
<1> USE DEF TypeOK, vars
<1>1. CASE UNCHANGED vars
  BY <1>1
<1>2. CASE OpenPieces \/ CopyFallsShort \/ OperationFails \/ Md5Differs \/ Succeed
  BY <1>2 DEF OpenPieces, CopyFallsShort, OperationFails, Md5Differs, Succeed
<1>3. CASE CreateFile
  <2>1. file \in Files /\ Path[file] \in Paths /\ Length(file) \in Nat
    BY <1>3, FilesOK DEF CreateFile
  <2>2. <<>> \in Seq(1 .. Total) /\ Len(<<>>) = 0
    OBVIOUS
  <2>3. out' = [out EXCEPT ![Path[file]] = <<>>]
    BY <1>3 DEF CreateFile
  <2>4. out' \in [Paths -> Seq(1 .. Total)] /\ out'[Path[file]] = <<>>
    BY <2>1, <2>2, <2>3
  <2> QED
    BY <1>3, <2>1, <2>2, <2>4 DEF CreateFile
<1>4. CASE CopyByte
  <2>1. /\ file \in Files
        /\ out[Path[file]] \in Seq(1 .. Total)
        /\ Position + 1 \in 1 .. Total
        /\ out' = [out EXCEPT ![Path[file]] = Append(@, Position + 1)]
        /\ reader.offset + 1 <= PieceSize(reader.piece)
    BY <1>4, CopyAppends
  <2>2. Path[file] \in Paths /\ Length(file) \in Nat
    BY <2>1, FilesOK
  <2>3. /\ Append(out[Path[file]], Position + 1) \in Seq(1 .. Total)
        /\ Len(Append(out[Path[file]], Position + 1)) = Len(out[Path[file]]) + 1
        /\ Len(out[Path[file]]) \in Nat
    BY <2>1
  <2>4. out' \in [Paths -> Seq(1 .. Total)]
    BY <2>1, <2>2, <2>3
  <2>5. out'[Path[file]] = Append(out[Path[file]], Position + 1)
    BY <2>1, <2>2
  <2>6. Len(out'[Path[file]]) <= Length(file)
    BY <1>4, <2>2, <2>3, <2>5 DEF CopyByte, Full
  <2>7. /\ reader' \in [piece : Pieces, offset : Nat]
        /\ reader'.offset <= PieceSize(reader'.piece)
    <3>1. reader' = [reader EXCEPT !.offset = reader.offset + 1]
      BY <1>4 DEF CopyByte
    <3>2. reader'.piece = reader.piece /\ reader'.offset = reader.offset + 1
      BY <3>1
    <3>3. reader \in [piece : Pieces, offset : Nat] /\ reader.offset + 1 \in Nat
      OBVIOUS
    <3>4. reader' \in [piece : Pieces, offset : Nat]
      BY <3>1, <3>3
    <3>5. reader'.offset <= PieceSize(reader'.piece)
      BY <2>1, <3>2, Zenon
    <3> QED
      BY <3>4, <3>5
  <2> QED
    BY <1>4, <2>1, <2>4, <2>6, <2>7 DEF CopyByte
<1>5. CASE NextPiece
  <2>1. reader.piece + 1 \in Pieces
    BY <1>5, PieceEnds DEF NextPiece
  <2>2. PieceSize(reader.piece + 1) \in Nat /\ 0 <= PieceSize(reader.piece + 1)
    BY <2>1, PieceEnds
  <2> QED
    BY <1>5, <2>1, <2>2 DEF NextPiece
<1>6. CASE FinishFile
  <2>1. file \in Files
    BY <1>6 DEF FinishFile
  <2> QED
    BY <1>6, <2>1, FilesOK DEF FinishFile
<1>7. CASE FinishFiles \/ FinishRemoving
  <2>1. 1 \in 1 .. NumFiles + 1
    BY ReconstitutionAssumption
  <2> QED
    BY <1>7, <2>1 DEF FinishFiles, FinishRemoving
<1>8. CASE Md5Matches
  <2>1. file \in Files
    BY <1>8 DEF Md5Matches
  <2> QED
    BY <1>8, <2>1, FilesOK DEF Md5Matches
<1>9. ASSUME NEW k \in Pieces, RemovePiece(k) PROVE TypeOK'
  <2>1. PieceSize(k) \in Nat /\ PieceLength \in Nat /\ Absent \in Absent .. PieceLength
    BY PieceEnds, ReconstitutionAssumption DEF Absent
  <2> QED
    BY <1>9, <2>1 DEF RemovePiece, Absent
<1>10. ASSUME NEW k \in Pieces, BackgroundWrite(k) PROVE TypeOK'
  <2>1. PieceSize(k) \in 0 .. PieceLength /\ PieceLength \in Nat
    BY PieceEnds, ReconstitutionAssumption
  <2>2. visible[k] \in 0 .. PieceSize(k) - 1
    BY <1>10 DEF BackgroundWrite
  <2>3. PICK n \in visible[k] + 1 .. PieceSize(k) :
           /\ visible' = [visible EXCEPT ![k] = n]
           /\ pending' = IF n = PieceSize(k) THEN pending \ {k} ELSE pending
    BY <1>10 DEF BackgroundWrite
  <2>4. n \in 0 .. PieceLength /\ n \in Absent .. PieceLength /\ n <= PieceSize(k)
    BY <2>1, <2>2, <2>3 DEF Absent
  <2>5. n # PieceSize(k) => n \in 0 .. PieceSize(k) - 1
    BY <2>1, <2>4
  <2> QED
    BY <1>10, <2>3, <2>4, <2>5 DEF BackgroundWrite
<1>11. ASSUME NEW k \in Pieces, BackgroundWriteFails(k) PROVE TypeOK'
  BY <1>11 DEF BackgroundWriteFails
<1> QED
  BY <1>1, <1>2, <1>3, <1>4, <1>5, <1>6, <1>7, <1>8, <1>9, <1>10, <1>11
     DEF Next, CallStep, PoolStep

\* Steps that read and write nothing: those of the call that are not in
\* StreamStep's cases, of the disk and of the pool.
LEMMA QuietSteps ==
    ASSUME TypeOK, [Next]_vars,
           ~ CreateFile, ~ CopyByte, ~ NextPiece, ~ FinishFile
    PROVE  /\ UNCHANGED <<reader, out>>
           /\ at' \in Streaming
                => /\ at \in Streaming
                   /\ UNCHANGED file
                   /\ at' = "copying" <=> at = "copying"
<1> USE DEF Streaming
<1>1. CASE UNCHANGED vars
  BY <1>1 DEF vars
<1>2. CASE CallStep
  BY <1>2 DEF CallStep, OpenPieces, CopyFallsShort, FinishFiles, RemovePiece, FinishRemoving,
              Md5Matches, Md5Differs, Succeed
<1>3. CASE OperationFails
  BY <1>3 DEF OperationFails
<1>4. CASE PoolStep
  BY <1>4 DEF PoolStep, BackgroundWrite, BackgroundWriteFails
<1> QED
  BY <1>1, <1>2, <1>3, <1>4 DEF Next

\* The reader is never behind what was copied, and when it is not ahead
\* everything copied is exact.
LEMMA StreamStep ==
    ASSUME TypeOK, StreamInv, [Next]_vars
    PROVE  StreamInv'
<1>1. CASE CreateFile
  <2>1. file \in Files /\ Path[file] \in Paths
    BY <1>1, FilesOK DEF CreateFile
  <2>2. /\ out' = [out EXCEPT ![Path[file]] = <<>>]
        /\ at = "creating" /\ at' = "copying" /\ UNCHANGED <<file, reader>>
    BY <1>1 DEF CreateFile
  <2>3. out'[Path[file]] = <<>> /\ \A p \in Paths : p # Path[file] => out'[p] = out[p]
    BY <2>1, <2>2 DEF TypeOK
  <2>4. Position' = Position /\ Copied' = Copied
    BY <2>1, <2>2, <2>3, FilesOK DEF Position, Copied
  <2>5. ASSUME ExactSoFar PROVE ExactSoFar'
    <3>1. ASSUME NEW i \in Files, i < file, LastOfPath(i)
          PROVE  out'[Path[i]] = Content(i)
      <4>1. Path[i] # Path[file] /\ Path[i] \in Paths
        BY <2>1, <3>1, FilesOK DEF LastOfPath
      <4> QED
        BY <2>3, <2>5, <3>1, <4>1 DEF ExactSoFar
    <3>2. Len(out'[Path[file]]) = 0
      BY <2>3
    <3> QED
      BY <2>2, <3>1, <3>2 DEF ExactSoFar
  <2>6. \A p \in Paths : \A m \in DOMAIN out'[p] : out'[p][m] <= Position
    BY <2>3 DEF StreamInv
  <2> QED
    BY <2>2, <2>4, <2>5, <2>6 DEF StreamInv, Streaming
<1>2. CASE CopyByte
  <2> DEFINE s == out[Path[file]]
  <2>1. /\ file \in Files
        /\ s \in Seq(1 .. Total)
        /\ Position' = Position + 1
        /\ out' = [out EXCEPT ![Path[file]] = Append(s, Position + 1)]
    BY <1>2, CopyAppends
  <2>2. Path[file] \in Paths /\ Cuts[file] \in Nat /\ Position \in Nat
    BY <2>1, FilesOK, PositionInTorrent
  <2>3. at = "copying" /\ at' = "copying" /\ UNCHANGED file
    BY <1>2 DEF CopyByte
  <2>4. /\ out'[Path[file]] = Append(s, Position + 1)
        /\ \A p \in Paths : p # Path[file] => out'[p] = out[p]
    BY <2>1, <2>2 DEF TypeOK
  <2> HIDE DEF s
  <2>5. /\ Len(s) \in Nat
        /\ Len(Append(s, Position + 1)) = Len(s) + 1
        /\ \A m \in 1 .. Len(s) : Append(s, Position + 1)[m] = s[m]
        /\ Append(s, Position + 1)[Len(s) + 1] = Position + 1
        /\ DOMAIN s = 1 .. Len(s)
        /\ DOMAIN Append(s, Position + 1) = 1 .. Len(s) + 1
    BY <2>1
  <2>6. Copied = Cuts[file] + Len(s) /\ Copied' = Copied + 1
    <3>1. Copied = Cuts[file] + Len(s)
      BY <2>3 DEF Copied, s
    <3>2. Copied' = Cuts[file] + (Len(s) + 1)
      BY <2>3, <2>4, <2>5 DEF Copied
    <3> QED
      BY <2>2, <2>5, <3>1, <3>2
  <2>7. \A p \in Paths : \A m \in DOMAIN out'[p] : out'[p][m] <= Position'
    <3>1. ASSUME NEW m \in 1 .. Len(s) PROVE s[m] <= Position + 1
      <4>1. s[m] \in 1 .. Total /\ Total \in Nat
        BY <2>1, <2>5, <3>1, PositionInTorrent
      <4>2. s[m] <= Position
        BY <2>2, <2>5, <3>1 DEF StreamInv, s
      <4> QED
        BY <2>2, <4>1, <4>2
    <3>2. ASSUME NEW p \in Paths, p # Path[file], NEW m \in DOMAIN out[p]
          PROVE  out[p][m] <= Position + 1
      <4>1. out[p][m] \in 1 .. Total /\ out[p][m] <= Position /\ Total \in Nat
        BY <3>2, PositionInTorrent DEF StreamInv, TypeOK
      <4> QED
        BY <2>2, <4>1
    <3>3. ASSUME NEW m \in DOMAIN out'[Path[file]] PROVE out'[Path[file]][m] <= Position + 1
      <4>1. CASE m = Len(s) + 1
        BY <2>2, <2>4, <2>5, <4>1
      <4>2. CASE m \in 1 .. Len(s)
        BY <2>4, <2>5, <3>1, <4>2
      <4> QED
        BY <2>4, <2>5, <3>3, <4>1, <4>2
    <3> QED
      BY <2>1, <2>4, <3>2, <3>3
  <2>8. ASSUME Copied = Position, ExactSoFar PROVE ExactSoFar'
    <3>1. ASSUME NEW i \in Files, i < file, LastOfPath(i)
          PROVE  out'[Path[i]] = Content(i)
      <4>1. Path[i] # Path[file] /\ Path[i] \in Paths
        BY <2>1, <3>1, FilesOK DEF LastOfPath
      <4> QED
        BY <2>4, <2>8, <3>1, <4>1 DEF ExactSoFar
    <3>2. ASSUME NEW m \in 1 .. Len(s) + 1
          PROVE  Append(s, Position + 1)[m] = Cuts[file] + m
      <4>1. CASE m = Len(s) + 1
        BY <2>2, <2>5, <2>6, <2>8, <4>1
      <4>2. CASE m \in 1 .. Len(s)
        BY <2>3, <2>5, <2>8, <4>2 DEF ExactSoFar, s
      <4> QED
        BY <2>5, <4>1, <4>2
    <3> QED
      BY <2>3, <2>4, <2>5, <3>1, <3>2 DEF ExactSoFar
  <2>9. Copied \in Nat
    BY <2>2, <2>5, <2>6
  <2> QED
    BY <2>1, <2>2, <2>3, <2>6, <2>7, <2>8, <2>9 DEF StreamInv, Streaming
<1>3. CASE NextPiece
  <2>1. /\ reader' = [piece |-> reader.piece + 1, offset |-> 0]
        /\ at = "copying" /\ UNCHANGED <<at, file, out>>
        /\ reader.piece \in Pieces /\ reader.piece < NumPieces
        /\ reader.offset \in Nat /\ reader.offset <= PieceSize(reader.piece)
    BY <1>3 DEF NextPiece, TypeOK
  <2>2. Position \in Nat /\ Position' \in Nat /\ Position <= Position'
    BY <2>1, PieceEnds, PositionInTorrent DEF Position
  <2>3. Copied' = Copied /\ ExactSoFar' = ExactSoFar /\ Copied \in Nat
    <3>1. file \in Files
      BY <2>1 DEF TypeOK
    <3>2. Cuts[file] \in Nat /\ Len(out[Path[file]]) \in Nat
      BY <3>1, FilesOK DEF TypeOK
    <3> QED
      BY <2>1, <3>2 DEF Copied, ExactSoFar
  <2>4. \A p \in Paths : \A m \in DOMAIN out'[p] : out'[p][m] <= Position'
    <3>1. ASSUME NEW p \in Paths, NEW m \in DOMAIN out[p] PROVE out[p][m] <= Position'
      <4>1. out[p][m] \in 1 .. Total /\ out[p][m] <= Position /\ Total \in Nat
        BY PositionInTorrent DEF StreamInv, TypeOK
      <4> QED
        BY <2>2, <4>1
    <3> QED
      BY <2>1, <3>1
  <2> QED
    BY <2>1, <2>2, <2>3, <2>4 DEF StreamInv, Streaming
<1>4. CASE FinishFile
  <2>1. /\ at = "copying" /\ at' = "creating" /\ file' = file + 1
        /\ UNCHANGED <<reader, out>>
        /\ file \in Files /\ Len(out[Path[file]]) = Length(file)
    BY <1>4 DEF FinishFile, Full, TypeOK
  <2>2. Position' = Position /\ Copied' = Copied
    BY <2>1, FilesOK DEF Position, Copied
  <2>3. ASSUME ExactSoFar PROVE ExactSoFar'
    <3>1. out[Path[file]] = Content(file)
      <4>1. out[Path[file]] \in Seq(1 .. Total)
        BY <2>1, FilesOK DEF TypeOK
      <4>2. Length(file) \in Nat
        BY <2>1, FilesOK
      <4>3. \A m \in 1 .. Length(file) : out[Path[file]][m] = Cuts[file] + m
        BY <2>1, <2>3 DEF ExactSoFar
      <4> QED
        BY <2>1, <4>1, <4>2, <4>3 DEF Content
    <3>2. ASSUME NEW i \in Files, i < file' PROVE i < file \/ i = file
      BY <2>1, <3>2 DEF Files
    <3> QED
      BY <2>1, <2>3, <3>1, <3>2 DEF ExactSoFar
  <2> QED
    BY <2>1, <2>2, <2>3 DEF StreamInv, Streaming
<1>5. CASE ~ CreateFile /\ ~ CopyByte /\ ~ NextPiece /\ ~ FinishFile
  <2>1. /\ UNCHANGED <<reader, out>>
        /\ at' \in Streaming
             => at \in Streaming /\ UNCHANGED file /\ (at' = "copying" <=> at = "copying")
    BY <1>5, QuietSteps
  <2>2. Position' = Position
    BY <2>1 DEF Position
  <2>3. at' \in Streaming => Copied' = Copied /\ ExactSoFar' = ExactSoFar
    BY <2>1 DEF Copied, ExactSoFar
  <2> QED
    BY <2>1, <2>2, <2>3 DEF StreamInv
<1> QED
  BY <1>1, <1>2, <1>3, <1>4, <1>5

\* A copied byte is one further than any byte copied before.
LEMMA OrderStep ==
    ASSUME TypeOK, StreamInv, BytesInOrder, [Next]_vars
    PROVE  BytesInOrder'
<1>1. CASE UNCHANGED out
  BY <1>1 DEF BytesInOrder
<1>2. CASE CreateFile
  <2>1. file \in Files /\ Path[file] \in Paths
    BY <1>2, FilesOK DEF CreateFile
  <2>2. out' = [out EXCEPT ![Path[file]] = <<>>]
    BY <1>2 DEF CreateFile
  <2>3. out'[Path[file]] = <<>> /\ \A p \in Paths : p # Path[file] => out'[p] = out[p]
    BY <2>1, <2>2 DEF TypeOK
  <2>4. DOMAIN <<>> = {}
    OBVIOUS
  <2>5. \A p \in Paths : DOMAIN out'[p] # {} => out'[p] = out[p]
    BY <2>3, <2>4
  <2> QED
    BY <2>5 DEF BytesInOrder
<1>3. CASE CopyByte
  <2> DEFINE s == out[Path[file]]
  <2>1. /\ file \in Files
        /\ s \in Seq(1 .. Total)
        /\ out' = [out EXCEPT ![Path[file]] = Append(s, Position + 1)]
    BY <1>3, CopyAppends
  <2>2. Path[file] \in Paths /\ Position \in Nat /\ Total \in Nat
    BY <2>1, FilesOK, PositionInTorrent
  <2>3. /\ out'[Path[file]] = Append(s, Position + 1)
        /\ \A p \in Paths : p # Path[file] => out'[p] = out[p]
    BY <2>1, <2>2 DEF TypeOK
  <2>4. \A p \in Paths : \A m \in DOMAIN out[p] :
            out[p][m] \in Nat /\ out[p][m] < Position + 1 /\ m \in Nat
    <3>1. ASSUME NEW p \in Paths, NEW m \in DOMAIN out[p]
          PROVE  out[p][m] \in Nat /\ out[p][m] < Position + 1 /\ m \in Nat
      <4>1. out[p] \in Seq(1 .. Total)
        BY DEF TypeOK
      <4>2. out[p][m] \in 1 .. Total /\ m \in Nat
        BY <4>1, SeqElement
      <4>3. out[p][m] <= Position
        BY <3>1 DEF StreamInv
      <4> QED
        BY <2>2, <4>2, <4>3
    <3> QED
      BY <3>1
  <2> DEFINE fresh(p, m) == p = Path[file] /\ m = Len(s) + 1
  <2>5. /\ Len(s) \in Nat
        /\ out'[Path[file]][Len(s) + 1] = Position + 1
        /\ \A m \in DOMAIN out'[Path[file]] :
              m = Len(s) + 1 \/ (m \in DOMAIN s /\ m < Len(s) + 1 /\ out'[Path[file]][m] = s[m])
    BY <2>1, <2>2, <2>3
  <2>6. ASSUME NEW p \in Paths, NEW m \in DOMAIN out'[p]
        PROVE  \/ fresh(p, m) /\ out'[p][m] = Position + 1
               \/ m \in DOMAIN out[p] /\ out'[p][m] = out[p][m] /\ ~ fresh(p, m)
    <3>1. CASE p = Path[file]
      BY <2>4, <2>5, <2>6, <3>1
    <3>2. CASE p # Path[file]
      BY <2>3, <2>6, <3>2
    <3> QED
      BY <3>1, <3>2
  <2>7. ASSUME NEW p \in Paths, NEW q \in Paths,
               NEW m \in DOMAIN out'[p], NEW n \in DOMAIN out'[q]
        PROVE  /\ p = q /\ m < n => out'[p][m] < out'[q][n]
               /\ p # q => out'[p][m] # out'[q][n]
    <3>1. CASE fresh(p, m) /\ fresh(q, n)
      BY <2>5, <3>1
    <3>2. CASE fresh(p, m) /\ ~ fresh(q, n)
      <4>1. out'[p][m] = Position + 1 /\ n \in DOMAIN out[q] /\ out'[q][n] = out[q][n]
        BY <2>6, <2>7, <3>2
      <4>2. out[q][n] \in Nat /\ out[q][n] < Position + 1 /\ n \in Nat
        BY <2>4, <4>1
      <4>3. p = q => n < m
        BY <2>5, <2>7, <3>2
      <4> QED
        BY <2>2, <2>5, <3>2, <4>1, <4>2, <4>3
    <3>3. CASE ~ fresh(p, m) /\ fresh(q, n)
      <4>1. out'[q][n] = Position + 1 /\ m \in DOMAIN out[p] /\ out'[p][m] = out[p][m]
        BY <2>6, <2>7, <3>3
      <4>2. out[p][m] \in Nat /\ out[p][m] < Position + 1
        BY <2>4, <4>1
      <4> QED
        BY <2>2, <4>1, <4>2
    <3>4. CASE ~ fresh(p, m) /\ ~ fresh(q, n)
      <4>1. /\ m \in DOMAIN out[p] /\ out'[p][m] = out[p][m]
            /\ n \in DOMAIN out[q] /\ out'[q][n] = out[q][n]
        BY <2>6, <2>7, <3>4
      <4> QED
        BY <4>1 DEF BytesInOrder
    <3> QED
      BY <3>1, <3>2, <3>3, <3>4
  <2> QED
    BY <2>7 DEF BytesInOrder
<1>4. CASE NextPiece \/ FinishFile
  BY <1>1, <1>4 DEF NextPiece, FinishFile
<1> QED
  BY <1>1, <1>2, <1>3, <1>4, QuietSteps

\* When the last file is finished the reader has nowhere to be ahead of it.
LEMMA ExactStep ==
    ASSUME IInv, [Next]_vars
    PROVE  RemovedOnlyWhenExact'
<1> USE DEF IInv
<1> DEFINE Final == {"removing", "verifying", "Md5Mismatch", "ok"}
<1>1. ASSUME at \in Final, UNCHANGED out PROVE RemovedOnlyWhenExact'
  BY <1>1 DEF RemovedOnlyWhenExact
<1>2. CASE FinishFiles
  <2>1. at = "creating" /\ file = NumFiles + 1 /\ UNCHANGED out
    <3>1. file \in 1 .. NumFiles + 1 /\ file \notin 1 .. NumFiles /\ NumFiles \in Nat
      BY <1>2, ReconstitutionAssumption DEF FinishFiles, TypeOK, Files
    <3>2. file = NumFiles + 1
      BY <3>1
    <3> QED
      BY <1>2, <3>2 DEF FinishFiles
  <2>2. Copied = Total
    <3>1. Total \in Nat
      BY PositionInTorrent
    <3> QED
      BY <2>1, <3>1 DEF Copied, Total
  <2>3. Copied = Position
    BY <2>1, <2>2, PositionInTorrent DEF StreamInv, Streaming
  <2>4. \A i \in Files : i < file
    BY <2>1, ReconstitutionAssumption DEF Files
  <2> QED
    BY <2>1, <2>3, <2>4 DEF StreamInv, Streaming, ExactSoFar, RemovedOnlyWhenExact
<1>3. CASE UNCHANGED vars
  BY <1>3 DEF vars, RemovedOnlyWhenExact
<1>4. CASE CallStep /\ ~ FinishFiles
  <2>1. at' \in Final => at \in Final /\ UNCHANGED out
    BY <1>4 DEF CallStep, OpenPieces, CreateFile, CopyByte, NextPiece, CopyFallsShort, FinishFile,
                RemovePiece, FinishRemoving, Md5Matches, Md5Differs, Succeed
  <2> QED
    BY <1>1, <2>1 DEF RemovedOnlyWhenExact
<1>5. CASE OperationFails \/ PoolStep
  <2>1. at' \in Final => at \in Final /\ UNCHANGED out
    BY <1>5 DEF OperationFails, PoolStep, BackgroundWrite, BackgroundWriteFails
  <2> QED
    BY <1>1, <2>1 DEF RemovedOnlyWhenExact
<1> QED
  BY <1>2, <1>3, <1>4, <1>5 DEF Next

-----------------------------------------------------------------------------
(* The theorems.                                                            *)

\* In every initial state nothing has been copied.
LEMMA InitInvariant == Init => IInv
<1> SUFFICES ASSUME Init PROVE IInv
  OBVIOUS
<1>1. 1 \in Pieces /\ 1 \in Files /\ NumFiles \in Nat
  BY ReconstitutionAssumption DEF Pieces, Files
<1>2. PieceStart(1) = 0 /\ PieceSize(1) \in Nat
  BY <1>1, PieceEnds, ReconstitutionAssumption DEF PieceStart
<1>3. \A p \in Paths : out[p] = <<>> /\ DOMAIN out[p] = {}
  BY DEF Init
<1>4. TypeOK
  <2>1. <<>> \in Seq(1 .. Total)
    OBVIOUS
  <2>2. out \in [Paths -> Seq(1 .. Total)]
    BY <2>1 DEF Init
  <2> QED
    BY <1>1, <1>2, <2>2 DEF Init, TypeOK
<1>5. Position = 0 /\ Copied = 0
  <2>1. Cuts[1] = 0
    BY ReconstitutionAssumption
  <2> QED
    BY <1>2, <2>1 DEF Init, Position, Copied
<1>6. ExactSoFar
  <2>1. \A i \in Files : ~ (i < 1)
    BY <1>1 DEF Files
  <2> QED
    BY <2>1 DEF Init, ExactSoFar
<1>7. StreamInv
  BY <1>3, <1>5, <1>6 DEF StreamInv
<1>8. BytesInOrder
  BY <1>3 DEF BytesInOrder
<1>9. RemovedOnlyWhenExact
  BY DEF Init, RemovedOnlyWhenExact
<1> QED
  BY <1>4, <1>7, <1>8, <1>9 DEF IInv

\* The inductive invariant holds in every state of reconstitute_files_from_torrent.
THEOREM Invariance == Spec => []IInv
<1>1. IInv /\ [Next]_vars => IInv'
  <2> SUFFICES ASSUME IInv, [Next]_vars PROVE IInv'
    OBVIOUS
  <2> QED
    BY TypeStep, StreamStep, OrderStep, ExactStep DEF IInv
<1> QED
  BY <1>1, InitInvariant, PTL DEF Spec

\* Every variable keeps its type, and the reader stays within the piece files.
THEOREM TypeCorrect == Spec => []TypeOK
<1>1. IInv => TypeOK
  BY DEF IInv
<1> QED
  BY <1>1, Invariance, PTL

\* remove_file is reached, and success reported, only with every file exact.
THEOREM PiecesAreGivenUpForExactFiles == Spec => []RemovedOnlyWhenExact
<1>1. IInv => RemovedOnlyWhenExact
  BY DEF IInv
<1> QED
  BY <1>1, Invariance, PTL

\* io::copy never copies a byte twice and never goes back.
THEOREM CopiedInOrder == Spec => []BytesInOrder
<1>1. IInv => BytesInOrder
  BY DEF IInv
<1> QED
  BY <1>1, Invariance, PTL
===============================================================================
