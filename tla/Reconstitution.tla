---------------------------- MODULE Reconstitution ----------------------------
(***************************************************************************)
(* reconstitute_files_from_torrent of src/util/io.rs: the piece files,     *)
(* chained into one stream, are cut into the torrent's files; then the     *)
(* piece files are removed and the MD5 sums checked.  The call runs in one *)
(* thread, but not alone: Downloader::save_piece flushes nothing, so tokio *)
(* may still be writing a piece file while the stream reads it.            *)
(*                                                                         *)
(* A byte is its place in the torrent, 1 for the first.  One step copies   *)
(* one byte, the finest way io::copy can be cut by a background write.     *)
(*                                                                         *)
(* Bounds: the sizes.                                                      *)
(***************************************************************************)
EXTENDS Integers, Sequences

CONSTANTS
    NumPieces,     \* num_pieces
    PieceLength,   \* num_bytes_per_piece; the last piece may be shorter
    Cuts,          \* where each file begins in the torrent, and where the last one ends
    Path,          \* the path of each file; entries of the metainfo may share one
    WithMd5,       \* the files with an md5sum
    DoubtfulMd5,   \* those of them whose md5sum in the metainfo may be wrong
    DiskFaults     \* TRUE when file operations may fail

NumFiles == Len(Cuts) - 1
Files == 1 .. NumFiles
Pieces == 1 .. NumPieces
Total == Cuts[NumFiles + 1]

\* What the length check of TorrentFile::extract leaves.  Without any piece the
\* call would panic at `first`.
ASSUME ReconstitutionAssumption ==
    /\ NumPieces \in Nat \ {0}
    /\ PieceLength \in Nat
    /\ Cuts \in Seq(Nat)
    /\ NumFiles \in Nat \ {0}
    /\ Cuts[1] = 0
    /\ \A i \in Files : Cuts[i] <= Cuts[i + 1]
    /\ (NumPieces - 1) * PieceLength < Total
    /\ Total <= NumPieces * PieceLength
    /\ WithMd5 \subseteq Files
    /\ DoubtfulMd5 \subseteq WithMd5
    /\ DiskFaults \in BOOLEAN

Paths == {Path[i] : i \in Files}
Absent == -1

PieceStart(k) == (k - 1) * PieceLength
PieceSize(k) == IF k < NumPieces THEN PieceLength ELSE Total - PieceStart(k)
Length(i) == Cuts[i + 1] - Cuts[i]

\* What file i should hold.
Content(i) == [m \in 1 .. Length(i) |-> Cuts[i] + m]

\* No later file has the path of file i and overwrites it.
LastOfPath(i) == \A j \in Files : i < j => Path[i] # Path[j]

VARIABLES
    at,         \* how far the call has got
    file,       \* the file it works on, `i` of the loops
    reader,     \* the chain of readers: the current piece file and the place in it
    out,        \* what has been written under each path
    visible,    \* how many bytes each piece file has, or Absent
    pending     \* the piece files tokio is still writing

vars == <<at, file, reader, out, visible, pending>>

\* The types; the reader is always within the chain of piece files.
TypeOK ==
    /\ at \in {"opening", "creating", "copying", "removing", "verifying",
               "ok", "CopyError", "FileSystemError", "Md5Mismatch"}
    /\ file \in 1 .. NumFiles + 1
    /\ reader \in [piece : Pieces, offset : Nat]
    /\ reader.offset <= PieceSize(reader.piece)
    /\ out \in [Paths -> Seq(1 .. Total)]
    /\ at = "copying" => file \in Files /\ Len(out[Path[file]]) <= Length(file)
    /\ visible \in [Pieces -> Absent .. PieceLength]
    /\ \A k \in Pieces : visible[k] <= PieceSize(k)
    /\ pending \subseteq {k \in Pieces : visible[k] \in 0 .. PieceSize(k) - 1}

\* What the tasks may leave: pieces that were never done have no file; a file has
\* all its bytes, or misses some, which may still come.
Init ==
    /\ at = "opening"
    /\ file = 1
    /\ reader = [piece |-> 1, offset |-> 0]
    /\ out = [p \in Paths |-> <<>>]
    /\ visible \in [Pieces -> Absent .. PieceLength]
    /\ \A k \in Pieces : visible[k] <= PieceSize(k)
    /\ LET short == {k \in Pieces : visible[k] \in 0 .. PieceSize(k) - 1}
       IN  IF DiskFaults THEN pending \in SUBSET short ELSE pending = short

-----------------------------------------------------------------------------
(* Seeded faults: each is a definition below with one plausible mistake.    *)

\* The file is copied one byte too long.
FullTooLate == Len(out[Path[file]]) = Length(file) + 1

\* The number of bytes copied is not looked at.
ShortCopyAccepted ==
    /\ at = "copying"
    /\ Len(out[Path[file]]) < Length(file)
    /\ reader.offset = visible[reader.piece]
    /\ reader.piece = NumPieces
    /\ at' = "creating"
    /\ file' = file + 1
    /\ UNCHANGED <<reader, out, visible, pending>>

\* Every file is cut from a stream of its own.
FinishAndRewind ==
    /\ at = "copying"
    /\ Len(out[Path[file]]) = Length(file)
    /\ at' = "creating"
    /\ file' = file + 1
    /\ reader' = [piece |-> 1, offset |-> 0]
    /\ UNCHANGED <<out, visible, pending>>

\* The offset goes on counting in the next piece file.
NextPieceKeepsOffset ==
    /\ at = "copying"
    /\ Len(out[Path[file]]) < Length(file)
    /\ reader.offset >= visible[reader.piece]
    /\ reader.piece < NumPieces
    /\ reader' = [reader EXCEPT !.piece = @ + 1]
    /\ UNCHANGED <<at, file, out, visible, pending>>

-----------------------------------------------------------------------------
(* The call.                                                                *)

\* open_pieces_stream opens every piece file before anything is read.
OpenPieces ==
    /\ at = "opening"
    /\ at' = IF \E k \in Pieces : visible[k] = Absent THEN "FileSystemError" ELSE "creating"
    /\ UNCHANGED <<file, reader, out, visible, pending>>

CreateFile ==
    /\ at = "creating"
    /\ file \in Files
    /\ at' = "copying"
    /\ out' = [out EXCEPT ![Path[file]] = <<>>]
    /\ UNCHANGED <<file, reader, visible, pending>>

Full == Len(out[Path[file]]) = Length(file)

CopyByte ==
    /\ at = "copying"
    /\ ~ Full
    /\ reader.offset < visible[reader.piece]
    /\ reader' = [reader EXCEPT !.offset = @ + 1]
    /\ out' = [out EXCEPT ![Path[file]] = Append(@, PieceStart(reader.piece) + reader.offset + 1)]
    /\ UNCHANGED <<at, file, visible, pending>>

\* At the end of a piece file, as it is now, the chain moves on for good.
NextPiece ==
    /\ at = "copying"
    /\ ~ Full
    /\ reader.offset = visible[reader.piece]
    /\ reader.piece < NumPieces
    /\ reader' = [piece |-> reader.piece + 1, offset |-> 0]
    /\ UNCHANGED <<at, file, out, visible, pending>>

CopyFallsShort ==
    /\ at = "copying"
    /\ ~ Full
    /\ reader.offset = visible[reader.piece]
    /\ reader.piece = NumPieces
    /\ at' = "CopyError"
    /\ UNCHANGED <<file, reader, out, visible, pending>>

\* num_copied is the length of the file: flushed, and logged as written.
FinishFile ==
    /\ at = "copying"
    /\ Full
    /\ at' = "creating"
    /\ file' = file + 1
    /\ UNCHANGED <<reader, out, visible, pending>>

FinishFiles ==
    /\ at = "creating"
    /\ file \notin Files
    /\ at' = "removing"
    /\ UNCHANGED <<file, reader, out, visible, pending>>

\* In order; a background write to a removed file is seen by nobody.
RemovePiece(k) ==
    /\ at = "removing"
    /\ visible[k] # Absent
    /\ \A j \in 1 .. k - 1 : visible[j] = Absent
    /\ visible' = [visible EXCEPT ![k] = Absent]
    /\ pending' = pending \ {k}
    /\ UNCHANGED <<at, file, reader, out>>

FinishRemoving ==
    /\ at = "removing"
    /\ \A k \in Pieces : visible[k] = Absent
    /\ at' = "verifying"
    /\ file' = 1
    /\ UNCHANGED <<reader, out, visible, pending>>

\* Digests are equal exactly when the bytes are.  Without an md5sum there is
\* nothing to check.
Md5Matches ==
    /\ at = "verifying"
    /\ file \in Files
    /\ file \in WithMd5 => out[Path[file]] = Content(file)
    /\ file' = file + 1
    /\ UNCHANGED <<at, reader, out, visible, pending>>

Md5Differs ==
    /\ at = "verifying"
    /\ file \in WithMd5
    /\ out[Path[file]] = Content(file) => file \in DoubtfulMd5
    /\ at' = "Md5Mismatch"
    /\ UNCHANGED <<file, reader, out, visible, pending>>

Succeed ==
    /\ at = "verifying"
    /\ file \notin Files
    /\ at' = "ok"
    /\ UNCHANGED <<file, reader, out, visible, pending>>

\* Any operation on a file may fail, and ends the call.
OperationFails ==
    /\ DiskFaults
    /\ at \in {"opening", "creating", "copying", "removing", "verifying"}
    /\ at' = "FileSystemError"
    /\ UNCHANGED <<file, reader, out, visible, pending>>

CallStep ==
    \/ OpenPieces \/ CreateFile \/ CopyByte \/ NextPiece \/ CopyFallsShort
    \/ FinishFile \/ FinishFiles \/ (\E k \in Pieces : RemovePiece(k))
    \/ FinishRemoving \/ Md5Matches \/ Md5Differs \/ Succeed

\* tokio's blocking pool, after save_piece has returned.  A piece longer than its
\* buffer arrives in several writes.
BackgroundWrite(k) ==
    /\ k \in pending
    /\ \E n \in visible[k] + 1 .. PieceSize(k) :
          /\ visible' = [visible EXCEPT ![k] = n]
          /\ pending' = IF n = PieceSize(k) THEN pending \ {k} ELSE pending
    /\ UNCHANGED <<at, file, reader, out>>

BackgroundWriteFails(k) ==
    /\ DiskFaults
    /\ k \in pending
    /\ pending' = pending \ {k}
    /\ UNCHANGED <<at, file, reader, out, visible>>

PoolStep == \E k \in Pieces : BackgroundWrite(k) \/ BackgroundWriteFails(k)

Next == CallStep \/ OperationFails \/ PoolStep

\* The call is one thread; nothing makes the disk fail.
Fairness == WF_vars(CallStep)

Spec == Init /\ [][Next]_vars
FairSpec == Spec /\ Fairness

-----------------------------------------------------------------------------
(* What must hold.                                                          *)

\* However late the writes of the piece files come, no success is reported, nor the
\* MD5 sums looked at, nor a piece file removed, unless every file has exactly its
\* bytes: a piece that was read short is missed at the end of the last file.  Only a
\* file whose path comes again is lost.  (That no piece file is removed earlier saves
\* none: the TempDir they are in goes with every return of TorrentFile::download.)
RemovedOnlyWhenExact ==
    at \in {"removing", "verifying", "Md5Mismatch", "ok"}
        => \A i \in Files : LastOfPath(i) => out[Path[i]] = Content(i)

\* The files share one stream: whatever was copied, short piece files or not, is
\* in the order of the torrent within a file, and no byte is in two files.
BytesInOrder ==
    \A p, q \in Paths : \A m \in DOMAIN out[p], n \in DOMAIN out[q] :
        /\ p = q /\ m < n => out[p][m] < out[q][n]
        /\ p # q => out[p][m] # out[q][n]

\* When every piece file is complete as the call begins, only the disk or a wrong
\* md5sum keeps it from succeeding.
WholePiecesSuffice ==
    at = "opening" /\ (\A k \in Pieces : visible[k] = PieceSize(k))
        ~> at \in {"ok", "FileSystemError"} \/ (at = "Md5Mismatch" /\ (file \in DoubtfulMd5 \/ ~ LastOfPath(file)))

-----------------------------------------------------------------------------
(* What a message says, and the steps do not do.                            *)

\* io.rs:115 logs "file {} ({}/{}) written to disk" for each file when its copy
\* is finished.
WrittenFileIsExact ==
    at \in {"creating", "copying"}
        => \A i \in Files : i < file /\ LastOfPath(i) => out[Path[i]] = Content(i)
===============================================================================
