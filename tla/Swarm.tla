-------------------------------- MODULE Swarm --------------------------------
(***************************************************************************)
(* The collaborative download of src/peer.rs and src/peer/downloader.rs:   *)
(* `download` spawns one tokio task per peer address, the tasks share the  *)
(* queue `todo` and the bitfield `done` behind one tokio Mutex, and the    *)
(* caller joins every task before it builds the files from the piece       *)
(* files.  A task is modelled from one await point to the next; what       *)
(* happens while it holds the Mutex is one action, because no critical     *)
(* section of the code awaits anything.  The messages of one connection    *)
(* are the subject of module Downloader; here a transfer simply ends.      *)
(*                                                                         *)
(* Bounds: NumPieces and Peers.  Of the background writes of one piece, of *)
(* which tokio makes one per 2 MiB, the last one stands for all: the hole  *)
(* that a File::create of another task leaves between two is not modelled. *)
(***************************************************************************)
EXTENDS Integers

CONSTANTS
    Peers,       \* the tasks: one per entry of the tracker's peer list
    NumPieces,   \* piece_hashes.len()
    Faulty,      \* peers that may fail, refuse or drop the connection
    Corrupt,     \* peers whose data may fail the SHA-1 check
    Silent,      \* peers that may stop answering for good
    DiskFaults   \* TRUE when file operations may fail

ASSUME SwarmAssumption ==
    /\ NumPieces \in Nat \ {0}
    /\ Faulty \subseteq Peers
    /\ Corrupt \subseteq Peers
    /\ Silent \subseteq Peers
    /\ DiskFaults \in BOOLEAN

Pieces == 0 .. NumPieces - 1
None == -1

VARIABLES
    pc,        \* where each task is
    todo,      \* FileDownloadState.todo
    done,      \* FileDownloadState.done
    holding,   \* the local `piece` of try_download_piece
    skip,      \* Downloader.skip_set
    disk,      \* each piece file: "absent", "short" (created) or "whole"
    writing,   \* <<task, piece>>: writes tokio still carries out in the background
    main,      \* where the task that called TorrentFile::download is
    copied,    \* how many piece files it has read so far
    short      \* pieces of its torrent that hold fewer than bytes_per_piece bytes

shared == <<todo, done>>
local == <<holding, skip>>
files == <<disk, writing>>
caller == <<main, copied, short>>
vars == <<pc, shared, local, files, caller>>

AwaitingPeer ==
    {"connecting", "handshaking", "Curious", "Interested", "transferring"}
Working ==
    {"Unchoked", "mismatched", "verified", "created", "written", "failed"}
Ended == {"returned", "errored", "panicked"}

\* Between the moment a task takes a piece and the moment it lets go of it.
\* A task that panics never lets go.
InHand ==
    {"transferring", "mismatched", "verified", "created", "written", "failed"}

\* The type of every variable: in particular what goes back to the queue, and
\* into `done`, is always the index of a piece.
TypeOK ==
    /\ pc \in [Peers -> AwaitingPeer \cup Working \cup Ended]
    /\ todo \subseteq Pieces
    /\ done \subseteq Pieces
    /\ holding \in [Peers -> Pieces \cup {None}]
    /\ skip \in [Peers -> SUBSET Pieces]
    /\ disk \in [Pieces -> {"absent", "short", "whole"}]
    /\ writing \subseteq Peers \X Pieces
    /\ main \in {"joining", "opening", "copying", "ok", "failed"}
    /\ copied \in 0 .. NumPieces
    /\ short \subseteq Pieces

\* Of a torrent that extract accepts the last piece may be shorter than the others.
Init ==
    /\ pc = [p \in Peers |-> "connecting"]
    /\ todo = Pieces
    /\ done = {}
    /\ holding = [p \in Peers |-> None]
    /\ skip = [p \in Peers |-> {}]
    /\ disk = [x \in Pieces |-> "absent"]
    /\ writing = {}
    /\ main = "joining"
    /\ copied = 0
    /\ short \in {{}, {NumPieces - 1}}

Goto(p, from, to) ==
    /\ pc[p] = from
    /\ pc' = [pc EXCEPT ![p] = to]

-----------------------------------------------------------------------------
(* Seeded faults: each is an action below with one plausible mistake in it. *)
(* They are in no specification; a property that survives the fault it      *)
(* guards against would be worth nothing.                                   *)

\* The piece is marked after the local was cleared.
CompleteAfterReset(p) ==
    /\ Goto(p, "written", "Unchoked")
    /\ holding' = [holding EXCEPT ![p] = None]
    /\ done' = done \cup {holding'[p]}
    /\ UNCHANGED <<todo, skip, files, caller>>

\* An error of the connection ends the task without the requeue.
LeaveWithoutRequeue(p) ==
    /\ Goto(p, "failed", "returned")
    /\ holding' = [holding EXCEPT ![p] = None]
    /\ UNCHANGED <<todo, done, skip, files, caller>>

\* The piece is looked up under the Mutex and left in the queue.
SelectWithoutRemove(p) ==
    /\ Goto(p, "Unchoked", "transferring")
    /\ \E x \in todo \ skip[p] : holding' = [holding EXCEPT ![p] = x]
    /\ UNCHANGED <<todo, done, skip, files, caller>>

\* The number of bytes copied is not compared with the file's length.
CopyWithoutCheck ==
    /\ main = "copying"
    /\ copied < NumPieces
    /\ copied' = copied + 1
    /\ UNCHANGED <<pc, shared, local, files, main, short>>

\* The caller goes on as soon as one task has ended.
JoinAny ==
    /\ main = "joining"
    /\ \E p \in Peers : pc[p] \in Ended
    /\ main' = "opening"
    /\ UNCHANGED <<pc, shared, local, files, copied, short>>

\* The task waits for an Unchoke, as the state Choked it sets would have it.
WaitChoked(p) ==
    /\ Goto(p, "Unchoked", "Interested")
    /\ todo \subseteq skip[p]
    /\ UNCHANGED <<shared, local, files, caller>>

\* The task leaves after one piece, with pieces still in the queue.
LeaveEarly(p) ==
    /\ Goto(p, "Unchoked", "returned")
    /\ done # {}
    /\ UNCHANGED <<shared, local, files, caller>>

-----------------------------------------------------------------------------
(* Reaching the Unchoked state: Downloader::new, handshake, and the arms    *)
(* Curious and Interested of download_pieces.  Nothing shared is touched.   *)

Connect(p) ==
    /\ Goto(p, "connecting", "handshaking")
    /\ UNCHANGED <<shared, local, files, caller>>

ShakeHands(p) ==
    /\ Goto(p, "handshaking", "Curious")
    /\ UNCHANGED <<shared, local, files, caller>>

FindSeed(p) ==
    /\ Goto(p, "Curious", "Interested")
    /\ UNCHANGED <<shared, local, files, caller>>

FindIncomplete(p) ==
    /\ p \in Faulty
    /\ Goto(p, "Curious", "returned")
    /\ UNCHANGED <<shared, local, files, caller>>

GetUnchoked(p) ==
    /\ Goto(p, "Interested", "Unchoked")
    /\ UNCHANGED <<shared, local, files, caller>>

\* The `?` operators: an error of the connection ends the task with Err.
SessionFails(p) ==
    /\ p \in Faulty
    /\ pc[p] \in AwaitingPeer \ {"transferring"}
    /\ pc' = [pc EXCEPT ![p] = "errored"]
    /\ UNCHANGED <<shared, local, files, caller>>

\* Bitfield::from unwraps the last byte of the payload: a Bitfield message
\* without one panics wherever read_message is awaited, and tokio turns the
\* panic into the JoinError that `download` only logs.
Panic(p) ==
    /\ p \in Faulty
    /\ pc[p] \in {"Curious", "Interested", "transferring"}
    /\ pc' = [pc EXCEPT ![p] = "panicked"]
    /\ UNCHANGED <<shared, local, files, caller>>

-----------------------------------------------------------------------------
(* try_download_piece: one piece from the queue to the disk, or back.       *)

SelectPiece(p) ==
    /\ Goto(p, "Unchoked", "transferring")
    /\ \E x \in todo \ skip[p] :
          /\ todo' = todo \ {x}
          /\ holding' = [holding EXCEPT ![p] = x]
    /\ UNCHANGED <<done, skip, files, caller>>

\* Exhausted: the task leaves although other tasks may still requeue a piece.
LeaveExhausted(p) ==
    /\ Goto(p, "Unchoked", "returned")
    /\ todo \subseteq skip[p]
    /\ UNCHANGED <<shared, local, files, caller>>

\* download_piece returned an error of the connection.
TransferFails(p) ==
    /\ p \in Faulty
    /\ Goto(p, "transferring", "failed")
    /\ UNCHANGED <<shared, local, files, caller>>

\* bytes_per_piece bytes are asked for of every piece.  Nobody has that many of a
\* short one, so no peer answers the last requests with what it has there.
HashMatches(p) ==
    /\ Goto(p, "transferring", "verified")
    /\ holding[p] \notin short
    /\ UNCHANGED <<shared, local, files, caller>>

HashDiffers(p) ==
    /\ p \in Corrupt
    /\ Goto(p, "transferring", "mismatched")
    /\ UNCHANGED <<shared, local, files, caller>>

\* The else branch of verify_and_save_piece.  The Mutex is released before
\* try_download_piece takes it again to requeue the same piece once more.
RequeueMismatched(p) ==
    /\ Goto(p, "mismatched", "failed")
    /\ skip' = [skip EXCEPT ![p] = @ \cup {holding[p]}]
    /\ todo' = todo \cup {holding[p]}
    /\ UNCHANGED <<done, holding, files, caller>>

\* The error branch of try_download_piece.  It sets Choked and returns
\* Exhausted, which the caller turns into NotInterested at once: the task
\* ends.
RequeueAndLeave(p) ==
    /\ Goto(p, "failed", "returned")
    /\ skip' = [skip EXCEPT ![p] = @ \cup {holding[p]}]
    /\ todo' = todo \cup {holding[p]}
    /\ holding' = [holding EXCEPT ![p] = None]
    /\ UNCHANGED <<done, files, caller>>

\* File::create truncates a file that is already there.
CreateFile(p) ==
    /\ Goto(p, "verified", "created")
    /\ disk' = [disk EXCEPT ![holding[p]] = "short"]
    /\ UNCHANGED <<shared, local, writing, caller>>

\* File::create fails, or write_all does: it hears of a failed background write
\* when it hands over the next one, if there is a next one.
SaveFails(p) ==
    /\ DiskFaults
    /\ pc[p] \in {"verified", "created"}
    /\ pc' = [pc EXCEPT ![p] = "failed"]
    /\ UNCHANGED <<shared, local, files, caller>>

\* write_all returns once tokio has buffered the last bytes; nothing flushes them.
WritePiece(p) ==
    /\ Goto(p, "created", "written")
    /\ writing' = writing \cup {<<p, holding[p]>>}
    /\ UNCHANGED <<shared, local, disk, caller>>

CompletePiece(p) ==
    /\ Goto(p, "written", "Unchoked")
    /\ done' = done \cup {holding[p]}
    /\ holding' = [holding EXCEPT ![p] = None]
    /\ UNCHANGED <<todo, skip, files, caller>>

-----------------------------------------------------------------------------
(* tokio's blocking pool finishes the buffered writes.  The file handle is  *)
(* gone by then, so an error is reported to nobody.                         *)

BackgroundWrite(p, x) ==
    /\ <<p, x>> \in writing
    /\ writing' = writing \ {<<p, x>>}
    /\ disk' = [disk EXCEPT ![x] = "whole"]
    /\ UNCHANGED <<pc, shared, local, caller>>

BackgroundWriteFails(p, x) ==
    /\ DiskFaults
    /\ <<p, x>> \in writing
    /\ writing' = writing \ {<<p, x>>}
    /\ UNCHANGED <<pc, shared, local, disk, caller>>

-----------------------------------------------------------------------------
(* The caller: `download` awaits the join handles and drops their errors,   *)
(* then reconstitute_files_from_torrent opens all piece files and copies    *)
(* them, in order, into the output files.                                   *)

JoinTasks ==
    /\ main = "joining"
    /\ \A p \in Peers : pc[p] \in Ended
    /\ main' = "opening"
    /\ UNCHANGED <<pc, shared, local, files, copied, short>>

OpenPieces ==
    /\ main = "opening"
    /\ main' = IF \E x \in Pieces : disk[x] = "absent" THEN "failed" ELSE "copying"
    /\ UNCHANGED <<pc, shared, local, files, copied, short>>

CopyPiece ==
    /\ main = "copying"
    /\ copied < NumPieces
    /\ disk[copied] = "whole"
    /\ copied' = copied + 1
    /\ UNCHANGED <<pc, shared, local, files, main, short>>

\* Every piece file counts towards the total length, so one that is read
\* short leaves the last output file short: CopyError.
CopyShortPiece ==
    /\ main = "copying"
    /\ copied < NumPieces
    /\ disk[copied] = "short"
    /\ main' = "failed"
    /\ UNCHANGED <<pc, shared, local, files, copied, short>>

ReportSuccess ==
    /\ main = "copying"
    /\ copied = NumPieces
    /\ main' = "ok"
    /\ UNCHANGED <<pc, shared, local, files, copied, short>>

AssemblyFails ==
    /\ DiskFaults
    /\ main \in {"opening", "copying"}
    /\ main' = "failed"
    /\ UNCHANGED <<pc, shared, local, files, copied, short>>

-----------------------------------------------------------------------------

\* Steps that wait for something the remote peer does.
PeerStep(p) ==
    \/ Connect(p) \/ ShakeHands(p) \/ FindSeed(p) \/ FindIncomplete(p)
    \/ GetUnchoked(p) \/ SessionFails(p) \/ Panic(p)
    \/ TransferFails(p) \/ HashMatches(p) \/ HashDiffers(p)

\* Steps the task takes on its own, once the runtime schedules it.
TaskStep(p) ==
    \/ SelectPiece(p) \/ LeaveExhausted(p)
    \/ RequeueMismatched(p) \/ RequeueAndLeave(p)
    \/ CreateFile(p) \/ SaveFails(p) \/ WritePiece(p) \/ CompletePiece(p)

PoolStep ==
    \E p \in Peers, x \in Pieces :
        BackgroundWrite(p, x) \/ BackgroundWriteFails(p, x)

CallerStep ==
    \/ JoinTasks \/ OpenPieces \/ CopyPiece \/ CopyShortPiece
    \/ ReportSuccess \/ AssemblyFails

Next ==
    \/ \E p \in Peers : PeerStep(p) \/ TaskStep(p)
    \/ PoolStep
    \/ CallerStep

\* The runtime polls every task that is ready and the Mutex is handed over in
\* FIFO order, so a task's own steps are weakly fair, and so are the pool's
\* and the caller's.  A step that needs the remote peer is fair only for the
\* peers that do not fall silent, and for requests they can answer: the code has
\* no timeout of its own.
Fairness ==
    /\ \A p \in Peers : WF_vars(TaskStep(p))
    /\ \A p \in Peers \ Silent : WF_vars(holding[p] \notin short /\ PeerStep(p))
    /\ WF_vars(PoolStep)
    /\ WF_vars(CallerStep)

Spec == Init /\ [][Next]_vars
FairSpec == Spec /\ Fairness
-----------------------------------------------------------------------------
(* What must hold.                                                          *)

\* A piece is in the queue, finished, or in the hands of a task: whatever goes
\* wrong in try_download_piece, the piece is put back.  The one exception is a
\* task that panicked, which keeps its piece for ever.
NoPieceLost ==
    \A x \in Pieces :
        \/ x \in todo \cup done
        \/ \E p \in Peers : holding[p] = x /\ pc[p] \in InHand \cup {"panicked"}

\* Unless a task that mismatched the piece has requeued it (it does so twice,
\* in two critical sections), a piece is in exactly one place: two tasks never
\* download it at once and a finished piece is never downloaded again.
SinglePlace ==
    \A x \in Pieces :
        (\A p \in Corrupt : x \notin skip[p]) =>
            /\ x \in todo => x \notin done
            /\ \A p \in Peers : holding[p] = x => x \notin todo \cup done
            /\ \A p, q \in Peers : holding[p] = x /\ holding[q] = x => p = q

\* `download` never looks at `done` and ignores what the tasks returned, yet
\* success is reported only when every piece was verified and its file was
\* complete: the missing and the short file are both noticed.
SuccessMeansWhole ==
    main = "ok" => \A x \in Pieces : x \in done /\ disk[x] = "whole"

\* A complete piece file is emptied again (File::create) only when some task
\* mismatched that piece and its second requeue brought the piece back.
TruncatedOnlyAfterMismatch ==
    [][\A x \in Pieces :
          disk[x] = "whole" /\ disk'[x] = "short"
              => \E p \in Corrupt : x \in skip[p]]_vars

\* The shared download keeps the promise TorrentFile::download makes: see
\* DownloadContract.
Contract == INSTANCE DownloadContract
                WITH outcome <- IF main \in {"ok", "failed"} THEN main ELSE "running"
KeepsContract == Contract!Spec

\* `download` joins every task and no await in a task has a timeout: the call
\* ends, unless a task waits for ever for a peer that fell silent, or for bytes
\* past the end of a short piece.
EndsOrAwaitsSilentPeer ==
    \/ <>(main \in {"ok", "failed"})
    \/ \E p \in Silent : <>[](pc[p] \in AwaitingPeer)
    \/ \E p \in Peers : <>[](pc[p] = "transferring" /\ holding[p] \in short)

\* One seed that unchokes us, and whose task is not caught by a short piece, is
\* enough to get every piece, whatever the other peers do before they start a
\* transfer, as long as no transfer goes wrong.  What is missing is what the
\* task of a silent peer holds, and a short piece that another task is caught by.
OneSeedSuffices ==
    /\ [](\A p \in Peers : pc[p] \notin {"mismatched", "failed", "panicked"})
    /\ \E p \in Peers \ Silent :
          <>(pc[p] = "Unchoked") /\ [](holding[p] \notin short)
    => <>(\A x \in Pieces :
              \/ x \in done
              \/ \E q \in Peers : holding[q] = x /\ (q \in Silent \/ x \in short))

-----------------------------------------------------------------------------
(* What the program's own messages say, and its steps do not do.            *)

\* downloader.rs:302 logs "adding piece to skip list and re-queueing for
\* another peer".
MismatchedPieceIsRetried ==
    \A p \in Peers, x \in Pieces :
        pc[p] = "mismatched" /\ holding[p] = x
            ~> x \in done \/ \E q \in Peers \ {p} : holding[q] = x
===============================================================================
