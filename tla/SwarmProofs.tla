----------------------------- MODULE SwarmProofs -----------------------------
(***************************************************************************)
(* Proofs about Swarm, for every set of peers, every number of pieces and  *)
(* every choice of faulty, corrupt and silent peers and of disk faults.    *)
(* The invariant is built in layers, each inductive relative to the ones   *)
(* before it: types and locals; where a piece is; what the disk holds;     *)
(* what the caller has read.                                               *)
(***************************************************************************)
EXTENDS Swarm, TLAPS

-----------------------------------------------------------------------------
(* The inductive invariant.                                                 *)

\* A task holds a piece exactly between SelectPiece and the step that lets go.
HoldingInv ==
    \A p \in Peers :
        /\ pc[p] \in InHand => holding[p] \in Pieces
        /\ pc[p] \notin InHand \cup {"panicked"} => holding[p] = None

\* Only a corrupt peer's data fails the hash check.
MismatchInv == \A p \in Peers : pc[p] = "mismatched" => p \in Corrupt

\* A buffered write belongs to a finished piece or to the task about to
\* finish it.
WritingInv ==
    \A p \in Peers, x \in Pieces :
        <<p, x>> \in writing => x \in done \/ (pc[p] = "written" /\ holding[p] = x)

\* So does a complete piece file.
WholeInv ==
    \A x \in Pieces :
        disk[x] = "whole"
            => x \in done \/ \E p \in Peers : pc[p] = "written" /\ holding[p] = x

\* The caller moves on once every task has ended, and reads the files in order.
CallerInv ==
    /\ main # "joining" => \A p \in Peers : pc[p] \in Ended
    /\ main \in {"joining", "opening"} => copied = 0
    /\ main \in {"copying", "ok"} => \A x \in Pieces : x < copied => disk[x] = "whole"
    /\ main = "ok" => copied = NumPieces

LocalInv == TypeOK /\ HoldingInv
PlaceInv == NoPieceLost /\ SinglePlace /\ MismatchInv
DiskInv == WritingInv /\ WholeInv
IInv == LocalInv /\ PlaceInv /\ DiskInv /\ CallerInv

-----------------------------------------------------------------------------
(* The layers.                                                              *)

\* How a step that waits for the peer moves the task's pc: a piece in hand stays
\* in hand, and no piece comes into it.
Targets ==
    {"handshaking", "Curious", "Interested", "Unchoked", "failed", "verified",
     "mismatched", "returned", "errored", "panicked"}

Moves(p, to) ==
    /\ pc' = [pc EXCEPT ![p] = to]
    /\ to = "mismatched" => p \in Corrupt
    /\ pc[p] \in AwaitingPeer
    /\ pc[p] \in InHand => to \in InHand \cup {"panicked"}
    /\ pc[p] \notin InHand => to \notin InHand

\* Such a step changes nothing else.
LEMMA PeerStepMoves ==
    ASSUME NEW p \in Peers, PeerStep(p)
    PROVE  /\ UNCHANGED <<todo, done, holding, skip, disk, writing, main, copied, short>>
           /\ \E to \in Targets : Moves(p, to)
<1> USE DEF shared, local, files, caller, Goto, InHand, AwaitingPeer, Targets, Moves
<1>1. CASE Connect(p) \/ ShakeHands(p) \/ FindSeed(p)
  BY <1>1 DEF Connect, ShakeHands, FindSeed
<1>2. CASE FindIncomplete(p) \/ GetUnchoked(p)
  BY <1>2 DEF FindIncomplete, GetUnchoked
<1>3. CASE SessionFails(p)
  BY <1>3 DEF SessionFails
<1>4. CASE Panic(p)
  BY <1>4 DEF Panic
<1>5. CASE TransferFails(p)
  BY <1>5 DEF TransferFails
<1>6. CASE HashMatches(p)
  BY <1>6 DEF HashMatches
<1>7. CASE HashDiffers(p)
  BY <1>7 DEF HashDiffers
<1> QED
  BY <1>1, <1>2, <1>3, <1>4, <1>5, <1>6, <1>7 DEF PeerStep

\* Types and locals: every step keeps every variable's type, and a task that
\* requeues or completes a piece does hold one.
LEMMA LocalStep ==
    ASSUME LocalInv, [Next]_vars
    PROVE  LocalInv'
<1> USE SwarmAssumption
    DEF LocalInv, TypeOK, HoldingInv, Pieces, None, AwaitingPeer, Working, Ended, InHand
<1> USE DEF vars, shared, local, files, caller, Goto
<1>1. CASE UNCHANGED vars
  BY <1>1
<1>2. ASSUME NEW p \in Peers, PeerStep(p) PROVE LocalInv'
  <2>1. UNCHANGED <<todo, done, holding, skip, disk, writing, main, copied, short>>
    BY <1>2, PeerStepMoves
  <2>2. PICK to \in Targets : Moves(p, to)
    BY <1>2, PeerStepMoves
  <2>3. TypeOK'
    BY <2>1, <2>2 DEF Targets, Moves
  <2>4. HoldingInv'
    BY <2>1, <2>2 DEF Targets, Moves
  <2> QED
    BY <2>3, <2>4
<1>3. ASSUME NEW p \in Peers, TaskStep(p) PROVE LocalInv'
  <2>1. CASE SelectPiece(p)
    BY <2>1 DEF SelectPiece
  <2>2. CASE LeaveExhausted(p)
    BY <2>2 DEF LeaveExhausted
  <2>3. CASE RequeueMismatched(p)
    BY <2>3 DEF RequeueMismatched
  <2>4. CASE RequeueAndLeave(p)
    BY <2>4 DEF RequeueAndLeave
  <2>5. CASE CreateFile(p) \/ SaveFails(p)
    BY <2>5 DEF CreateFile, SaveFails
  <2>6. CASE WritePiece(p)
    BY <2>6 DEF WritePiece
  <2>7. CASE CompletePiece(p)
    BY <2>7 DEF CompletePiece
  <2> QED
    BY <1>3, <2>1, <2>2, <2>3, <2>4, <2>5, <2>6, <2>7 DEF TaskStep
<1>4. CASE PoolStep
  BY <1>4 DEF PoolStep, BackgroundWrite, BackgroundWriteFails
<1>5. CASE CallerStep
  <2>1. CASE JoinTasks \/ OpenPieces
    BY <2>1 DEF JoinTasks, OpenPieces
  <2>2. CASE CopyPiece
    BY <2>2 DEF CopyPiece
  <2>3. CASE CopyShortPiece \/ ReportSuccess \/ AssemblyFails
    BY <2>3 DEF CopyShortPiece, ReportSuccess, AssemblyFails
  <2> QED
    BY <1>5, <2>1, <2>2, <2>3 DEF CallerStep
<1> QED
  BY <1>1, <1>2, <1>3, <1>4, <1>5 DEF Next

\* A piece that leaves the queue is in the hands of one task, and goes back to
\* the queue or to `done` in the step that lets go of it.
LEMMA PlaceStep ==
    ASSUME LocalInv, PlaceInv, [Next]_vars
    PROVE  PlaceInv'
<1> USE SwarmAssumption
    DEF LocalInv, HoldingInv, TypeOK, PlaceInv, NoPieceLost, SinglePlace, MismatchInv
<1> USE DEF Pieces, None, InHand, vars, shared, local, files, caller, Goto
<1>1. CASE UNCHANGED vars
  BY <1>1
<1>2. ASSUME NEW p \in Peers, PeerStep(p) PROVE PlaceInv'
  <2>1. UNCHANGED <<todo, done, holding, skip>>
    BY <1>2, PeerStepMoves
  <2>2. PICK to \in Targets : Moves(p, to)
    BY <1>2, PeerStepMoves
  <2>3. \A q \in Peers : pc[q] \in InHand \cup {"panicked"}
                            => pc'[q] \in InHand \cup {"panicked"}
    BY <2>2 DEF Moves, AwaitingPeer
  <2>4. NoPieceLost'
    BY <2>1, <2>3
  <2>5. SinglePlace'
    BY <2>1
  <2>6. MismatchInv'
    BY <2>2 DEF Moves
  <2> QED
    BY <2>4, <2>5, <2>6
<1>3. ASSUME NEW p \in Peers, TaskStep(p) PROVE PlaceInv'
  <2>1. CASE SelectPiece(p)
    <3>1. NoPieceLost'
      BY <2>1 DEF SelectPiece
    <3>2. SinglePlace'
      BY <2>1 DEF SelectPiece
    <3>3. MismatchInv'
      BY <2>1 DEF SelectPiece
    <3> QED
      BY <3>1, <3>2, <3>3
  <2>2. CASE LeaveExhausted(p)
    BY <2>2 DEF LeaveExhausted
  <2>3. CASE RequeueMismatched(p)
    <3>1. NoPieceLost'
      BY <2>3 DEF RequeueMismatched
    <3>2. SinglePlace'
      BY <2>3 DEF RequeueMismatched
    <3>3. MismatchInv'
      BY <2>3 DEF RequeueMismatched
    <3> QED
      BY <3>1, <3>2, <3>3
  <2>4. CASE RequeueAndLeave(p)
    <3>1. NoPieceLost'
      BY <2>4 DEF RequeueAndLeave
    <3>2. SinglePlace'
      BY <2>4 DEF RequeueAndLeave
    <3>3. MismatchInv'
      BY <2>4 DEF RequeueAndLeave
    <3> QED
      BY <3>1, <3>2, <3>3
  <2>5. CASE CreateFile(p) \/ SaveFails(p)
    <3>1. NoPieceLost'
      BY <2>5 DEF CreateFile, SaveFails
    <3>2. SinglePlace'
      BY <2>5 DEF CreateFile, SaveFails
    <3>3. MismatchInv'
      BY <2>5 DEF CreateFile, SaveFails
    <3> QED
      BY <3>1, <3>2, <3>3
  <2>6. CASE WritePiece(p)
    BY <2>6 DEF WritePiece
  <2>7. CASE CompletePiece(p)
    <3>1. NoPieceLost'
      BY <2>7 DEF CompletePiece
    <3>2. SinglePlace'
      BY <2>7 DEF CompletePiece
    <3>3. MismatchInv'
      BY <2>7 DEF CompletePiece
    <3> QED
      BY <3>1, <3>2, <3>3
  <2> QED
    BY <1>3, <2>1, <2>2, <2>3, <2>4, <2>5, <2>6, <2>7 DEF TaskStep
<1>4. CASE PoolStep \/ CallerStep
  <2>1. UNCHANGED <<pc, todo, done, holding, skip>>
    BY <1>4 DEF PoolStep, BackgroundWrite, BackgroundWriteFails,
                CallerStep, JoinTasks, OpenPieces, CopyPiece, CopyShortPiece,
                ReportSuccess, AssemblyFails
  <2> QED
    BY <2>1
<1> QED
  BY <1>1, <1>2, <1>3, <1>4 DEF Next

\* What is on the disk, or on its way there, was verified by the task that
\* wrote it, which marks the piece done in its next step.
LEMMA DiskStep ==
    ASSUME LocalInv, DiskInv, [Next]_vars
    PROVE  DiskInv'
<1> USE SwarmAssumption
    DEF LocalInv, HoldingInv, TypeOK, DiskInv, WritingInv, WholeInv
<1> USE DEF Pieces, None, InHand, vars, shared, local, files, caller, Goto
<1>1. CASE UNCHANGED vars
  BY <1>1
<1>2. ASSUME NEW p \in Peers, PeerStep(p) PROVE DiskInv'
  <2>1. UNCHANGED <<done, holding, disk, writing>>
    BY <1>2, PeerStepMoves
  <2>2. \A q \in Peers : pc[q] = "written" => pc'[q] = "written"
    BY <1>2, PeerStepMoves DEF Moves, AwaitingPeer
  <2> QED
    BY <2>1, <2>2
<1>3. ASSUME NEW p \in Peers, TaskStep(p) PROVE DiskInv'
  <2>1. CASE SelectPiece(p) \/ LeaveExhausted(p)
    BY <2>1 DEF SelectPiece, LeaveExhausted
  <2>2. CASE RequeueMismatched(p) \/ RequeueAndLeave(p)
    BY <2>2 DEF RequeueMismatched, RequeueAndLeave
  <2>3. CASE CreateFile(p) \/ SaveFails(p)
    BY <2>3 DEF CreateFile, SaveFails
  <2>4. CASE WritePiece(p)
    BY <2>4 DEF WritePiece
  <2>5. CASE CompletePiece(p)
    BY <2>5 DEF CompletePiece
  <2> QED
    BY <1>3, <2>1, <2>2, <2>3, <2>4, <2>5 DEF TaskStep
<1>4. ASSUME NEW p \in Peers, NEW x \in Pieces,
             BackgroundWrite(p, x) \/ BackgroundWriteFails(p, x)
      PROVE  DiskInv'
  BY <1>4 DEF BackgroundWrite, BackgroundWriteFails
<1>5. CASE CallerStep
  BY <1>5 DEF CallerStep, JoinTasks, OpenPieces, CopyPiece, CopyShortPiece,
              ReportSuccess, AssemblyFails
<1> QED
  BY <1>1, <1>2, <1>3, <1>4, <1>5 DEF Next, PoolStep

\* Once every task has ended no step touches a piece file except a background
\* write, and that only completes it: what was read whole stays whole.
LEMMA CallerInvStep ==
    ASSUME LocalInv, CallerInv, [Next]_vars
    PROVE  CallerInv'
<1> USE SwarmAssumption
    DEF LocalInv, TypeOK, CallerInv, Pieces, vars, shared, local, files, caller, Goto
<1>1. CASE UNCHANGED vars
  BY <1>1
<1>2. ASSUME NEW p \in Peers, PeerStep(p) \/ TaskStep(p) PROVE CallerInv'
  <2>1. CASE PeerStep(p)
    <3>1. pc[p] \notin Ended /\ UNCHANGED <<main, copied>>
      BY <2>1, PeerStepMoves DEF Moves, AwaitingPeer, Ended
    <3> QED
      BY <3>1
  <2>2. CASE TaskStep(p)
    <3>1. pc[p] \notin Ended /\ UNCHANGED <<main, copied>>
      BY <2>2 DEF TaskStep, SelectPiece, LeaveExhausted, RequeueMismatched, RequeueAndLeave,
                  CreateFile, SaveFails, WritePiece, CompletePiece, Ended
    <3> QED
      BY <3>1
  <2> QED
    BY <1>2, <2>1, <2>2
<1>3. ASSUME NEW p \in Peers, NEW x \in Pieces,
             BackgroundWrite(p, x) \/ BackgroundWriteFails(p, x)
      PROVE  CallerInv'
  BY <1>3 DEF BackgroundWrite, BackgroundWriteFails
<1>4. CASE CallerStep
  <2>1. CASE JoinTasks \/ OpenPieces
    BY <2>1 DEF JoinTasks, OpenPieces
  <2>2. CASE CopyPiece
    BY <2>2 DEF CopyPiece
  <2>3. CASE CopyShortPiece \/ ReportSuccess \/ AssemblyFails
    BY <2>3 DEF CopyShortPiece, ReportSuccess, AssemblyFails
  <2> QED
    BY <1>4, <2>1, <2>2, <2>3 DEF CallerStep
<1> QED
  BY <1>1, <1>2, <1>3, <1>4 DEF Next, PoolStep

-----------------------------------------------------------------------------
(* The theorems.                                                            *)

\* The four layers hold in every reachable state.
THEOREM Invariance == Spec => []IInv
<1>1. Init => IInv
  <2> SUFFICES ASSUME Init PROVE IInv
    OBVIOUS
  <2> USE SwarmAssumption DEF Init, Pieces, None
  <2>1. LocalInv
    BY DEF LocalInv, TypeOK, HoldingInv, AwaitingPeer, InHand
  <2>2. PlaceInv
    BY DEF PlaceInv, NoPieceLost, SinglePlace, MismatchInv
  <2>3. DiskInv
    BY DEF DiskInv, WritingInv, WholeInv
  <2>4. CallerInv
    BY DEF CallerInv
  <2> QED
    BY <2>1, <2>2, <2>3, <2>4 DEF IInv
<1>2. IInv /\ [Next]_vars => IInv'
  BY LocalStep, PlaceStep, DiskStep, CallerInvStep DEF IInv
<1> QED
  BY <1>1, <1>2, PTL DEF Spec

\* Every variable keeps its type in every step of every task.
THEOREM TypeCorrect == Spec => []TypeOK
BY Invariance, PTL DEF IInv, LocalInv

\* Whatever goes wrong while a task downloads, checks or saves a piece, the
\* piece is queued, done, or still in a task's hands (for ever, if it panicked).
THEOREM PiecesAreKept == Spec => []NoPieceLost
BY Invariance, PTL DEF IInv, PlaceInv

\* Without a mismatch on a piece, no two tasks ever work on it at once and it
\* is never downloaded again once done.
THEOREM PiecesAreExclusive == Spec => []SinglePlace
BY Invariance, PTL DEF IInv, PlaceInv

\* The call reports success only if every piece was verified and its file is
\* complete, although `download` itself checks neither.
THEOREM SuccessIsSound == Spec => []SuccessMeansWhole
<1>1. IInv => SuccessMeansWhole
  <2> SUFFICES ASSUME IInv, main = "ok", NEW x \in Pieces
               PROVE  x \in done /\ disk[x] = "whole"
    BY DEF SuccessMeansWhole
  <2>1. disk[x] = "whole"
    BY SwarmAssumption DEF IInv, CallerInv, Pieces
  <2>2. \A p \in Peers : pc[p] # "written"
    BY DEF IInv, CallerInv, Ended
  <2> QED
    BY <2>1, <2>2 DEF IInv, DiskInv, WholeInv
<1> QED
  BY <1>1, Invariance, PTL

\* A complete piece file is emptied only after a task mismatched that piece.
THEOREM TruncationNeedsMismatch == Spec => TruncatedOnlyAfterMismatch
<1> DEFINE Step ==
      \A x \in Pieces :
          disk[x] = "whole" /\ disk'[x] = "short" => \E p \in Corrupt : x \in skip[p]
<1>1. ASSUME IInv, [Next]_vars PROVE Step
  <2> SUFFICES ASSUME NEW x \in Pieces, disk[x] = "whole", disk'[x] = "short"
               PROVE  \E p \in Corrupt : x \in skip[p]
    OBVIOUS
  <2> USE DEF vars, shared, local, files, caller, Goto
  <2>1. PICK p \in Peers : CreateFile(p)
    <3>1. disk' # disk
      OBVIOUS
    <3>2. ASSUME NEW p \in Peers, NEW y \in Pieces,
                 BackgroundWrite(p, y) \/ BackgroundWriteFails(p, y)
          PROVE  disk'[x] = disk[x] \/ disk'[x] = "whole"
      BY <1>1, <3>2 DEF BackgroundWrite, BackgroundWriteFails, IInv, LocalInv, TypeOK
    <3>3. ~PoolStep
      BY <3>2 DEF PoolStep
    <3>4. ~CallerStep
      BY <3>1 DEF CallerStep, JoinTasks, OpenPieces, CopyPiece, CopyShortPiece,
                  ReportSuccess, AssemblyFails
    <3>5. \A p \in Peers : ~PeerStep(p)
      BY <3>1, PeerStepMoves
    <3>6. \A p \in Peers : TaskStep(p) => CreateFile(p)
      BY <3>1 DEF TaskStep, SelectPiece, LeaveExhausted, RequeueMismatched,
                  RequeueAndLeave, SaveFails, WritePiece, CompletePiece
    <3> QED
      BY <1>1, <3>1, <3>3, <3>4, <3>5, <3>6 DEF Next
  <2>2. holding[p] = x /\ pc[p] = "verified"
    <3>1. disk' = [disk EXCEPT ![holding[p]] = "short"] /\ pc[p] = "verified"
      BY <2>1 DEF CreateFile
    <3>2. holding[p] \in Pieces /\ disk \in [Pieces -> {"absent", "short", "whole"}]
      BY <1>1, <3>1 DEF IInv, LocalInv, TypeOK, HoldingInv, InHand
    <3> QED
      BY <3>1, <3>2
  <2>3. x \in done \/ \E q \in Peers : q # p /\ holding[q] = x
    BY <1>1, <2>2 DEF IInv, DiskInv, WholeInv
  <2> QED
    BY <1>1, <2>2, <2>3 DEF IInv, PlaceInv, SinglePlace
<1>2. IInv /\ [Next]_vars => [Step]_vars
  BY <1>1
<1> QED
  BY <1>2, Invariance, PTL DEF Spec, TruncatedOnlyAfterMismatch

\* Swarm implements DownloadContract: pieces become done one at a time and only
\* while the call runs, and it ends at most once, with success only when all
\* are done.
THEOREM Refinement == Spec => KeepsContract
<1> DEFINE outcome == IF main \in {"ok", "failed"} THEN main ELSE "running"
<1>1. Init => Contract!Init
  BY DEF Init, Contract!Init
<1>2. ASSUME IInv, SuccessMeansWhole', [Next]_vars
      PROVE  [Contract!Next]_(Contract!contractVars)
  <2> USE DEF vars, shared, local, files, caller, Goto
  <2> USE DEF Contract!Next, Contract!MarkDone, Contract!Succeed, Contract!Fail,
              Contract!contractVars
  <2>1. CASE UNCHANGED vars
    BY <2>1
  <2>2. ASSUME NEW p \in Peers, PeerStep(p)
        PROVE  UNCHANGED <<done, main>>
    BY <2>2, PeerStepMoves
  <2>3. ASSUME NEW p \in Peers, TaskStep(p), ~CompletePiece(p)
        PROVE  UNCHANGED <<done, main>>
    BY <2>3 DEF TaskStep, SelectPiece, LeaveExhausted, RequeueMismatched,
                RequeueAndLeave, CreateFile, SaveFails, WritePiece
  <2>4. ASSUME NEW p \in Peers, CompletePiece(p)
        PROVE  Contract!Next
    <3>1. main = "joining"
      BY <1>2, <2>4 DEF CompletePiece, IInv, CallerInv, Ended
    <3>2. holding[p] \in Pieces
      BY <1>2, <2>4 DEF CompletePiece, IInv, LocalInv, HoldingInv, InHand
    <3> QED
      BY <2>4, <3>1, <3>2 DEF CompletePiece
  <2>5. CASE PoolStep
    BY <2>5 DEF PoolStep, BackgroundWrite, BackgroundWriteFails
  <2>6. CASE ReportSuccess
    <3>1. main' = "ok" /\ main = "copying" /\ UNCHANGED done
      BY <2>6 DEF ReportSuccess
    <3>2. done = Pieces
      BY <1>2, <3>1 DEF SuccessMeansWhole, IInv, LocalInv, TypeOK
    <3> QED
      BY <3>1, <3>2
  <2>7. CASE CallerStep /\ ~ReportSuccess
    BY <2>7 DEF CallerStep, JoinTasks, OpenPieces, CopyPiece, CopyShortPiece, AssemblyFails
  <2> QED
    BY <1>2, <2>1, <2>2, <2>3, <2>4, <2>5, <2>6, <2>7 DEF Next
<1> QED
  BY <1>1, <1>2, Invariance, SuccessIsSound, PTL DEF Spec, KeepsContract, Contract!Spec
===============================================================================
