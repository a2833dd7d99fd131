--------------------------- MODULE DownloadContract ---------------------------
(***************************************************************************)
(* What TorrentFile::download promises to its caller, with the peers, the  *)
(* piece files and the threads left out.  Pieces become done one at a time *)
(* and stay done; the call reports success only when every piece is done;  *)
(* after it has reported, nothing more happens to the download.            *)
(***************************************************************************)
EXTENDS Naturals

CONSTANT Pieces    \* the indices of the torrent's pieces

VARIABLES
    done,      \* pieces that were verified and handed to the file system
    outcome    \* what the caller has been told so far

contractVars == <<done, outcome>>

Init ==
    /\ done = {}
    /\ outcome = "running"

MarkDone(x) ==
    /\ outcome = "running"
    /\ done' = done \cup {x}
    /\ UNCHANGED outcome

Succeed ==
    /\ outcome = "running"
    /\ done = Pieces
    /\ outcome' = "ok"
    /\ UNCHANGED done

Fail ==
    /\ outcome = "running"
    /\ outcome' = "failed"
    /\ UNCHANGED done

Next ==
    \/ \E x \in Pieces : MarkDone(x)
    \/ Succeed
    \/ Fail

Spec == Init /\ [][Next]_contractVars
===============================================================================
