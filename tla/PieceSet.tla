------------------------------- MODULE PieceSet -------------------------------
(***************************************************************************)
(* What a Bitfield of src/peer.rs stands for: a set of piece indices below *)
(* a fixed size.  An index out of range is refused and changes nothing.    *)
(***************************************************************************)
EXTENDS Naturals

CONSTANT MaxPieces    \* bound on the size of the sets considered

VARIABLES
    size,    \* how many pieces there are
    held     \* the pieces in the set

pieceSetVars == <<size, held>>

Init ==
    /\ size \in 1 .. MaxPieces
    /\ held \in {{}, 0 .. size - 1}

Add(i) ==
    /\ i < size
    /\ held' = held \cup {i}
    /\ UNCHANGED size

Remove(i) ==
    /\ i < size
    /\ held' = held \ {i}
    /\ UNCHANGED size

Next == \E i \in 0 .. MaxPieces - 1 : Add(i) \/ Remove(i)

Spec == Init /\ [][Next]_pieceSetVars
===============================================================================
