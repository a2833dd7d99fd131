\* A last piece shorter than the others, as of nearly every torrent.
CONSTANTS
    NumPieces = 2
    PieceLength = 5
    LastLengths = {1}
    BlockSize = 2
    MaxChokes = 2
    MaxChatter = 1
SPECIFICATION Spec
INVARIANTS AsksForWhatRemains
CHECK_DEADLOCK FALSE
