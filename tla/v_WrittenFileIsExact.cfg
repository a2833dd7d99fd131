\* The disk works; the writes of the piece files may come late.
CONSTANTS
    NumPieces = 3
    PieceLength = 2
    Cuts <- MCCuts
    Path <- MCPath
    WithMd5 = {3, 4}
    DoubtfulMd5 = {}
    DiskFaults = FALSE
SPECIFICATION Spec
INVARIANTS WrittenFileIsExact
CHECK_DEADLOCK FALSE
