\* Files 3 and 4 have an md5sum, that of file 4 may be wrong.  The system stops when
\* the call has returned.
CONSTANTS
    NumPieces = 3
    PieceLength = 2
    Cuts <- MCCuts
    Path <- MCPath
    WithMd5 = {3, 4}
    DoubtfulMd5 = {4}
    DiskFaults = TRUE
SPECIFICATION FairSpec
INVARIANTS TypeOK RemovedOnlyWhenExact BytesInOrder
PROPERTIES WholePiecesSuffice
CHECK_DEADLOCK FALSE
