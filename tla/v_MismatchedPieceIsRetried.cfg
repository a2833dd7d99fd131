\* One of two peers sends data that fails the check; nothing else goes wrong.
CONSTANTS
    Peers = {p1, p2}
    NumPieces = 2
    Faulty = {}
    Corrupt = {p2}
    Silent = {}
    DiskFaults = FALSE
SPECIFICATION FairSpec
PROPERTIES MismatchedPieceIsRetried
CHECK_DEADLOCK FALSE
