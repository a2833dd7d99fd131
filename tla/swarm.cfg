\* Three tasks, two pieces, every failure the code handles.  Two peers may send
\* data that fails the hash check, one may fall silent; the last piece is shorter
\* or not.  The system stops once the caller has its answer, or waits.
CONSTANTS
    Peers = {p1, p2, p3}
    NumPieces = 2
    Faulty = {p1, p2, p3}
    Corrupt = {p1, p2}
    Silent = {p3}
    DiskFaults = TRUE
SPECIFICATION FairSpec
INVARIANTS TypeOK NoPieceLost SinglePlace SuccessMeansWhole
PROPERTIES TruncatedOnlyAfterMismatch KeepsContract EndsOrAwaitsSilentPeer OneSeedSuffices
CHECK_DEADLOCK FALSE
