\* Two pieces of three requests each, the last request of a piece shorter; or the last
\* piece has 3 bytes, so that its second request ends past the end of the torrent.  The
\* peer has any of the pieces, may choke us twice and send one unrelated message.  The
\* system stops when the task has left, or waits for ever for a peer that does not answer.
CONSTANTS
    NumPieces = 2
    PieceLength = 5
    LastLengths = {3, 5}
    BlockSize = 2
    MaxChokes = 2
    MaxChatter = 1
SPECIFICATION FairSpec
INVARIANTS TypeOK HonestPieceMatches AsksWhenUnchoked RepeatsAreBounded
PROPERTIES SeedDelivers
CHECK_DEADLOCK FALSE
