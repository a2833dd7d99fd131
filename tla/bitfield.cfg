\* Torrents of up to ten pieces: one byte, one byte exactly, and two bytes with
\* spare bits.  Nothing is left to do once every index has been tried, so the
\* system never stops by itself.
CONSTANTS
    MaxPieces = 10
    Vectors <- MCVectors
SPECIFICATION Spec
INVARIANTS TypeOK ObserversAgree SeedIsRecognised AcceptedIsAPrefix CheckedVerdictIsExact
PROPERTIES ActsAsPieceSet
