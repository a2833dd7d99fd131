\* Chunks of 8 bytes, 2 of them for the length, so that a document fills up to
\* several of them.  A document ends when it is complete or refused.
CONSTANTS
    MaxInt = 11
    ChunkSize = 8
    FieldSize = 2
    WordSize = 2
    Fragments <- MCFragments
    MaxFragments = 5
SPECIFICATION Spec
INVARIANTS TruncationIsNoticed EncodingIsParsed HashedAsRead DigestInputIsRecoverable
CHECK_DEADLOCK FALSE
