\* u64 and u32 are scaled to 16 and 4.  The system stops when the program has ended.
CONSTANTS
    U64 = 16
    U32 = 4
    HashSize = 1
    Md5Size = 2
    Urls = {"plain", "query", "empty query", "fragment", "both"}
    Spelling <- MCSpelling
    Alphanumeric = {"a", "b"}
    Escape <- MCEscape
    PeerId <- MCPeerId
    Hashes <- MCHashes
    Documents <- MCDocuments
    Offers <- MCOffers
    Answers <- MCAnswers
SPECIFICATION FairSpec
INVARIANTS PiecesTileTheFiles PanicsAreExplained PeersAsEncoded AnnounceIsUnderstood SuccessIsEarned
 
CHECK_DEADLOCK FALSE
