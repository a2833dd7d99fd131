\* The flag 1 and the flag 0 occur in MCDocuments.
CONSTANTS
    U64 = 16
    U32 = 4
    HashSize = 1
    Md5Size = 2
    Urls = {"plain", "query", "empty query", "fragment", "both"}
    Spelling <- MCSpelling
    Alphanumeric = {"a", "b"}
    Escape <- MCEscape
    PeerId <- MCPeerId
    Hashes <- MCHashes
    Documents <- MCDocuments
    Offers <- MCOffers
    Answers <- MCAnswers
SPECIFICATION Spec
INVARIANT PrivateFlagIsKept
CHECK_DEADLOCK FALSE
