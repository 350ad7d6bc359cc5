SPECIFICATION FairSpec
CONSTANTS
    Names <- MCNames
    Files <- MCFiles
    Target <- MCTarget
    Hashes <- MCHashes
    Unreadable = "unreadable"
    Workers = {w1, w2}
    Lists <- MCLists
    Contents <- MCContents
INVARIANTS
    TypeOK
    NoSendOnClosed
    VerdictsConserved
    ReadAfterCount
    FinalProgress
    LinesPrinted
PROPERTIES
    AuditSpec
