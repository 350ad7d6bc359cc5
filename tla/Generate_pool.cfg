SPECIFICATION FairSpec
CONSTANTS
    Paths = {1, 2, 3, 4}
    NoPath = NoPath
    Short <- MCShort
    JsonOut = FALSE
    Workers = {w1, w2}
    NoWorker = NoWorker
    FlushInterval = 2
    BufCap = 6
    Walks <- GrowingFolder
    Faulty = {3}
    Endless = {2}
    DiskMayFill = TRUE
    MayBeKilled = TRUE
    MayLosePower = FALSE
    MaxRuns = 2
INVARIANTS
    TypeOK
    EachFileOnce
    WriterExclusive
    FinalCount
PROPERTIES
    RunEnds
    OthersHandled
