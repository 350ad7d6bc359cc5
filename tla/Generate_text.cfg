SPECIFICATION Spec
CONSTANTS
    Paths = {1, 2, 3}
    NoPath = NoPath
    Short <- MCShort
    JsonOut = FALSE
    Workers = {w1, w2}
    NoWorker = NoWorker
    FlushInterval = 2
    BufCap = 6
    Walks <- GrowingFolder
    Faulty = {3}
    Endless = {}
    DiskMayFill = FALSE
    MayBeKilled = TRUE
    MayLosePower = TRUE
    MaxRuns = 3
SYMMETRY Symmetry
INVARIANTS
    LossBound
    CleanRunCompletes
    EntriesTrue
    NoDuplicateEntries
PROPERTIES
    DurableEntriesSurvive
