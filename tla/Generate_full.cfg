SPECIFICATION Spec
CONSTANTS
    Paths = {1, 2, 3}
    NoPath = NoPath
    Short <- MCShort
    JsonOut = FALSE
    Workers = {w1, w2}
    NoWorker = NoWorker
    FlushInterval = 2
    BufCap = 6
    Walks <- SameFolder
    Faulty = {}
    Endless = {}
    DiskMayFill = TRUE
    MayBeKilled = FALSE
    MayLosePower = FALSE
    MaxRuns = 1
SYMMETRY Symmetry
INVARIANTS
    OkMeansWritten
