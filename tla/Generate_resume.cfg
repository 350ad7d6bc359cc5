SPECIFICATION Spec
CONSTANTS
    Paths = {1, 2, 3}
    NoPath = NoPath
    Short <- MCShort
    JsonOut = FALSE
    Workers = {w1, w2}
    NoWorker = NoWorker
    FlushInterval = 2
    BufCap = 6
    Walks <- SameFolder
    Faulty = {}
    Endless = {}
    DiskMayFill = FALSE
    MayBeKilled = TRUE
    MayLosePower = FALSE
    MaxRuns = 2
SYMMETRY Symmetry
INVARIANTS
    ResumeCompletes
