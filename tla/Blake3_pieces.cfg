SPECIFICATION Spec
CONSTANTS
    BlockLen = 2
    ChunkLen = 8
    WordBits = 30
    Machines <- MCMachines
    MaxLen = 138
INVARIANTS
    TypeOK
    DigestIsBlake3
    ReadyToFinalize
    StackFits
    SubtreeFits
