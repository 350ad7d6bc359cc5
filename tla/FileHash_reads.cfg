SPECIFICATION Spec
CONSTANTS
    Calls <- MCCalls
    Page = 4096
    Pieces = {1, 5, 8, 31, 32, 33, 64}
    Operands = {0, 7, 11, 15}
    H = 4
INVARIANTS
    TypeOK
    WordsInPlace
    EveryByteRead
    ReadsAllowed
    ReadsInside
    LengthKept
    ProductExact
