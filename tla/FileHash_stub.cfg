SPECIFICATION Spec
CONSTANTS
    Calls <- StubCalls
    Page = 4096
    Pieces = {1, 5, 8, 31, 32, 33, 64}
    Operands = {0, 7, 11, 15}
    H = 4
INVARIANT Sum128IsT1ha2
