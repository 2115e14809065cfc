SPECIFICATION Spec
CONSTANTS
    Levels = 2
    Prefix <- MCPrefix
    Buffers <- MCBuffers
    MaxText = 5
CHECK_DEADLOCK FALSE
INVARIANTS
    LinesIndented
    NeverOvercounted
