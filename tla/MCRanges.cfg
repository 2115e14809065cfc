SPECIFICATION Spec
CONSTANTS
    Top = 3
    Written <- MCWritten
    Bases <- MCBases
    MaxParts = 3
    MaxDepth = 1
CHECK_DEADLOCK FALSE
INVARIANTS
    Denotes
    RejectedRightly
