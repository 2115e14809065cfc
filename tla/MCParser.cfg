SPECIFICATION Spec
CONSTANTS
    Text <- MCText
    Pattern <- MCPattern
    MaxErrors = 2
    TabStop = 3
CHECK_DEADLOCK FALSE
INVARIANTS
    InOrder
    StringText
    PatternMode
    Accepts
    TreeIsText
PROPERTIES
    ParseEnds
