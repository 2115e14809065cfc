SPECIFICATION Spec
CONSTANTS
    Documents <- MCDocuments
    Prefixed <- MCPrefixed
CHECK_DEADLOCK FALSE
INVARIANTS
    Accepts
    BuiltIsLegal
    
