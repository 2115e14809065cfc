SPECIFICATION FairSpec
CONSTANTS
    Name <- MCName
    Rev = {1, 2}
    NoRev = 0
    Namespace = {"x", "y"}
    Text <- MCText
    Disk <- MCDisk
    None = None
    MaxCalls = 4
CHECK_DEADLOCK FALSE
INVARIANTS
    BareNameIsLatest
    ClosureResolved
    StackIsPath
PROPERTIES
    CallReturns
