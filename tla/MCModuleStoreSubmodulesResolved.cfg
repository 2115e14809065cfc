SPECIFICATION Spec
CONSTANTS
    Name <- MCName
    Rev = {1, 2}
    NoRev = 0
    Namespace = {"x", "y"}
    Text <- MCText
    Disk <- MCDisk
    None = None
    MaxCalls = 3
CHECK_DEADLOCK FALSE
INVARIANT SubmodulesResolved
