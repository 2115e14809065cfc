SPECIFICATION Spec
CONSTANTS
    None = None
    Bad = Bad
    Unbounded = 99
    Documents <- MCDocuments
CHECK_DEADLOCK FALSE
INVARIANTS
    TreeAsWritten
    GroupingsFound
    FaultsReported
    AsDeviated
    FailuresReported
