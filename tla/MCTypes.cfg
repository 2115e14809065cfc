SPECIFICATION Spec
CONSTANTS
    Documents <- MCDocuments
    Builtin <- BuiltinTypes
    BuiltinRange <- BuiltinRanges
    None = None
    MaxProcess = 2
    EnumName = {"u", "v", "w"}
    MinEnum <- MCMinEnum
    MaxEnum = 2
    MaxBit = 3
    NoValue = NoValue
\* The caller may stop, and so does a panic.
CHECK_DEADLOCK FALSE
INVARIANTS
    FaultsReported
    TypesAsWritten
    RootIsSame
    EnumsAsWritten
