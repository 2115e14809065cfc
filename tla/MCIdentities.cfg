SPECIFICATION Spec
CONSTANTS
    Key <- MCKey
    Identity <- MCIdentity
    Module <- MCModule
    None = None
    MaxProcess = 2
CHECK_DEADLOCK FALSE
INVARIANTS
    Complete
    Sound
    MissingReported
PROPERTY ValuesOnlyGrow
