SPECIFICATION FairSpec
CONSTANTS
    m = m
    m2 = m2
    a = a
    b = b
    c = c
    None = None
    Submodule <- ThreeSubmodules
    NameOf <- Names
    OwnerOf <- Owners
    Module <- OneModule
    Graphs <- OneGraphs
    MaxRuns = 2
CHECK_DEADLOCK FALSE
INVARIANTS
    ModuleComplete
    NoDuplicate
    CircularSound
PROPERTIES
    ProcessEnds
