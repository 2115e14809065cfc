SPECIFICATION FairSpec
CONSTANTS
    Mod = {"m", "n", "s"}
    None = None
    Base <- MCBase
    Aug <- MCAug
    Target <- MCTarget
    Adds <- MCAdds
    Bad <- MCBad
    Orders <- MCOrders
    Written <- MCWritten
CHECK_DEADLOCK FALSE
INVARIANTS
    Confluent
    UnappliedReported
PROPERTIES
    InOrder
    ProcessEnds
    ChoicesFixed
