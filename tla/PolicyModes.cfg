SPECIFICATION Spec
CONSTANTS
    Names = {"a", "b"}
    None = None
    MultiModes = {TRUE, FALSE}
    OldGateway = TRUE
    OldLegacy = {"a"}
    MintMayRaise = TRUE
    Threshold = 0
    MaxRevisions = 3
    MaxClock = 1
    MaxFaults = 1
    MaxRestarts = 1
INVARIANTS
    TypeOK
    PrimaryResolves
    ServesOneCatalog
    FreshMeansFetched
    RestartServesLastSync
PROPERTIES
    NeverBackwards
CHECK_DEADLOCK FALSE
