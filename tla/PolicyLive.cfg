SPECIFICATION TurnsFairSpec
CONSTANTS
    Names = {"a", "b"}
    None = None
    MultiModes = {TRUE, FALSE}
    OldGateway = FALSE
    OldLegacy = {"a"}
    MintMayRaise = FALSE
    Threshold = 0
    MaxRevisions = 3
    MaxClock = 0
    MaxFaults = 2
    MaxRestarts = 1
PROPERTIES
    KeepsTurns
    Converges
