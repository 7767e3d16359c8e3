SPECIFICATION LifespanFairSpec
CONSTANTS
    Tokens = 2
    MaxIssued = 3
    MaxFaults = 1
    MaxRestarts = 1
    MaxLost = 1
INVARIANTS
    SyncOutlivesRotation
    ReadyMeansAccepted
PROPERTIES
    BecomesReady
    LifespanEnds
    KeepsIdentity
CHECK_DEADLOCK FALSE
