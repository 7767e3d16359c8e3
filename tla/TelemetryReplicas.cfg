SPECIFICATION FairSpec
CONSTANTS
    Pods = {p, q}
    MaxSize = 1
    BatchSize = 2
    Poison = {2}
    MaxEvents = 4
    MaxFaults = 2
    MaxCrashes = 1
INVARIANTS
    SharedBound
    LossNeedsRotation
    OldestFirst
PROPERTIES
    KeepsAuditLog
    AnyPodShips
CHECK_DEADLOCK FALSE
