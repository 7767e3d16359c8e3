SPECIFICATION Spec
CONSTANTS
    MaxSize = 3
    BatchSize = 2
    FlushInterval = 1
    MaxBackoff = 3
    Flushers = {"flush1"}
    Poison = {1}
    PoisonAnswer = "bad"
    MaxEvents = 3
    MaxFaults = 2
    MaxRestarts = 1
INVARIANTS
    TypeOK
    NoSilentLoss
    InOrder
    StableIds
    CleanDrain
PROPERTIES
    OnlyShippingCalms
    KeepsAuditLog
