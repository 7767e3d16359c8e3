SPECIFICATION FairSpec
CONSTANTS
    MaxSize = 2
    BatchSize = 2
    FlushInterval = 1
    MaxBackoff = 3
    Flushers = {"flush1"}
    Poison = {2}
    PoisonAnswer = "other"
    MaxEvents = 3
    MaxFaults = 0
    MaxRestarts = 0
PROPERTIES
    EventuallyLeaves
