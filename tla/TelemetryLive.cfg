SPECIFICATION FairSpec
CONSTANTS
    MaxSize = 2
    BatchSize = 2
    FlushInterval = 1
    MaxBackoff = 3
    Flushers = {"flush1"}
    Poison = {2}
    PoisonAnswer = "bad"
    MaxEvents = 3
    MaxFaults = 1
    MaxRestarts = 1
INVARIANTS
    QueueBound
PROPERTIES
    EventuallyLeaves
    ShutdownEnds
