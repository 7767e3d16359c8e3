SPECIFICATION Spec
CONSTANTS
    a = a
    b = b
    Names = {a, b}
    None = None
    agent = agent
    Enforce = enforce
    other = other
    Clients <- OneClient
    Scopes <- TwoScopes
    Listings <- SmallListings
    MultiModes = {TRUE, FALSE}
    FailModes = {"open", "closed"}
    TTL = 2
    Threshold = 1
    MaxAnswers = 2
    MaxClock = 3
    MaxTokens = 1
    MaxRestarts = 1
SYMMETRY TwoNames
INVARIANTS
    GrantBehindDecision
    AllowIsRecent
CHECK_DEADLOCK FALSE
