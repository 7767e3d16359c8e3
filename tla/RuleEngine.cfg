SPECIFICATION Spec
CONSTANTS
    AnyTool = AnyTool
    Null = Null
    RuleSet <- SmallRules
    Requests <- SmallRequests
    MaxRules = 3
INVARIANTS
    DenyHasTheSay
    NoGroundlessAllow
    ListingDoesNotMatter
