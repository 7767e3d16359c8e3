SPECIFICATION FairSpec
CONSTANTS
    Tokens = 2
    MaxIssued = 4
    MaxFaults = 2
    MaxRestarts = 2
INVARIANTS
    TypeOK
    OneIdentity
    StaysAccepted
    TokensVerify
PROPERTIES
    RevocationNoticed
    RevocationTold
    KeepsOneCredential
CHECK_DEADLOCK FALSE
