SPECIFICATION Spec
CONSTANTS
    Tokens = 1
    MaxIssued = 3
    MaxFaults = 0
    MaxRestarts = 1
INVARIANTS
    LoadsOneIssue
CHECK_DEADLOCK FALSE
