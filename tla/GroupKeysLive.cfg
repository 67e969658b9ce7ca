SPECIFICATION FairSpec
CONSTANTS
    User <- Two
    Creator = 2
    FirstAdmins <- NoOneElse
    FirstMembers <- NoOneElse
    Secret = {k1}
    MaxVersion = 3
    MaxRemovals = 0
    MaxJoins = 1
    MaxFaults = 1
    Restarts = TRUE
PROPERTY OwnerGetsKey
CHECK_DEADLOCK FALSE
