SPECIFICATION FairSpec
CONSTANTS
    User <- Two
    Creator = 2
    FirstAdmins <- NoOneElse
    FirstMembers <- OnlyOne
    Secret = {k1}
    MaxVersion = 2
    MaxRemovals = 1
    MaxJoins = 0
    MaxFaults = 1
    Restarts = TRUE
PROPERTY OwnerGetsKey
CHECK_DEADLOCK FALSE
