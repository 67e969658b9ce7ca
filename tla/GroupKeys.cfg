SPECIFICATION Spec
SYMMETRY Secrets
CONSTANTS
    User <- Two
    Creator = 2
    FirstAdmins <- NoOneElse
    FirstMembers <- OnlyOne
    Secret = {k1, k2}
    MaxVersion = 2
    MaxRemovals = 1
    MaxJoins = 0
    MaxFaults = 1
    Restarts = FALSE
INVARIANT TypeOK
INVARIANT KeyAgreement
PROPERTY VersionWrittenOnce
CHECK_DEADLOCK FALSE
