\* One initiator: live traffic and history decryption, with process deaths and
\* failing saves at every await, and evictions.
CONSTANTS
    MaxSkip = 4
    MaxSkippedKeys = 8
    Initiators = {"alice"}
    HistoryOf = {"sent", "accepted", "failed"}
    MaxSends = 2
    MaxIncidents = 2
    MaxHistory = 1
SPECIFICATION Spec
INVARIANT TypeOK
INVARIANT WireKeysDistinct
 
CHECK_DEADLOCK FALSE
