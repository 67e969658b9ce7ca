\* A backlog larger than one connection replays and than the queue, and one
\* overlapping connection, fault or restart.
SPECIFICATION FairSpec
PROPERTY EventuallyHanded
CONSTANTS
    d1 = d1
    Device = {d1}
    Conn = {c1, c2}
    NoConn = NoConn
    NMsg = 2
    Targets <- Plain
    Cap = 1
    KickAt = 2
    PageSize = 1
    MaxIterations = 1
    MaxIncidents = 1
CHECK_DEADLOCK FALSE
