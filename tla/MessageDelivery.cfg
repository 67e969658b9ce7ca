\* Handlers of the device that overlap, another frame competing for the queue, a
\* dying socket, a failing database call or a restart; a message with and one
\* without per-device ciphertexts.
SPECIFICATION Spec
SYMMETRY ConnSymmetry
INVARIANT TypeOK
INVARIANT NoDeadRegistration
INVARIANT RecordedNotLost
PROPERTY ContractSpec
CONSTANTS
    d1 = d1
    Device = {d1}
    Conn = {c1, c2}
    NoConn = NoConn
    NMsg = 2
    Targets <- Mixed
    Cap = 1
    KickAt = 2
    PageSize = 1
    MaxIterations = 2
    MaxIncidents = 1
CHECK_DEADLOCK FALSE
