\* Reordering, loss, one repeated delivery, and both caps reached.
CONSTANTS
    MaxSkip = 2
    MaxSkippedKeys = 2
    MaxSends <- Sends
    MaxRedeliveries = 1
SPECIFICATION Spec
INVARIANT TypeOK
INVARIANT FirstDeliveryDecrypts
INVARIANT ForwardSecrecy
INVARIANT MessageKeysDistinct
INVARIANT AcceptedAtMostOnce
INVARIANT SkippedKeysBounded
CHECK_DEADLOCK FALSE
