\* Three fibers, one message, and a receiver that is cancelled.
CONSTANTS
    MaxFibers = 3
    SqSize = 1
    Calls = {"cancel", "drop", "yield"}
    OwnedParents = FALSE
    MaxMessages = 1
    CloseCalls = {}
SPECIFICATION ChannelSpec
CHECK_DEADLOCK FALSE
INVARIANT NoLostWakeup
