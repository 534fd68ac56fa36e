\* Three fibers, two messages, no cancellation.
CONSTANTS
    MaxFibers = 3
    SqSize = 1
    Calls = {"join", "drop", "syscall"}
    OwnedParents = FALSE
    MaxMessages = 2
    CloseCalls = {"tx", "rx"}
SPECIFICATION ChannelSpec
\* A receiver waits forever if no sender ever sends, closes or ends.
CHECK_DEADLOCK FALSE
INVARIANTS
    ChannelTypeOK
    NoLostWakeup
    WakersAreReceivers
    NoSenderNobodyWaits
PROPERTIES
    IsMessageQueue
