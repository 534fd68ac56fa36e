\* Two operations, in every possible cut.
CONSTANTS
    ServerOperations <- MCServerOperations
    ClientOperations <- MCClientOperations
    MaxU64 = 12
    MaxSent = 2
SPECIFICATION NatsSpec
\* Everything may be sent and decoded.
CHECK_DEADLOCK FALSE
INVARIANTS
    StreamIsDecoded
    NoNeedlessWait
    ServerCanSplit
