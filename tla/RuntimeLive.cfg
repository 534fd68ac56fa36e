\* Three fibers, operations that end by themselves or only when cancelled, at
\* most seven calls.
CONSTANTS
    MaxFibers = 3
    SqSize = 2
    Calls = {"spawn", "cancel", "propagate", "yield", "syscall", "panic"}
    OwnedParents = FALSE
    Fuel = 7
SPECIFICATION LiveSpec
PROPERTIES
    Terminates
    CancelledFibersEnd
