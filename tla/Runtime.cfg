\* Every call of the API, three fibers, a submission queue of two entries.
CONSTANTS
    MaxFibers = 3
    SqSize = 2
    Calls = {"spawn", "move", "give", "join", "cancel", "propagate", "cancel_self", "drop", "forget", "yield", "syscall", "panic"}
    OwnedParents = FALSE
SPECIFICATION Spec
CHECK_DEADLOCK FALSE
INVARIANTS
    TypeOK
    NoDanglingIndex
    ParentOutlivesChildren
    WakeupsJustified
    NobodyOversleeps
    ExactlyOneCompletion
    AsyncCancelHitsOwner
    StacksConserved
    LeakFree
    QuietExit
    StandstillIsCircle
PROPERTIES
    IsFiberTree
