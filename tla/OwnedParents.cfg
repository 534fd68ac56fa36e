\* A closure may return before its children although its handle is owned.
CONSTANTS
    MaxFibers = 3
    SqSize = 1
    Calls = {"spawn", "join", "drop", "yield"}
    OwnedParents = TRUE
SPECIFICATION Spec
CHECK_DEADLOCK FALSE
INVARIANT ParentOutlivesChildren
