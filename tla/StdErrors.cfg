\* As Descriptors, with std calls that may fail.
SPECIFICATION DescriptorsSpec
CONSTANTS
    Fiber = {f1, f2}
    MaxDescriptors = 2
    MaxHandles = 2
    U32 = 4
    Lengths = {0, 3, 4}
    StdResults = {TRUE, FALSE}
SYMMETRY Symmetry
INVARIANTS
    HandleOwnsDescriptor
CHECK_DEADLOCK FALSE
