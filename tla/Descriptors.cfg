\* Two fibers, a table of two descriptors, a u32 of two bits; std calls that succeed.
SPECIFICATION DescriptorsSpec
CONSTANTS
    Fiber = {f1, f2}
    MaxDescriptors = 2
    MaxHandles = 2
    U32 = 4
    Lengths = {0, 3, 4}
    StdResults = {TRUE}
SYMMETRY Symmetry
INVARIANTS
    DescriptorsTypeOK
    HandleOwnsDescriptor
    LostOnlyByCancellation
    ErrorsSurvive
    OpensAsPromised
CHECK_DEADLOCK FALSE
