\* Four cells on two pages, mapped twice, and a stack of two pages; indices of
\* four bits, which wrap.  A request of 0 becomes a length of 1, one of 3 four,
\* one of 7 eight, whose double is no longer a word, and one of 14 overflows.
CONSTANTS
    Byte = {0, 1}
    Length = 4
    Word = 16
    PageSize = 2
    MaxPages = 6
    Requests = {0, 3, 7, 14}
    OtherThreads = FALSE
SPECIFICATION MemorySpec
\* A buffer that failed or is dropped is the end.
CHECK_DEADLOCK FALSE
INVARIANTS
    BufferTypeOK
    EndsAreDisjoint
    MappingsAreOwn
    LeakOnlyAfterFailure
PROPERTIES
    ConsumeErrsAtTheWrap
    IsByteStream
