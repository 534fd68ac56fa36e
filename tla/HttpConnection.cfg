\* Server, stopper, one handler at a time with its reader; a buffer of two bytes,
\* a peer that sends up to three (so that the buffer can fill up); peers and
\* operations that may take for ever.
CONSTANTS
    MaxFibers = 4
    SqSize = 4
    Calls = {}
    OwnedParents = TRUE
    MaxConnections = 1
    Capacity = 2
    MaxBytes = 3
    MaxBody = 1
    LowestKeys = TRUE
    Kinds = {"answer", "invalid", "panic"}
SPECIFICATION HttpLiveSpec
INVARIANTS
    HttpTypeOK
    NoMissedRequest
    WakerIsCurrent
PROPERTIES
    RequestsAnswered
    ServerStops
