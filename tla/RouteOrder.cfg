\* Routes in any order.
CONSTANTS
    Methods = {"GET", "HEAD", "POST"}
    Patterns <- MCPatterns
    Uris <- MCUris
    HeaderNames <- MCHeaderNames
    Values = {"v1", "v2"}
    Escaped = {"v2"}
    HandlerHeaders <- MCHandlerHeaders
    MaxRoutes = 2
    MaxSize = 2
    StaticFirst = FALSE
SPECIFICATION RoutingSpec
\* A panic is the end.
CHECK_DEADLOCK FALSE
INVARIANTS
    AnswersAsRegistered
