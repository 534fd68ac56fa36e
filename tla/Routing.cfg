\* Up to three routes in any order that is not ambiguous, then requests.
CONSTANTS
    Methods = {"GET", "HEAD", "POST"}
    Patterns <- MCPatterns
    Uris <- MCUris
    HeaderNames <- MCHeaderNames
    Values = {"v1", "v2"}
    Escaped = {"v2"}
    HandlerHeaders <- MCHandlerHeaders
    MaxRoutes = 3
    MaxSize = 4
    StaticFirst = TRUE
SPECIFICATION RoutingSpec
\* A panic is the end.
CHECK_DEADLOCK FALSE
INVARIANTS
    AnswersAsRegistered
    AllowIsComplete
