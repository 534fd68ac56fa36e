------------------------------ MODULE Routing ------------------------------
(***************************************************************************)
(* From a request to its response: the router and its method routers       *)
(* (server/route.rs), requests, responses and bodies (payload.rs,          *)
(* mime.rs), the responder (http/mod.rs), and the two front ends, the      *)
(* FakeClient of tests (server/fake_client.rs) and the parser and          *)
(* serializer of a real connection (server/mod.rs; how its bytes arrive is *)
(* module HttpConnection).                                                 *)
(*                                                                         *)
(* A path is the sequence of its segments, "/" the empty one.  In a        *)
(* pattern ":x" stands for any one segment and a final "*x" for one or     *)
(* more.  The matcher is the matchit crate.                                *)
(***************************************************************************)
EXTENDS Integers, Sequences, FiniteSets, SequencesExt

CONSTANTS
    Methods,     \* the methods that routes and requests use
    Patterns,    \* the paths that are passed to Router::route
    Uris,        \* request targets: segments, then perhaps "?" or "#" and more
    HeaderNames, \* records of a name as written and its lower case
    Values,      \* values of headers and query parameters
    Escaped,     \* the values that are percent-encoded in a query
    HandlerHeaders, \* lists of header names, in lower case, that handlers send
    MaxRoutes,   \* bound on the calls of Router::route
    MaxSize,     \* bound on routes, and headers and parameters of a request, together
    StaticFirst  \* no route is registered under a path that another route's pattern matches

ASSUME RoutingAssumption ==
    /\ MaxRoutes \in Nat /\ MaxSize \in Nat /\ Escaped \subseteq Values /\ StaticFirst \in BOOLEAN
    /\ Patterns \subseteq Seq(STRING) /\ Uris \subseteq Seq(STRING)
    /\ HandlerHeaders \subseteq Seq(STRING)

VARIABLES
    matcher,   \* Router::matcher: the method router under each inserted path
    fallback,  \* Router::fallback
    state,     \* Router::state: whether it is Some
    asked,     \* the successful calls of Router::route
    request,   \* the request under construction or answered
    response,  \* the last response
    panicked

vars == <<matcher, fallback, state, asked, request, response, panicked>>

None == "none"
NoRequest == [front |-> None]
NoResponse == [by |-> <<>>]

\* Handlers: one for each call of route, and two of the router's own.
NoHandler == <<>>
MethodNotAllowed == <<"405">>
TheFallback == <<"fallback">>

-----------------------------------------------------------------------------
\* The matcher

\* Whether a pattern of the matcher accepts a path.
Accepts(pattern, path) ==
    LET n == Len(pattern)
        agree(i) == pattern[i] \in {":x", "*x"} \/ pattern[i] = path[i]
    IN  /\ IF n > 0 /\ pattern[n] = "*x" THEN Len(path) >= n ELSE Len(path) = n
        /\ \A i \in 1 .. n : agree(i)

\* Static segments go before parameters, parameters before the rest.
Rank(segment) == CASE segment = ":x" -> 1 [] segment = "*x" -> 2 [] OTHER -> 0

Precedes(p, q) ==
    \E i \in DOMAIN p \cap DOMAIN q :
        /\ SubSeq(p, 1, i - 1) = SubSeq(q, 1, i - 1)
        /\ Rank(p[i]) < Rank(q[i])

\* The best of the patterns that accept a path, as the set of it.
Best(patterns, path) ==
    LET accepting == {p \in patterns : Accepts(p, path)}
    IN  {p \in accepting : \A q \in accepting \ {p} : Precedes(p, q)}

\* matchit::Router::at and at_mut
At(path) == Best(DOMAIN matcher, path)

\* matchit::Router::insert fails for a path that is there, and where a parameter
\* and a rest would meet.
Conflicts(path) ==
    \/ path \in DOMAIN matcher
    \/ \E p \in DOMAIN matcher : \E i \in DOMAIN p \cap DOMAIN path :
          /\ SubSeq(p, 1, i - 1) = SubSeq(path, 1, i - 1)
          /\ {Rank(p[i]), Rank(path[i])} = {1, 2}

-----------------------------------------------------------------------------
\* The method router

\* MethodRouter::new
NewMethodRouter ==
    [handlers |-> [m \in Methods |-> NoHandler], allowed_methods |-> <<>>, other_method_allowed |-> <<>>]

\* (mutant) the handler of 405 keeps the list it was first made with.
MutAppendAllowedMethod(mr, names) ==
    LET allowed == mr.allowed_methods \o names
    IN  [mr EXCEPT !.allowed_methods = allowed,
                   !.other_method_allowed = IF @ = <<>> THEN allowed ELSE @]

\* MethodRouter::append_allowed_method, whose handler owns a copy of the list
AppendAllowedMethod(mr, names) ==
    LET allowed == mr.allowed_methods \o names
    IN  [mr EXCEPT !.allowed_methods = allowed, !.other_method_allowed = allowed]

\* MethodRouter::set and the nine setters, after their assertion.  The handler
\* that HEAD would derive from GET is never set.
SetMethod(mr, method, handler) ==
    AppendAllowedMethod([mr EXCEPT !.handlers[method] = handler],
                        IF method = "GET" THEN <<"GET", "HEAD">> ELSE <<method>>)

\* MethodRouter::handle, which never returns None once a method is set
MethodHandle(mr, method) ==
    IF mr.handlers[method] # NoHandler
    THEN [handler |-> mr.handlers[method], allow |-> <<>>]
    ELSE [handler |-> MethodNotAllowed, allow |-> mr.other_method_allowed]

-----------------------------------------------------------------------------
\* Building the router

\* Router::new
RoutingInit ==
    /\ matcher = <<>>
    /\ fallback = "default"
    /\ state = FALSE
    /\ asked = {}
    /\ request = NoRequest
    /\ response = NoResponse
    /\ panicked = FALSE

\* (mutant) an unknown path replaces what the matcher has.
MutRoute(method, path) ==
    /\ ~panicked /\ ~state
    /\ Cardinality(asked) < MaxRoutes
    /\ <<method, path>> \notin asked
    /\ StaticFirst => At(path) \subseteq {path}
    /\ matcher' = [p \in DOMAIN matcher \cup {path} |->
                     IF p = path THEN SetMethod(NewMethodRouter, method, <<method, path>>) ELSE matcher[p]]
    /\ asked' = asked \cup {<<method, path>>}
    /\ UNCHANGED <<fallback, state, request, response, panicked>>

\* Router::route: the path of the route is looked up like the path of a
\* request; a method that is taken and a path that conflicts panic.
Route(method, path) ==
    /\ ~panicked /\ ~state
    /\ Cardinality(asked) < MaxRoutes
    /\ StaticFirst => At(path) \subseteq {path}
    /\ LET found == At(path)
           into == IF found # {} THEN found ELSE {path}
           taken == \E p \in found : matcher[p].handlers[method] # NoHandler
       IN  IF taken \/ (found = {} /\ Conflicts(path))
           THEN /\ panicked' = TRUE
                /\ UNCHANGED <<matcher, asked>>
           ELSE /\ matcher' = [p \in DOMAIN matcher \cup into |->
                                 LET mr == IF p \in DOMAIN matcher THEN matcher[p] ELSE NewMethodRouter
                                 IN  IF p \in into THEN SetMethod(mr, method, <<method, path>>) ELSE mr]
                /\ asked' = asked \cup {<<method, path>>}
                /\ UNCHANGED panicked
    /\ UNCHANGED <<fallback, state, request, response>>

\* Router::fallback
Fallback ==
    /\ ~panicked /\ ~state
    /\ fallback' = "custom"
    /\ UNCHANGED <<matcher, state, asked, request, response, panicked>>

\* Router::with_state, from FakeClient::new or serve, which take the router
WithState ==
    /\ ~panicked /\ ~state
    /\ state' = TRUE
    /\ UNCHANGED <<matcher, fallback, asked, request, response, panicked>>

-----------------------------------------------------------------------------
\* Requests

\* Method::from_str knows the nine methods.
KnownMethods == {"GET", "POST", "HEAD", "PUT", "DELETE", "CONNECT", "OPTIONS", "TRACE", "PATCH"}

\* parse_partial_uri and parse_query: the path ends at the first "?" or "#", the
\* query at the next "#"; a character that is not allowed before that panics.
ParsePartialUri(uri) ==
    LET until(s, stops) == LET i == SelectInSeq(s, LAMBDA c : c \in stops)
                           IN  IF i = 0 THEN Len(s) ELSE i - 1
        n == until(uri, {"?", "#"})
        rest == IF n < Len(uri) /\ uri[n + 1] = "?" THEN SubSeq(uri, n + 2, Len(uri)) ELSE <<>>
        path == SubSeq(uri, 1, n)
        query == SubSeq(rest, 1, until(rest, {"#"}))
    IN  [path |-> path, query |-> query, valid |-> \A c \in ToSet(path \o query) : c # "bad"]

\* Request::headers and Request::header: a map from lower case names, filled in
\* the order of the headers
RequestHeader(headers, name) ==
    LET i == SelectLastInSeq(headers, LAMBDA h : h.name.lower = name)
    IN  IF i = 0 THEN None ELSE headers[i].value

\* Request::query_params and Request::query: a map of borrowed strings, so that
\* decoding an escaped value fails and the unwrap panics
QueryParam(query) ==
    CASE query = <<>>                                      -> None
      [] query # <<>> /\ ToSet(query) \cap Escaped # {}   -> "panic"
      [] query # <<>> /\ ToSet(query) \cap Escaped = {}   -> Last(query)

\* FakeClient::request and its nine short forms: the path is taken as it is.
\* On a connection httparse finds method and target, and both may be unknown.
NewRequest(front, method, uri) ==
    /\ ~panicked /\ state
    /\ request = NoRequest
    /\ front = "fake" => method \in KnownMethods
    /\ LET parsed == IF front = "wire" THEN ParsePartialUri(uri)
                     ELSE [path |-> uri, query |-> <<>>, valid |-> TRUE]
       IN  /\ request' = [front |-> front, method |-> method, path |-> parsed.path,
                          query |-> parsed.query, headers |-> <<>>]
           /\ panicked' = ~(method \in KnownMethods /\ parsed.valid)
    /\ UNCHANGED <<matcher, fallback, state, asked, response>>

\* FakeRequestBuilder::query
AddQuery(value) ==
    /\ ~panicked /\ request.front = "fake" /\ response = NoResponse
    /\ Cardinality(asked) + Len(request.query) + Len(request.headers) < MaxSize
    /\ request' = [request EXCEPT !.query = Append(@, value)]
    /\ UNCHANGED <<matcher, fallback, state, asked, response, panicked>>

\* FakeRequestBuilder::header, or a header line
AddHeader(name, value) ==
    /\ ~panicked /\ request.front # None /\ response = NoResponse
    /\ Cardinality(asked) + Len(request.query) + Len(request.headers) < MaxSize
    /\ request' = [request EXCEPT !.headers = Append(@, [name |-> name, value |-> value])]
    /\ UNCHANGED <<matcher, fallback, state, asked, response, panicked>>

-----------------------------------------------------------------------------
\* Responses

\* AsBody::content_type
ContentType(kind) ==
    CASE kind = "unit"       -> None
      [] kind = "str"        -> "text/plain"
      [] kind = "bytes"      -> "application/octet-stream"
      [] kind = "Html"       -> "text/html; charset=utf-8"
      [] kind = "JavaScript" -> "text/javascript"
      [] kind = "Css"        -> "text/css"
      [] kind = "Png"        -> "image/png"
      [] kind = "Woff2"      -> "font/woff2"

\* Responder::new, status, header and send: the status is Ok unless it is set.
\* by, a copy of who answers, and allow, the value of the header of that name,
\* are for the properties.
Reply(by, status, headers, kind, body) ==
    [by |-> by, status |-> status, headers |-> headers, content_type |-> ContentType(kind),
     body |-> body, allow |-> <<>>]

\* What a registered handler may do: set the status, push headers of any names,
\* repeated ones and those of the serializer too, and send nothing, a header of
\* the request or a parameter.
Replies(handler) ==
    {Reply(handler, status, headers, content[1], content[2]) :
        status \in {"Ok", "Accepted"}, headers \in HandlerHeaders,
        content \in {<<"unit", None>>, <<"bytes", RequestHeader(request.headers, "foo")>>,
                     <<"str", QueryParam(request.query)>>}}

\* Router::handle: the handler of the method, the 405 of the path, or the
\* fallback (404 unless it was replaced).
Handle(path, method) ==
    LET found == At(path) IN
    IF found = {}
    THEN {Reply(TheFallback, IF fallback = "default" THEN "NotFound" ELSE "Forbidden", <<>>, "unit", None)}
    ELSE LET h == MethodHandle(matcher[CHOOSE p \in found : TRUE], method) IN
         IF h.handler = MethodNotAllowed
         THEN {[Reply(MethodNotAllowed, "MethodNotAllowed", <<"allow">>, "unit", None) EXCEPT !.allow = h.allow]}
         ELSE Replies(h.handler)

\* The assertions of serialize on the headers of the handler.
Refused(reply) ==
    \E i \in DOMAIN reply.headers : reply.headers[i] \in {"content-length", "content-type", "date"}

\* The headers serialize writes before the handler's own.
Preamble(reply) ==
    <<"content-length">>
    \o (IF reply.content_type = None THEN <<>> ELSE <<"content-type">>)
    \o <<"date", "connection">>

\* FakeRequestBuilder::send, or handle_connection up to the response: the
\* handler runs and sends.  The channel and the two copies of the fake response
\* leave it as it is, serialize adds headers and panics on its own names.
Send ==
    /\ ~panicked /\ request.front # None /\ response = NoResponse
    /\ \E reply \in Handle(request.path, request.method) :
          IF reply.body = "panic" \/ (request.front = "wire" /\ Refused(reply))
          THEN panicked' = TRUE /\ UNCHANGED response
          ELSE /\ response' = IF request.front = "fake" THEN reply
                              ELSE [reply EXCEPT !.headers = Preamble(reply) \o @]
               /\ UNCHANGED panicked
    /\ UNCHANGED <<matcher, fallback, state, asked, request>>

\* A handler that drops its Responder: recv finds no Sender and send panics;
\* on a connection nothing is written.
Silent ==
    /\ ~panicked /\ request.front # None /\ response = NoResponse
    /\ \E reply \in Handle(request.path, request.method) : reply.by \notin {MethodNotAllowed, TheFallback}
    /\ panicked' = (request.front = "fake")
    /\ request' = IF request.front = "fake" THEN request ELSE NoRequest
    /\ UNCHANGED <<matcher, fallback, state, asked, response>>

\* The response borrows the client until it is dropped; a connection ends.
DropResponse ==
    /\ response # NoResponse
    /\ request' = NoRequest
    /\ response' = NoResponse
    /\ UNCHANGED <<matcher, fallback, state, asked, panicked>>

RoutingNext ==
    \/ \E m \in Methods, p \in Patterns : Route(m, p)
    \/ Fallback
    \/ WithState
    \/ \E front \in {"fake", "wire"}, m \in Methods \cup {"BREW"}, uri \in Uris : NewRequest(front, m, uri)
    \/ \E v \in Values : AddQuery(v)
    \/ \E n \in HeaderNames, v \in Values : AddHeader(n, v)
    \/ Send
    \/ Silent
    \/ DropResponse

RoutingSpec == RoutingInit /\ [][RoutingNext]_vars

-----------------------------------------------------------------------------
\* Properties

\* Who should answer: of all registered paths the best for the request, with
\* its method; not the state of the matcher but the calls of route decide.
Expected ==
    LET paths == {a[2] : a \in asked}
        best == Best(paths, request.path)
        handler == {<<request.method, p>> : p \in best}
    IN  CASE best = {}                           -> TheFallback
          [] best # {} /\ handler \subseteq asked    -> CHOOSE h \in handler : TRUE
          [] best # {} /\ ~(handler \subseteq asked) -> MethodNotAllowed

\* HEAD for a path that has a route for GET and none for HEAD.
HeadOfGet ==
    /\ request.method = "HEAD" /\ Expected = MethodNotAllowed
    /\ \E p \in Best({a[2] : a \in asked}, request.path) : <<"GET", p>> \in asked

\* Every request is answered by the route that was registered for it, whatever
\* was registered before and after it (the test prioritizes_static_over_dynamic_route
\* registers the general one first; StaticFirst excludes that order).  HeadOfGet is
\* left out: the ignored test head_defers_to_get and the comment on Method::Head
\* promise the answer to GET without its body, and the router answers 405.
AnswersAsRegistered == response # NoResponse /\ ~HeadOfGet => response.by = Expected

\* The allow header of a 405 lists every method registered under the path,
\* with HEAD next to GET (the test returns_405_when_wrong_method), although the
\* handler that sends it was made before the last of them was registered.  No
\* method is listed twice, except HEAD when it is registered next to GET.
AllowIsComplete ==
    response # NoResponse /\ response.by = MethodNotAllowed =>
        LET registered == {a[1] : a \in {a \in asked : a[2] \in Best({b[2] : b \in asked}, request.path)}}
        IN  /\ ToSet(response.allow) = registered \cup (IF "GET" \in registered THEN {"HEAD"} ELSE {})
            /\ \A i, j \in DOMAIN response.allow :
                  i # j /\ response.allow[i] = response.allow[j] =>
                      response.allow[i] = "HEAD" /\ {"GET", "HEAD"} \subseteq registered

=============================================================================
