--------------------------- MODULE RoutingProofs ---------------------------
(***************************************************************************)
(* The router, for any routes, registered in any order in which none is    *)
(* registered under a path that the pattern of another matches             *)
(* (StaticFirst), and for any requests.                                    *)
(*                                                                         *)
(* The state of the matcher is compared with the calls of Router::route:   *)
(* RouterOK says that it has exactly the paths that were registered, and   *)
(* under each of them the handlers of that path and the list of their      *)
(* methods.  What a request is answered with follows from that and from    *)
(* the fact that at most one pattern is the best for a path.               *)
(***************************************************************************)
EXTENDS Routing, TLAPS

Registered == {a[2] : a \in asked}
MethodsAt(p) == {m \in Methods : <<m, p>> \in asked}
Names(S) == S \cup (IF "GET" \in S THEN {"HEAD"} ELSE {})

\* A list of methods in which only those of D occur more than once.
OnceEach(list, D) == \A i, j \in DOMAIN list : i # j /\ list[i] = list[j] => list[i] \in D

\* The methods that a path with the methods S may list twice.
Twice(S) == IF {"GET", "HEAD"} \subseteq S THEN {"HEAD"} ELSE {}

MethodRouters ==
    [handlers : [Methods -> (Methods \X Patterns) \cup {NoHandler}],
     allowed_methods : Seq(Methods \cup {"HEAD"}), other_method_allowed : Seq(Methods \cup {"HEAD"})]

\* What is in the matcher under path p.
PathOK(p) ==
    /\ matcher[p] \in MethodRouters
    /\ \A m \in Methods :
           matcher[p].handlers[m] = IF <<m, p>> \in asked THEN <<m, p>> ELSE NoHandler
    /\ ToSet(matcher[p].allowed_methods) = Names(MethodsAt(p))
    /\ OnceEach(matcher[p].allowed_methods, Twice(MethodsAt(p)))
    /\ matcher[p].other_method_allowed = matcher[p].allowed_methods

RouterOK ==
    /\ asked \subseteq Methods \X Patterns
    /\ DOMAIN matcher = Registered
    /\ \A p \in Registered : PathOK(p)

WholeRequest ==
    \E front, method, path, query, headers :
        request = [front |-> front, method |-> method, path |-> path, query |-> query,
                   headers |-> headers]

\* A request exists only when the router is complete, and a response only with
\* its request.
Order ==
    /\ request.front # None => state /\ WholeRequest
    /\ request.front # None /\ ~panicked => request.method \in Methods
    /\ response # NoResponse => request.front # None

RoutingInv == RouterOK /\ Order /\ AnswersAsRegistered /\ AllowIsComplete

-----------------------------------------------------------------------------
(* The matcher. *)

\* Of two patterns at most one goes before the other.
LEMMA PrecedesAsymmetric ==
    ASSUME NEW p \in Seq(STRING), NEW q \in Seq(STRING), Precedes(p, q) PROVE ~Precedes(q, p)
  <1> SUFFICES ASSUME Precedes(q, p) PROVE FALSE
    OBVIOUS
  <1>1. PICK i \in DOMAIN p \cap DOMAIN q :
            SubSeq(p, 1, i - 1) = SubSeq(q, 1, i - 1) /\ Rank(p[i]) < Rank(q[i])
    BY DEF Precedes
  <1>2. PICK j \in DOMAIN p \cap DOMAIN q :
            SubSeq(q, 1, j - 1) = SubSeq(p, 1, j - 1) /\ Rank(q[j]) < Rank(p[j])
    BY DEF Precedes
  <1>3. ASSUME NEW r \in Seq(STRING), NEW s \in Seq(STRING), NEW k \in DOMAIN r \cap DOMAIN s,
               SubSeq(r, 1, k - 1) = SubSeq(s, 1, k - 1), NEW l \in DOMAIN r \cap DOMAIN s, l < k
        PROVE  r[l] = s[l]
    <2>1. SubSeq(r, 1, k - 1)[l] = r[l]
      BY <1>3
    <2>2. SubSeq(s, 1, k - 1)[l] = s[l]
      BY <1>3
    <2> QED
      BY <1>3, <2>1, <2>2
  <1>4. \A x, y : Rank(x) < Rank(y) => x # y /\ ~(Rank(y) < Rank(x))
    <2>1. \A x : Rank(x) \in {0, 1, 2}
      BY DEF Rank
    <2> QED
      BY <2>1
  <1>5. i \in Nat /\ j \in Nat
    OBVIOUS
  <1>6. ~(i < j)
    BY <1>1, <1>2, <1>3, <1>4
  <1>7. ~(j < i)
    BY <1>1, <1>2, <1>3, <1>4
  <1>8. i = j
    BY <1>5, <1>6, <1>7
  <1> QED
    BY <1>1, <1>2, <1>4, <1>8

\* At most one pattern is the best for a path.
LEMMA BestIsUnique ==
    ASSUME NEW S \in SUBSET Patterns, NEW path
    PROVE  Best(S, path) \subseteq S /\ \A p, q \in Best(S, path) : p = q
  <1>1. Best(S, path) \subseteq S
    BY DEF Best
  <1>2. ASSUME NEW p \in Best(S, path), NEW q \in Best(S, path), p # q PROVE FALSE
    <2>1. Precedes(p, q) /\ Precedes(q, p)
      BY <1>2 DEF Best
    <2>2. p \in Seq(STRING) /\ q \in Seq(STRING)
      BY <1>1, RoutingAssumption
    <2> QED
      BY <2>1, <2>2, PrecedesAsymmetric
  <1> QED
    BY <1>1, <1>2

-----------------------------------------------------------------------------
(* The method router. *)

\* A list that is appended to.
LEMMA ConcatSet ==
    ASSUME NEW T, NEW s \in Seq(T), NEW t \in Seq(T)
    PROVE  s \o t \in Seq(T) /\ ToSet(s \o t) = ToSet(s) \cup ToSet(t)
  <1>1. /\ s \o t \in Seq(T) /\ DOMAIN (s \o t) = 1 .. Len(s) + Len(t)
        /\ \A k \in 1 .. Len(s) : (s \o t)[k] = s[k]
        /\ \A k \in 1 .. Len(t) : (s \o t)[Len(s) + k] = t[k]
        /\ \A k \in 1 .. Len(s) + Len(t) :
               k \in 1 .. Len(s) \/ \E l \in 1 .. Len(t) : k = Len(s) + l
    <2>1. ASSUME NEW k \in 1 .. Len(s) + Len(t), k \notin 1 .. Len(s)
          PROVE  \E l \in 1 .. Len(t) : k = Len(s) + l
      <3>1. k - Len(s) \in 1 .. Len(t) /\ k = Len(s) + (k - Len(s))
        BY <2>1
      <3> QED
        BY <3>1
    <2> QED
      BY <2>1
  <1>2. \A k \in 1 .. Len(s) : k \in 1 .. Len(s) + Len(t)
    OBVIOUS
  <1>3. \A l \in 1 .. Len(t) : Len(s) + l \in 1 .. Len(s) + Len(t)
    OBVIOUS
  <1>4. /\ DOMAIN s = 1 .. Len(s) /\ DOMAIN t = 1 .. Len(t)
    OBVIOUS
  <1>5. ASSUME NEW x \in ToSet(s \o t) PROVE x \in ToSet(s) \cup ToSet(t)
    <2>1. PICK k \in 1 .. Len(s) + Len(t) : x = (s \o t)[k]
      BY <1>1 DEF ToSet
    <2>2. CASE k \in 1 .. Len(s)
      BY <1>1, <1>4, <2>1, <2>2 DEF ToSet
    <2>3. CASE \E l \in 1 .. Len(t) : k = Len(s) + l
      BY <1>1, <1>4, <2>1, <2>3 DEF ToSet
    <2> QED
      BY <1>1, <2>2, <2>3
  <1>6. ToSet(s) \subseteq ToSet(s \o t)
    BY <1>1, <1>2, <1>4 DEF ToSet
  <1>7. ToSet(t) \subseteq ToSet(s \o t)
    BY <1>1, <1>3, <1>4 DEF ToSet
  <1> QED
    BY <1>1, <1>5, <1>6, <1>7

\* A list that is appended to repeats only what either part repeats or both have.
LEMMA ConcatOnce ==
    ASSUME NEW T, NEW s \in Seq(T), NEW t \in Seq(T), NEW D,
           OnceEach(s, D), OnceEach(t, D), ToSet(s) \cap ToSet(t) \subseteq D
    PROVE  OnceEach(s \o t, D)
  <1> SUFFICES ASSUME NEW i \in DOMAIN (s \o t), NEW j \in DOMAIN (s \o t), i # j,
                      (s \o t)[i] = (s \o t)[j]
               PROVE  (s \o t)[i] \in D
    BY DEF OnceEach
  <1>1. /\ DOMAIN (s \o t) = 1 .. Len(s) + Len(t)
        /\ DOMAIN s = 1 .. Len(s) /\ DOMAIN t = 1 .. Len(t)
        /\ \A k \in 1 .. Len(s) + Len(t) :
               IF k \in 1 .. Len(s) THEN (s \o t)[k] = s[k]
               ELSE k - Len(s) \in 1 .. Len(t) /\ (s \o t)[k] = t[k - Len(s)]
    OBVIOUS
  <1>2. /\ \A k \in DOMAIN s : s[k] \in ToSet(s)
        /\ \A k \in DOMAIN t : t[k] \in ToSet(t)
    BY DEF ToSet
  <1>3. CASE i \in 1 .. Len(s) /\ j \in 1 .. Len(s)
    BY <1>1, <1>3 DEF OnceEach
  <1>4. CASE i \in 1 .. Len(s) /\ j \notin 1 .. Len(s)
    <2>1. (s \o t)[i] \in ToSet(s) /\ (s \o t)[j] \in ToSet(t)
      BY <1>1, <1>2, <1>4
    <2> QED
      BY <2>1
  <1>5. CASE i \notin 1 .. Len(s) /\ j \in 1 .. Len(s)
    <2>1. (s \o t)[i] \in ToSet(t) /\ (s \o t)[j] \in ToSet(s)
      BY <1>1, <1>2, <1>5
    <2> QED
      BY <2>1
  <1>6. CASE i \notin 1 .. Len(s) /\ j \notin 1 .. Len(s)
    <2> DEFINE k == i - Len(s)
               l == j - Len(s)
    <2>1. k \in DOMAIN t /\ l \in DOMAIN t /\ t[k] = (s \o t)[i] /\ t[l] = (s \o t)[j]
      BY <1>1, <1>6
    <2>2. k # l
      BY <1>1
    <2> HIDE DEF k, l
    <2> QED
      BY <2>1, <2>2 DEF OnceEach
  <1> QED
    BY <1>3, <1>4, <1>5, <1>6

\* SetMethod sets one handler and extends both lists, the second time with what is
\* there only for HEAD next to GET.
LEMMA SetMethodFacts ==
    ASSUME NEW mr \in MethodRouters, NEW m \in Methods, NEW p \in Patterns,
           NEW S \in SUBSET Methods, m \notin S,
           ToSet(mr.allowed_methods) = Names(S), OnceEach(mr.allowed_methods, Twice(S))
    PROVE  LET new == SetMethod(mr, m, <<m, p>>)
               more == Names({m})
           IN  /\ new \in MethodRouters
               /\ new.handlers[m] = <<m, p>>
               /\ \A o \in Methods \ {m} : new.handlers[o] = mr.handlers[o]
               /\ ToSet(new.allowed_methods) = ToSet(mr.allowed_methods) \cup more
               /\ OnceEach(new.allowed_methods, Twice(S \cup {m}))
               /\ new.other_method_allowed = new.allowed_methods
  <1> DEFINE names == IF m = "GET" THEN <<"GET", "HEAD">> ELSE <<m>>
             set == [mr EXCEPT !.handlers[m] = <<m, p>>]
             allowed == mr.allowed_methods \o names
             new == [set EXCEPT !.allowed_methods = allowed, !.other_method_allowed = allowed]
  <1>1. /\ names \in Seq(Methods \cup {"HEAD"}) /\ ToSet(names) = Names({m})
        /\ OnceEach(names, Twice(S \cup {m}))
    <2>1. CASE m = "GET"
      <3>1. names = <<"GET", "HEAD">> /\ DOMAIN names = {1, 2}
        BY <2>1
      <3>2. ToSet(names) = {"GET", "HEAD"}
        BY <3>1 DEF ToSet
      <3>3. OnceEach(names, Twice(S \cup {m}))
        BY <3>1 DEF OnceEach
      <3> QED
        BY <2>1, <3>1, <3>2, <3>3 DEF Names
    <2>2. CASE m # "GET"
      <3>1. names = <<m>> /\ DOMAIN names = {1}
        BY <2>2
      <3>2. ToSet(names) = {m}
        BY <3>1 DEF ToSet
      <3>3. OnceEach(names, Twice(S \cup {m}))
        BY <3>1 DEF OnceEach
      <3> QED
        BY <2>2, <3>1, <3>2, <3>3 DEF Names
    <2> QED
      BY <2>1, <2>2
  <1> HIDE DEF names
  <1>2. mr.allowed_methods \in Seq(Methods \cup {"HEAD"})
    BY DEF MethodRouters
  <1>3. /\ allowed \in Seq(Methods \cup {"HEAD"})
        /\ ToSet(allowed) = ToSet(mr.allowed_methods) \cup Names({m})
    BY <1>1, <1>2, ConcatSet
  <1>7. OnceEach(allowed, Twice(S \cup {m}))
    <2>1. OnceEach(mr.allowed_methods, Twice(S \cup {m}))
      BY DEF OnceEach, Twice
    <2>2. Names(S) \cap Names({m}) \subseteq Twice(S \cup {m})
      BY DEF Names, Twice
    <2> QED
      BY <1>1, <1>2, <2>1, <2>2, ConcatOnce
  <1>4. /\ set \in MethodRouters /\ set.allowed_methods = mr.allowed_methods
        /\ set.handlers[m] = <<m, p>> /\ \A o \in Methods \ {m} : set.handlers[o] = mr.handlers[o]
    BY DEF MethodRouters
  <1>5. SetMethod(mr, m, <<m, p>>) = new
    BY <1>4 DEF SetMethod, AppendAllowedMethod, names
  <1> HIDE DEF set, allowed
  <1>6. /\ new \in MethodRouters /\ new.allowed_methods = allowed
        /\ new.other_method_allowed = allowed /\ new.handlers = set.handlers
    BY <1>3, <1>4 DEF MethodRouters
  <1> HIDE DEF new
  <1> QED
    BY <1>3, <1>4, <1>5, <1>6, <1>7

-----------------------------------------------------------------------------
(* Building the router. *)

\* A route goes under its own path.
LEMMA RouteKeeps ==
    ASSUME StaticFirst, RouterOK, NEW m \in Methods, NEW path \in Patterns, Route(m, path)
    PROVE  RouterOK'
  <1> DEFINE found == At(path)
             into == IF found # {} THEN found ELSE {path}
             old(p) == IF p \in DOMAIN matcher THEN matcher[p] ELSE NewMethodRouter
  <1>1. into = {path}
    BY DEF Route
  <1>2. CASE UNCHANGED <<matcher, asked>>
    BY <1>2 DEF RouterOK, PathOK, Registered, MethodsAt
  <1>3. CASE /\ ~\E p \in found : matcher[p].handlers[m] # NoHandler
             /\ ~(found = {} /\ Conflicts(path))
             /\ matcher' = [p \in DOMAIN matcher \cup into |->
                               IF p \in into THEN SetMethod(old(p), m, <<m, path>>) ELSE old(p)]
             /\ asked' = asked \cup {<<m, path>>}
    <2> DEFINE new == SetMethod(old(path), m, <<m, path>>)
    <2>1. /\ DOMAIN matcher' = DOMAIN matcher \cup {path} /\ matcher'[path] = new
          /\ \A p \in DOMAIN matcher \ {path} : matcher'[p] = matcher[p]
      <3> HIDE DEF into, new
      <3>1. matcher' = [p \in DOMAIN matcher \cup {path} |-> IF p = path THEN new ELSE old(p)]
        BY <1>1, <1>3 DEF new
      <3> QED
        BY <3>1
    <2>2. Registered' = Registered \cup {path}
      BY <1>3 DEF Registered
    <2>3. /\ old(path) \in MethodRouters
          /\ \A o \in Methods :
                 old(path).handlers[o] = IF <<o, path>> \in asked THEN <<o, path>> ELSE NoHandler
          /\ ToSet(old(path).allowed_methods) = Names(MethodsAt(path))
          /\ OnceEach(old(path).allowed_methods, Twice(MethodsAt(path)))
      <3>1. CASE path \in DOMAIN matcher
        BY <3>1 DEF RouterOK, PathOK
      <3>2. CASE path \notin DOMAIN matcher
        <4>1. \A o \in Methods : <<o, path>> \notin asked
          BY <3>2 DEF RouterOK, Registered
        <4>2. old(path) = NewMethodRouter
          BY <3>2
        <4> HIDE DEF old
        <4>3. /\ NewMethodRouter \in MethodRouters
              /\ \A o \in Methods : NewMethodRouter.handlers[o] = NoHandler
              /\ NewMethodRouter.allowed_methods = <<>>
          BY DEF NewMethodRouter, MethodRouters
        <4>4. /\ MethodsAt(path) = {} /\ Names({}) = {} /\ ToSet(<<>>) = {}
              /\ OnceEach(<<>>, Twice({}))
          BY <4>1 DEF MethodsAt, Names, ToSet, OnceEach
        <4> QED
          BY <4>1, <4>2, <4>3, <4>4
      <3> QED
        BY <3>1, <3>2
    <2>8. MethodsAt(path) \in SUBSET Methods /\ m \notin MethodsAt(path)
      <3>1. CASE path \in DOMAIN matcher
        <4>1. found = {path}
          BY <1>1, <1>3, <3>1 DEF Conflicts
        <4>2. matcher[path].handlers[m] = NoHandler
          BY <1>3, <4>1
        <4>3. <<m, path>> \notin asked
          BY <3>1, <4>2 DEF RouterOK, PathOK, NoHandler
        <4> QED
          BY <4>3 DEF MethodsAt
      <3>2. CASE path \notin DOMAIN matcher
        BY <3>2 DEF RouterOK, Registered, MethodsAt
      <3> QED
        BY <3>1, <3>2
    <2> HIDE DEF old
    <2>4. /\ new \in MethodRouters /\ new.handlers[m] = <<m, path>>
          /\ \A o \in Methods \ {m} : new.handlers[o] = old(path).handlers[o]
          /\ ToSet(new.allowed_methods) = ToSet(old(path).allowed_methods) \cup Names({m})
          /\ OnceEach(new.allowed_methods, Twice(MethodsAt(path) \cup {m}))
          /\ new.other_method_allowed = new.allowed_methods
      BY <2>3, <2>8, SetMethodFacts
    <2> HIDE DEF new
    <2>5. PathOK(path)'
      <3>1. MethodsAt(path)' = MethodsAt(path) \cup {m}
        BY <1>3 DEF MethodsAt
      <3>2. Names(MethodsAt(path) \cup {m}) = Names(MethodsAt(path)) \cup Names({m})
        BY DEF Names
      <3>3. \A o \in Methods :
                new.handlers[o] = IF <<o, path>> \in asked' THEN <<o, path>> ELSE NoHandler
        BY <1>3, <2>3, <2>4
      <3>4. /\ Names(MethodsAt(path))' = Names(MethodsAt(path)) \cup Names({m})
            /\ Twice(MethodsAt(path))' = Twice(MethodsAt(path) \cup {m})
        BY <3>1, <3>2
      <3> QED
        BY <2>1, <2>3, <2>4, <3>3, <3>4 DEF PathOK
    <2>6. ASSUME NEW p \in Registered, p # path PROVE PathOK(p)'
      <3>1. MethodsAt(p)' = MethodsAt(p) /\ \A o \in Methods : <<o, p>> \in asked' <=> <<o, p>> \in asked
        BY <1>3, <2>6 DEF MethodsAt
      <3>2. matcher'[p] = matcher[p] /\ PathOK(p)
        BY <2>1, <2>6 DEF RouterOK
      <3>3. Names(MethodsAt(p))' = Names(MethodsAt(p)) /\ Twice(MethodsAt(p))' = Twice(MethodsAt(p))
        BY <3>1
      <3> QED
        BY <3>1, <3>2, <3>3 DEF PathOK
    <2>7. asked' \subseteq Methods \X Patterns
      BY <1>3 DEF RouterOK
    <2> QED
      BY <2>1, <2>2, <2>5, <2>6, <2>7 DEF RouterOK
  <1> QED
    BY <1>2, <1>3 DEF Route

-----------------------------------------------------------------------------
(* Answers. *)

\* Who answers, and with which allow header, is what the calls of route say.
LEMMA HandleFacts ==
    ASSUME RouterOK, request.method \in Methods,
           NEW reply \in Handle(request.path, request.method)
    PROVE  \E status, headers, content_type, body, allow :
               /\ reply = [by |-> Expected, status |-> status, headers |-> headers,
                           content_type |-> content_type, body |-> body, allow |-> allow]
               /\ Expected = MethodNotAllowed =>
                      LET registered == {a[1] : a \in {a \in asked :
                                             a[2] \in Best({b[2] : b \in asked}, request.path)}}
                      IN  /\ ToSet(allow) = Names(registered)
                          /\ OnceEach(allow, Twice(registered))
  <1> DEFINE m == request.method
             best == Best({b[2] : b \in asked}, request.path)
             registered == {a[1] : a \in {a \in asked : a[2] \in best}}
             handler == {<<m, p>> : p \in best}
  <1>1. At(request.path) = best /\ Registered \in SUBSET Patterns
    BY DEF At, RouterOK, Registered
  <1>2. best \subseteq Registered /\ \A p, q \in best : p = q
    BY <1>1, BestIsUnique DEF Registered
  <1>3. Expected = CASE best = {}                             -> TheFallback
                     [] best # {} /\ handler \subseteq asked    -> CHOOSE h \in handler : TRUE
                     [] best # {} /\ ~(handler \subseteq asked) -> MethodNotAllowed
    BY DEF Expected
  <1>4. CASE best = {}
    <2>1. Expected = TheFallback
      BY <1>3, <1>4
    <2>2. TheFallback # MethodNotAllowed
      BY DEF TheFallback, MethodNotAllowed
    <2>3. \E status : reply = Reply(TheFallback, status, <<>>, "unit", None)
      BY <1>1, <1>4 DEF Handle
    <2> QED
      BY <2>1, <2>2, <2>3 DEF Reply
  <1>5. CASE best # {}
    <2> DEFINE p == CHOOSE p \in At(request.path) : TRUE
               h == MethodHandle(matcher[p], m)
    <2>1. best = {p} /\ p \in Registered
      BY <1>1, <1>2, <1>5
    <2>2. PathOK(p)
      BY <2>1 DEF RouterOK
    <2>3. reply \in IF h.handler = MethodNotAllowed
                    THEN {[Reply(MethodNotAllowed, "MethodNotAllowed", <<"allow">>, "unit", None)
                               EXCEPT !.allow = h.allow]}
                    ELSE Replies(h.handler)
      BY <1>1, <1>5 DEF Handle
    <2> HIDE DEF p
    <2>4. handler = {<<m, p>>} /\ <<m, p>> # NoHandler /\ <<m, p>> # MethodNotAllowed
      BY <2>1 DEF NoHandler, MethodNotAllowed
    <2>5. CASE <<m, p>> \in asked
      <3>1. Expected = <<m, p>>
        <4>1. handler \subseteq asked /\ Expected = CHOOSE x \in handler : TRUE
          BY <1>3, <1>5, <2>4, <2>5
        <4> QED
          BY <2>4, <4>1
      <3>2. h.handler = <<m, p>>
        BY <2>2, <2>4, <2>5 DEF PathOK, MethodHandle
      <3>3. reply \in Replies(<<m, p>>)
        BY <2>3, <2>4, <3>2
      <3>4. \E status, headers, content_type, body :
                reply = [by |-> <<m, p>>, status |-> status, headers |-> headers,
                         content_type |-> content_type, body |-> body, allow |-> <<>>]
        BY <3>3 DEF Replies, Reply
      <3> QED
        BY <2>4, <3>1, <3>4
    <2>6. CASE <<m, p>> \notin asked
      <3>1. Expected = MethodNotAllowed
        BY <1>3, <1>5, <2>4, <2>6
      <3>2. h.handler = MethodNotAllowed /\ h.allow = matcher[p].other_method_allowed
        BY <2>2, <2>6 DEF PathOK, MethodHandle
      <3>3. registered = MethodsAt(p)
        <4> HIDE DEF best
        <4>1. \A a \in asked : a = <<a[1], a[2]>> /\ a[1] \in Methods
          BY DEF RouterOK
        <4>2. registered \subseteq MethodsAt(p)
          BY <2>1, <4>1 DEF MethodsAt
        <4>3. ASSUME NEW o \in MethodsAt(p) PROVE o \in registered
          <5>1. <<o, p>> \in asked /\ <<o, p>>[1] = o /\ <<o, p>>[2] \in best
            BY <2>1 DEF MethodsAt
          <5> QED
            BY <5>1
        <4> QED
          BY <4>2, <4>3
      <3>4. ToSet(h.allow) = Names(registered) /\ OnceEach(h.allow, Twice(registered))
        BY <2>2, <3>2, <3>3 DEF PathOK
      <3>5. reply = [Reply(MethodNotAllowed, "MethodNotAllowed", <<"allow">>, "unit", None)
                         EXCEPT !.allow = h.allow]
        BY <2>3, <3>2
      <3>6. \E status, headers, content_type, body :
                reply = [by |-> MethodNotAllowed, status |-> status, headers |-> headers,
                         content_type |-> content_type, body |-> body, allow |-> h.allow]
        <4> HIDE DEF h
        <4> QED
          BY <3>5 DEF Reply
      <3> QED
        BY <3>1, <3>4, <3>6
    <2> QED
      BY <2>5, <2>6
  <1> QED
    BY <1>4, <1>5

-----------------------------------------------------------------------------
(* The invariant. *)

\* While there is no response, a step that gives none says nothing about answers.
LEMMA NoAnswer == ASSUME response' = NoResponse PROVE AnswersAsRegistered' /\ AllowIsComplete'
  BY DEF AnswersAsRegistered, AllowIsComplete

\* The request meets a finished router, which does not change any more.
LEMMA SendKeeps ==
    ASSUME RoutingInv, Send
    PROVE  RoutingInv'
  <1>1. /\ RouterOK /\ Order /\ ~panicked /\ request.front # None
        /\ UNCHANGED <<matcher, fallback, state, asked, request>>
        /\ response = NoResponse /\ state /\ request.method \in Methods
    BY DEF RoutingInv, Order, Send
  <1>2. RouterOK' /\ Order'
    BY <1>1 DEF RouterOK, PathOK, Registered, MethodsAt, Order, WholeRequest
  <1>3. PICK reply \in Handle(request.path, request.method) :
            \/ UNCHANGED response
            \/ response' = IF request.front = "fake" THEN reply
                           ELSE [reply EXCEPT !.headers = Preamble(reply) \o @]
    BY DEF Send
  <1>4. CASE UNCHANGED response
    BY <1>1, <1>2, <1>4, NoAnswer DEF RoutingInv
  <1>5. CASE response' = IF request.front = "fake" THEN reply
                         ELSE [reply EXCEPT !.headers = Preamble(reply) \o @]
    <2>1. PICK status, headers, content_type, body, allow :
               /\ reply = [by |-> Expected, status |-> status, headers |-> headers,
                           content_type |-> content_type, body |-> body, allow |-> allow]
               /\ Expected = MethodNotAllowed =>
                      LET registered == {a[1] : a \in {a \in asked :
                                             a[2] \in Best({b[2] : b \in asked}, request.path)}}
                      IN  /\ ToSet(allow) = Names(registered)
                          /\ OnceEach(allow, Twice(registered))
      BY <1>1, HandleFacts
    <2>2. response'.by = Expected /\ response'.allow = allow
      <3> DEFINE all == Preamble(reply) \o headers
      <3>1. response' = reply \/ response' = [reply EXCEPT !.headers = all]
        BY <1>5, <2>1
      <3> HIDE DEF all
      <3> QED
        BY <2>1, <3>1
    <2>3. Expected' = Expected
      BY <1>1 DEF Expected
    <2>4. AnswersAsRegistered'
      BY <2>2, <2>3 DEF AnswersAsRegistered
    <2>5. AllowIsComplete'
      BY <1>1, <2>1, <2>2 DEF AllowIsComplete, Names, OnceEach, Twice
    <2> QED
      BY <1>2, <2>4, <2>5 DEF RoutingInv
  <1> QED
    BY <1>3, <1>4, <1>5

LEMMA RoutingInvNext == ASSUME StaticFirst PROVE RoutingInv /\ [RoutingNext]_vars => RoutingInv'
  <1> SUFFICES ASSUME RoutingInv, [RoutingNext]_vars PROVE RoutingInv'
    OBVIOUS
  <1>1. RouterOK /\ Order /\ AnswersAsRegistered /\ AllowIsComplete
    BY DEF RoutingInv
  <1>2. UNCHANGED <<matcher, asked>> => RouterOK'
    BY <1>1 DEF RouterOK, PathOK, Registered, MethodsAt
  <1>3. ~state => response = NoResponse /\ request.front = None
    BY <1>1 DEF Order
  <1>4. ASSUME NEW m \in Methods, NEW p \in Patterns, Route(m, p) PROVE RoutingInv'
    <2>1. RouterOK'
      BY <1>1, <1>4, RouteKeeps
    <2>2. UNCHANGED <<state, request, response>> /\ ~state
      BY <1>4 DEF Route
    <2>3. Order'
      BY <1>3, <2>2 DEF Order
    <2> QED
      BY <1>3, <2>1, <2>2, <2>3, NoAnswer DEF RoutingInv
  <1>5. CASE Fallback \/ WithState
    <2>1. UNCHANGED <<matcher, asked, request, response, panicked>> /\ ~state
      BY <1>5 DEF Fallback, WithState
    <2>2. Order'
      BY <1>3, <2>1 DEF Order, WholeRequest
    <2> QED
      BY <1>2, <1>3, <2>1, <2>2, NoAnswer DEF RoutingInv
  <1>6. ASSUME NEW front \in {"fake", "wire"}, NEW m \in Methods \cup {"BREW"}, NEW uri \in Uris,
               NewRequest(front, m, uri)
        PROVE  RoutingInv'
    <2>1. /\ UNCHANGED <<matcher, asked, response, state>> /\ state
          /\ request'.method = m /\ (~panicked' => m \in KnownMethods) /\ request = NoRequest
          /\ WholeRequest'
      BY <1>6 DEF NewRequest, WholeRequest
    <2>2. "BREW" \notin KnownMethods
      BY DEF KnownMethods
    <2>3. response = NoResponse
      BY <1>1, <2>1 DEF Order, NoRequest
    <2>4. Order'
      BY <2>1, <2>2, <2>3 DEF Order
    <2> QED
      BY <1>2, <2>1, <2>3, <2>4, NoAnswer DEF RoutingInv
  <1>7. ASSUME \/ \E v \in Values : AddQuery(v)
               \/ \E n \in HeaderNames, v \in Values : AddHeader(n, v)
        PROVE  RoutingInv'
    <2>1. /\ UNCHANGED <<matcher, asked, response, state, panicked>> /\ response = NoResponse
          /\ request.front # None
          /\ \/ \E query : request' = [request EXCEPT !.query = query]
             \/ \E headers : request' = [request EXCEPT !.headers = headers]
      BY <1>7 DEF AddQuery, AddHeader, None
    <2>2. PICK front, method, path, query, headers :
              request = [front |-> front, method |-> method, path |-> path, query |-> query,
                         headers |-> headers]
      BY <1>1, <2>1 DEF Order, WholeRequest
    <2>3. WholeRequest' /\ request'.front = request.front /\ request'.method = request.method
      BY <2>1, <2>2 DEF WholeRequest
    <2>4. Order'
      BY <1>1, <2>1, <2>3 DEF Order
    <2> QED
      BY <1>2, <2>1, <2>4, NoAnswer DEF RoutingInv
  <1>8. CASE Send
    BY <1>8, SendKeeps
  <1>9. CASE Silent
    <2>1. /\ UNCHANGED <<matcher, asked, response, state>> /\ response = NoResponse /\ ~panicked
          /\ request' = request \/ request' = NoRequest
      BY <1>9 DEF Silent
    <2>2. Order'
      BY <1>1, <2>1 DEF Order, NoRequest, WholeRequest
    <2> QED
      BY <1>2, <2>1, <2>2, NoAnswer DEF RoutingInv
  <1>10. CASE DropResponse
    <2>1. UNCHANGED <<matcher, asked, state>> /\ request' = NoRequest /\ response' = NoResponse
      BY <1>10 DEF DropResponse
    <2>2. Order'
      BY <2>1 DEF Order, NoRequest
    <2> QED
      BY <1>2, <2>1, <2>2, NoAnswer DEF RoutingInv
  <1>11. CASE UNCHANGED vars
    <2>1. UNCHANGED <<matcher, fallback, state, asked, request, response, panicked>>
      BY <1>11 DEF vars
    <2>2. Order' /\ AllowIsComplete'
      BY <1>1, <2>1 DEF Order, WholeRequest, AllowIsComplete
    <2>3. Expected' = Expected
      BY <2>1 DEF Expected
    <2>4. HeadOfGet' = HeadOfGet
      BY <2>1, <2>3 DEF HeadOfGet
    <2>5. AnswersAsRegistered'
      BY <1>1, <2>1, <2>3, <2>4 DEF AnswersAsRegistered
    <2> QED
      BY <1>2, <2>1, <2>2, <2>5 DEF RoutingInv
  <1> QED
    BY <1>4, <1>5, <1>6, <1>7, <1>8, <1>9, <1>10, <1>11 DEF RoutingNext

LEMMA RoutingInvAlways == ASSUME StaticFirst PROVE RoutingSpec => []RoutingInv
  <1>1. RoutingInit => RoutingInv
    <2> SUFFICES ASSUME RoutingInit PROVE RoutingInv
      OBVIOUS
    <2>1. matcher = <<>> /\ asked = {} /\ request = NoRequest /\ response = NoResponse
      BY DEF RoutingInit
    <2>2. RouterOK
      BY <2>1 DEF RouterOK, Registered
    <2> QED
      BY <2>1, <2>2 DEF RoutingInv, Order, NoRequest, AnswersAsRegistered, AllowIsComplete
  <1> QED
    BY <1>1, RoutingInvNext, PTL DEF RoutingSpec

\* Router::handle answers every request with the handler that was registered for the
\* best of all registered paths, with 405 if that path has none for the method, and
\* with the fallback if there is no such path, whatever else is registered, as long
\* as no call of Router::route is for a path that the pattern of an earlier one
\* matches.  (For HEAD where only GET is registered the promise is another one.)
THEOREM RequestsReachTheirRoutes == ASSUME StaticFirst PROVE RoutingSpec => []AnswersAsRegistered
  <1>1. RoutingInv => AnswersAsRegistered
    BY DEF RoutingInv
  <1> QED
    BY <1>1, RoutingInvAlways, PTL

\* The allow header of a 405 (MethodRouter::append_allowed_method, handle) lists all
\* methods of the path, also those that were set after its handler was first made,
\* and each of them once, except HEAD next to GET.
THEOREM AllowHeadersAreComplete == ASSUME StaticFirst PROVE RoutingSpec => []AllowIsComplete
  <1>1. RoutingInv => AllowIsComplete
    BY DEF RoutingInv
  <1> QED
    BY <1>1, RoutingInvAlways, PTL

=============================================================================
