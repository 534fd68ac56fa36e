----------------------------- MODULE MCRouting -----------------------------
(***************************************************************************)
(* Patterns, targets and headers for the runs of Routing: the root, a      *)
(* static path, a parameter and a rest at the same place, and a longer     *)
(* path; targets with a query, a fragment and a character that is not      *)
(* allowed; one header name in two cases; and what a handler may push:     *)
(* nothing, one header twice, one that the serializer writes as well, and  *)
(* one that it refuses, alone or after another.                            *)
(***************************************************************************)
EXTENDS Routing

MCPatterns == {<<>>, <<"a">>, <<":x">>, <<"*x">>, <<":x", "b">>}

MCUris ==
    {<<>>, <<"a">>, <<"b">>, <<"a", "b">>, <<"a", "a">>,
     <<"a", "?", "v1", "?", "#", "bad">>, <<"b", "#", "?">>, <<"bad">>}

MCHeaderNames == {[text |-> "foo", lower |-> "foo"], [text |-> "FOO", lower |-> "foo"]}

MCHandlerHeaders == {<<>>, <<"x", "x">>, <<"connection">>, <<"date">>, <<"x", "content-length">>}

=============================================================================
