------------------------------- MODULE MCNats -------------------------------
(***************************************************************************)
(* Operations for the run of Nats: payloads that are empty, contain a      *)
(* newline or end in a carriage return; the largest number and 0; with and *)
(* without the optional fields; fields that the decoder does not know; and *)
(* a subject with a space in it, next to the operation it looks like.      *)
(***************************************************************************)
EXTENDS Nats

Msg(subject, sid, reply_to, payload) ==
    [op |-> "Msg", subject |-> subject, sid |-> sid, reply_to |-> reply_to, payload |-> payload]

MCServerOperations ==
    {[op |-> "Info", json |-> json] : json \in {<<"~", " ", "x">>, <<"~", "bad">>}}
    \cup {[op |-> "Err", message |-> message] : message \in {<<"x">>, <<"bad", "x">>}}
    \cup {[op |-> "Ok"], [op |-> "Ping"], [op |-> "Pong"]}
    \cup {Msg(<<"x", "x">>, n, r, p) : n \in {0, 12}, r \in {None, Some(<<"x">>)},
                                    p \in {<<>>, <<"CR", "LF">>, [i \in 1 .. 10 |-> "CR"]}}
    \cup {Msg(s, 1, None, <<>>) : s \in {<<"x", "1">>, <<"~">>}}
    \cup {Msg(<<"x">>, 1, Some(r), <<"1", "CR", "LF">>) :
              r \in {<<"1">>, <<"1", "x">>, <<"9", "9">>, <<"x", "1">>}}

Pub(subject, reply_to, payload) ==
    [op |-> "Pub", subject |-> subject, reply_to |-> reply_to, payload |-> payload]

MCClientOperations ==
    {[op |-> "Connect", json |-> <<"~">>], [op |-> "Ping"], [op |-> "Pong"]}
    \cup {Pub(s, r, p) : s \in {<<"x">>, <<"x", "2">>}, r \in {None, Some(<<"x">>), Some(<<"2">>)},
                        p \in {<<>>, <<"CR", "LF">>, <<"x", "CR">>}}
    \cup {Pub(<<"x", " ", "x">>, None, <<>>)}
    \cup {[op |-> "Sub", subject |-> <<"x">>, queue_group |-> g, sid |-> n] :
             g \in {None, Some(<<"x">>), Some(<<"1">>)}, n \in {1, 12}}
    \cup {[op |-> "Unsub", sid |-> n, max_messages |-> k] :
             n \in {1, 12}, k \in {None, Some(0), Some(2)}}

=============================================================================
