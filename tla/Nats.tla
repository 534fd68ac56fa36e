-------------------------------- MODULE Nats --------------------------------
(***************************************************************************)
(* The NATS wire protocol (src/ecosystem/nats/proto.rs): the encoder of    *)
(* what a client says, and the streaming decoder of what a server says,    *)
(* applied to a buffer that fills up in arbitrary pieces.                  *)
(*                                                                         *)
(* Bytes are symbols: the tags are cut in two ("P" "ING"), so that a piece *)
(* may end inside of them; "x" is one of the bytes a subject may have here *)
(* (a letter, or one of . * >), "bad" one that is not UTF-8 where it       *)
(* stands, and "~" any other byte.                                         *)
(* The combinators are those of the nom crate, in their streaming form:    *)
(* a parser takes a buffer and a position and is ok, incomplete, or an     *)
(* error.  The peer, and the loop that calls decode, are not in the code.  *)
(***************************************************************************)
EXTENDS Integers, Sequences, SequencesExt

CONSTANTS
    ServerOperations,  \* what the server may say
    ClientOperations,  \* what the client may say
    MaxU64,            \* the largest u64
    MaxSent            \* bound on the operations of both sides together

Digit == [d \in 0 .. 9 |-> <<"0", "1", "2", "3", "4", "5", "6", "7", "8", "9">>[d + 1]]
Digits == {Digit[d] : d \in 0 .. 9}
DigitValue == [c \in Digits |-> CHOOSE d \in 0 .. 9 : Digit[d] = c]

Symbols == Digits \cup {" ", "x", "~", "bad", "CR", "LF", "I", "NFO", "M", "SG", "+", "OK", "-",
                        "ERR", "P", "ING", "ONG", "CONNECT", "PUB", "SUB", "UNSUB"}
TextSymbols == Symbols \ {"CR"}
Utf8Symbols == Symbols \ {"bad"}
TokenSymbols == Digits \cup {"x", "~"}

None == <<>>
Some(v) == <<v>>
Option(S) == {v \in Seq(S) : Len(v) <= 1}

\* The fields of operations: a text that ends with its line, a token between
\* spaces, and the strings that a client may pass for either.
Texts == Seq(TextSymbols) \ {<<>>}
Subjects == Seq(TokenSymbols) \ {<<>>}
Strs == Seq(Utf8Symbols)
Numbers == 0 .. MaxU64
Payloads == {p \in Seq(Symbols) : Len(p) \in Numbers}

ASSUME NatsAssumption == MaxU64 \in Nat /\ MaxSent \in Nat
ASSUME ServerOperationsAssumption ==  \* it returns the sids it was given: numbers
    ServerOperations \subseteq
             [op : {"Info"}, json : {t \in Texts : t[1] # " "}]
        \cup [op : {"Msg"}, subject : Subjects, sid : Numbers, reply_to : Option(Subjects), payload : Payloads]
        \cup [op : {"Err"}, message : Texts]
        \cup [op : {"Ok", "Ping", "Pong"}]
ASSUME ClientOperationsAssumption ==
    ClientOperations \subseteq
             [op : {"Connect"}, json : Strs]
        \cup [op : {"Pub"}, subject : Strs, reply_to : Option(Strs), payload : Payloads]
        \cup [op : {"Sub"}, subject : Strs, queue_group : Option(Strs), sid : Numbers]
        \cup [op : {"Unsub"}, sid : Numbers, max_messages : Option(Numbers)]
        \cup [op : {"Ping", "Pong"}]

VARIABLES
    sent,      \* the operations of the server
    wire,      \* its bytes that have not arrived
    buffer,    \* the bytes that have arrived and are not consumed
    got,       \* the operations decoded
    rejected,  \* decode returned InvalidProtocol
    written,   \* the operations of the client
    upstream   \* the bytes the client has written

vars == <<sent, wire, buffer, got, rejected, written, upstream>>

INFO == <<"I", "NFO">>
MSG == <<"M", "SG">>
OK == <<"+", "OK">>
ERR == <<"-", "ERR", " ">>
PING == <<"P", "ING">>
PONG == <<"P", "ONG">>
CONNECT == <<"CONNECT", " ">>
PUB == <<"PUB", " ">>
SUB == <<"SUB", " ">>
UNSUB == <<"UNSUB", " ">>
Newline == <<"CR", "LF">>
Space == <<" ">>

\* itoa
Number[n \in Nat] ==
    IF n < 10 THEN <<Digit[n]>> ELSE Append(Number[n \div 10], Digit[n % 10])

\* The number that digits write.
Value(digits) ==
    LET upto[k \in 0 .. Len(digits)] ==
            IF k = 0 THEN 0 ELSE 10 * upto[k - 1] + DigitValue[digits[k]]
    IN  upto[Len(digits)]

-----------------------------------------------------------------------------
\* nom's combinators

Parsed(at, value) == [status |-> "ok", at |-> at, value |-> value]
Incomplete == [status |-> "incomplete"]
Failed == [status |-> "error"]

\* The question mark after a parser: go on from where it stopped.
Then(result, Rest(_)) == IF result.status = "ok" THEN Rest(result) ELSE result

\* bytes::tag and tag_no_case
Tag(s, i, tag) ==
    LET rest == SubSeq(s, i, Len(s))
    IN  CASE IsPrefix(tag, rest)                          -> Parsed(i + Len(tag), tag)
          [] rest # tag /\ IsPrefix(rest, tag)              -> Incomplete
          [] ~IsPrefix(tag, rest) /\ ~IsPrefix(rest, tag)   -> Failed

\* The first position from i on that does not hold one of C, or the end.
Stop(s, i, C) ==
    CHOOSE j \in i .. Len(s) + 1 : /\ \A k \in i .. j - 1 : s[k] \in C
                                   /\ j <= Len(s) => s[j] \notin C

\* bytes::take_while1, and take_till1 with the complement: something must follow
\* that ends it
TakeWhile1(s, i, C) ==
    LET stop == Stop(s, i, C)
    IN  CASE stop > Len(s)                 -> Incomplete
          [] stop <= Len(s) /\ stop = i    -> Failed
          [] stop <= Len(s) /\ stop # i    -> Parsed(stop, SubSeq(s, i, stop - 1))

\* character::u64: an overflow is an error at once
U64(s, i) ==
    LET stop == Stop(s, i, Digits)
        value == Value(SubSeq(s, i, stop - 1))
    IN  CASE stop <= Len(s) /\ stop = i                     -> Failed
          [] stop > i /\ value > MaxU64                      -> Failed
          [] stop <= Len(s) /\ stop > i /\ value <= MaxU64    -> Parsed(stop, value)
          [] stop > Len(s) /\ value <= MaxU64                -> Incomplete

\* bytes::take
Take(s, i, n) ==
    IF i + n - 1 <= Len(s) THEN Parsed(i + n, SubSeq(s, i, i + n - 1)) ELSE Incomplete

\* combinator::opt: an error is nothing, an incomplete parse stays incomplete
Opt(result, i) ==
    IF result = Failed THEN Parsed(i, None)
    ELSE Then(result, LAMBDA parsed : Parsed(parsed.at, Some(parsed.value)))

\* combinator::map_res with str::from_utf8
FromUtf8(result) ==
    Then(result, LAMBDA bytes : IF bytes.value \in Strs THEN bytes ELSE Failed)

-----------------------------------------------------------------------------
\* The decoder

\* parse_whitespace, parse_newline, parse_subject, and the text up to the end
\* of the line in parse_info and parse_err
ParseWhitespace(s, i) == TakeWhile1(s, i, {" "})
ParseNewline(s, i) == Tag(s, i, Newline)
ParseSubject(s, i) == TakeWhile1(s, i, {"x"})
ParseText(s, i) == FromUtf8(TakeWhile1(s, i, TextSymbols))

\* parse_info
ParseInfo(s) ==
    Then(Tag(s, 1, INFO), LAMBDA tag :
    Then(ParseWhitespace(s, tag.at), LAMBDA space :
    Then(ParseText(s, space.at), LAMBDA json :
    Parsed(json.at, [op |-> "Info", json |-> json.value]))))

\* (mutant) the size counts the newline as well.
MutParsePayload(s, i) ==
    Then(U64(s, i), LAMBDA size :
    Then(ParseNewline(s, size.at), LAMBDA line :
    Take(s, line.at, size.value + 2)))

\* parse_payload
ParsePayload(s, i) ==
    Then(U64(s, i), LAMBDA size :
    Then(ParseNewline(s, size.at), LAMBDA line :
    Take(s, line.at, size.value)))

\* (mutant) not the streaming parsers: the end of the buffer is an error.
MutParseReplyTo(s, i) ==
    LET subject == ParseSubject(s, i)
        space == IF subject.status = "ok" THEN ParseWhitespace(s, subject.at) ELSE Failed
    IN  IF space.status = "ok" THEN Parsed(space.at, subject.value) ELSE Failed

\* terminated(parse_subject, parse_whitespace)
ParseReplyTo(s, i) ==
    Then(ParseSubject(s, i), LAMBDA subject :
    Then(ParseWhitespace(s, subject.at), LAMBDA space :
    Parsed(space.at, subject.value)))

\* parse_msg
ParseMsg(s) ==
    Then(Tag(s, 1, MSG), LAMBDA tag :
    Then(ParseWhitespace(s, tag.at), LAMBDA space1 :
    Then(ParseSubject(s, space1.at), LAMBDA subject :
    Then(ParseWhitespace(s, subject.at), LAMBDA space2 :
    Then(U64(s, space2.at), LAMBDA sid :
    Then(ParseWhitespace(s, sid.at), LAMBDA space3 :
    Then(Opt(ParseReplyTo(s, space3.at), space3.at), LAMBDA reply :
    Then(ParsePayload(s, reply.at), LAMBDA payload :
    Parsed(payload.at, [op |-> "Msg", subject |-> subject.value, sid |-> sid.value,
                        reply_to |-> reply.value, payload |-> payload.value])))))))))

\* parse_ok, parse_ping, parse_pong
ParseWord(s, word, name) ==
    Then(Tag(s, 1, word), LAMBDA tag : Parsed(tag.at, [op |-> name]))

\* parse_err
ParseErr(s) ==
    Then(Tag(s, 1, ERR), LAMBDA tag :
    Then(ParseText(s, tag.at), LAMBDA message :
    Parsed(message.at, [op |-> "Err", message |-> message.value])))

\* branch::alt: the first parser that does not fail decides
Alt(results) ==
    LET i == SelectInSeq(results, LAMBDA r : r # Failed)
    IN  IF i = 0 THEN Failed ELSE results[i]

\* parse_server_operation and ServerOperation::decode: incomplete is
\* BufferTooSmall, an error InvalidProtocol, and at is one past what was read
Decode(s) ==
    Then(Alt(<<ParseInfo(s), ParseMsg(s), ParseWord(s, OK, "Ok"), ParseErr(s),
               ParseWord(s, PING, "Ping"), ParseWord(s, PONG, "Pong")>>), LAMBDA op :
    Then(ParseNewline(s, op.at), LAMBDA line :
    Parsed(line.at, op.value)))

-----------------------------------------------------------------------------
\* The encoder

\* An optional subject and the space behind it.
Optional(subject) == IF subject = None THEN <<>> ELSE subject[1] \o Space

\* (mutant) the size of the payload is left out.
MutSized(payload) == Newline \o payload

\* A payload after its size.
Sized(payload) == Number[Len(payload)] \o Newline \o payload

\* The space and the number of messages, if there is one.
Limit(max) == IF max = None THEN <<>> ELSE Space \o Number[max[1]]

\* ClientOperation::encode, without Hpub, which is unimplemented; the strings
\* are written as they are
Encode(o) ==
    (CASE o.op = "Connect" -> CONNECT \o o.json
       [] o.op = "Pub"     -> PUB \o o.subject \o Space \o Optional(o.reply_to)
                              \o Sized(o.payload)
       [] o.op = "Sub"     -> SUB \o o.subject \o Space \o Optional(o.queue_group)
                              \o Number[o.sid]
       [] o.op = "Unsub"   -> UNSUB \o Number[o.sid] \o Limit(o.max_messages)
       [] o.op = "Ping"    -> PING
       [] o.op = "Pong"    -> PONG)
    \o Newline

\* What a server writes: the forms in the comments of ServerOperation
ServerEncode(o) ==
    (CASE o.op = "Info" -> INFO \o Space \o o.json
       [] o.op = "Msg"  -> MSG \o Space \o o.subject \o Space \o Number[o.sid] \o Space
                           \o Optional(o.reply_to) \o Sized(o.payload)
       [] o.op = "Ok"   -> OK
       [] o.op = "Err"  -> ERR \o o.message
       [] o.op = "Ping" -> PING
       [] o.op = "Pong" -> PONG)
    \o Newline

-----------------------------------------------------------------------------

NatsInit ==
    /\ sent = <<>> /\ wire = <<>> /\ buffer = <<>> /\ got = <<>>
    /\ rejected = FALSE
    /\ written = <<>> /\ upstream = <<>>

ServerSends(o) ==
    /\ Len(sent) + Len(written) < MaxSent
    /\ sent' = Append(sent, o)
    /\ wire' = wire \o ServerEncode(o)
    /\ UNCHANGED <<buffer, got, rejected, written, upstream>>

\* A byte arrives; a read of several is several of these.
Arrive ==
    /\ wire # <<>>
    /\ buffer' = Append(buffer, Head(wire))
    /\ wire' = Tail(wire)
    /\ UNCHANGED <<sent, got, rejected, written, upstream>>

\* After some read the client decodes and consumes wire_size bytes, or gives up.
Receive ==
    /\ ~rejected
    /\ LET r == Decode(buffer) IN
       /\ r # Incomplete
       /\ rejected' = (r = Failed)
       /\ got' = IF r = Failed THEN got ELSE Append(got, r.value)
       /\ buffer' = IF r = Failed THEN buffer ELSE SubSeq(buffer, r.at, Len(buffer))
    /\ UNCHANGED <<sent, wire, written, upstream>>

ClientSends(o) ==
    /\ Len(sent) + Len(written) < MaxSent
    /\ written' = Append(written, o)
    /\ upstream' = upstream \o Encode(o)
    /\ UNCHANGED <<sent, wire, buffer, got, rejected>>

NatsNext ==
    \/ \E o \in ServerOperations : ServerSends(o)
    \/ Arrive
    \/ Receive
    \/ \E o \in ClientOperations : ClientSends(o)

NatsSpec == NatsInit /\ [][NatsNext]_vars

-----------------------------------------------------------------------------
\* Properties

\* The operations that were sent and not yet decoded.
Remaining == SubSeq(sent, Len(got) + 1, Len(sent))

\* The bytes of several operations of the server.
Bytes(operations) ==
    LET upto[k \in 0 .. Len(operations)] ==
            IF k = 0 THEN <<>> ELSE upto[k - 1] \o ServerEncode(operations[k])
    IN  upto[Len(operations)]

\* The operations whose fields the parsers know: a subject of letters, "." "*"
\* and ">", no digit and no other byte; a text in UTF-8.
Legible(o) ==
    /\ o.op = "Info" => o.json \in Strs
    /\ o.op = "Err" => o.message \in Strs
    /\ o.op = "Msg" => o.subject \in Seq({"x"}) /\ o.reply_to \in Option(Seq({"x"}))

\* However the stream is cut into reads, decode returns the operations of the
\* server in order and consumes exactly their bytes, so that what is left is
\* the encoding of the rest. It takes no unfinished operation for an invalid
\* one; and an operation with a field that it does not know is refused, never
\* read as another one: the size in front of a payload is never looked for in
\* the wrong place.
StreamIsDecoded ==
    /\ IsPrefix(got, sent)
    /\ buffer \o wire = Bytes(Remaining)
    /\ rejected => Remaining # <<>> /\ ~Legible(Head(Remaining))

\* BufferTooSmall means that the operation is not complete: as soon as its last
\* byte is there decode succeeds, or refuses the operation, without waiting for
\* bytes that may never come.
NoNeedlessWait ==
    Remaining # <<>> /\ Len(buffer) >= Len(ServerEncode(Head(Remaining))) =>
        Decode(buffer).status = IF Legible(Head(Remaining)) THEN "ok" ELSE "error"

\* The operations that have the form in the comments of ClientOperation: a
\* subject is a token, without a space in it, and a text is one line. encode
\* does not ask for that: of the subject "a b" it makes what it makes of the
\* subject "a" with a reply to "b".
WellFormed(o) ==
    /\ o.op = "Connect" => o.json \in Texts
    /\ o.op \in {"Pub", "Sub"} => o.subject \in Subjects
    /\ o.op = "Pub" => o.reply_to \in Option(Subjects)
    /\ o.op = "Sub" => o.queue_group \in Option(Subjects)

\* The server can tell where an operation of the client ends and which one it
\* is: no other well-formed operation has an encoding that the bytes begin with.
ServerCanSplit ==
    written # <<>> /\ WellFormed(written[1]) =>
        \A o \in ClientOperations :
            WellFormed(o) /\ IsPrefix(Encode(o), upstream) => o = written[1]

=============================================================================
