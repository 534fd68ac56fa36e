---------------------------- MODULE MessageQueue ----------------------------
(***************************************************************************)
(* What a channel promises while nobody is cancelled: a queue of messages, *)
(* each of which goes to one receiver, in the order in which they were     *)
(* sent; a fiber falls asleep only at a queue that is empty and open, and  *)
(* each message wakes one of those asleep.                                 *)
(***************************************************************************)
EXTENDS Naturals, Sequences

CONSTANT Fiber  \* who may receive

VARIABLES
    contents,  \* the messages that were sent and not yet received
    sent,      \* number of messages sent
    received,  \* messages received, in order
    closed,    \* nothing can be sent any more
    asleep,    \* receivers that sleep until a message or a close
    woken      \* receivers that were woken and have not looked at the queue yet

queueVars == <<contents, sent, received, closed, asleep, woken>>

QueueInit ==
    /\ contents = <<>>
    /\ sent = 0
    /\ received = <<>>
    /\ closed = FALSE
    /\ asleep = {}
    /\ woken = {}

\* A message goes to the end of the queue and wakes one receiver, if one sleeps.
Send ==
    /\ ~closed
    /\ sent' = sent + 1
    /\ contents' = Append(contents, sent + 1)
    /\ \/ \E r \in asleep : asleep' = asleep \ {r} /\ woken' = woken \cup {r}
       \/ asleep = {} /\ UNCHANGED <<asleep, woken>>
    /\ UNCHANGED <<received, closed>>

\* A receiver that is awake takes the first message.
Receive(r) ==
    /\ r \notin asleep
    /\ contents # <<>>
    /\ contents' = Tail(contents)
    /\ received' = Append(received, Head(contents))
    /\ woken' = woken \ {r}
    /\ UNCHANGED <<sent, closed, asleep>>

\* It is told that nothing will come.
Refuse(r) ==
    /\ r \notin asleep
    /\ contents = <<>> /\ closed
    /\ woken' = woken \ {r}
    /\ UNCHANGED <<contents, sent, received, closed, asleep>>

\* It falls asleep.
Sleep(r) ==
    /\ r \notin asleep
    /\ contents = <<>> /\ ~closed
    /\ asleep' = asleep \cup {r}
    /\ woken' = woken \ {r}
    /\ UNCHANGED <<contents, sent, received, closed>>

\* The senders' close wakes everybody, that of the receivers nobody.
Close ==
    /\ closed' = TRUE
    /\ \/ asleep' = {} /\ woken' = woken \cup asleep
       \/ UNCHANGED <<asleep, woken>>
    /\ UNCHANGED <<contents, sent, received>>

QueueNext ==
    \/ Send
    \/ \E r \in Fiber : Receive(r) \/ Refuse(r) \/ Sleep(r)
    \/ Close

QueueSpec == QueueInit /\ [][QueueNext]_queueVars

=============================================================================
