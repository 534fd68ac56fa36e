------------------------------ MODULE Channel ------------------------------
(***************************************************************************)
(* An unbounded channel between fibers (src/sync/channel.rs), composed     *)
(* with the runtime that runs the fibers.                                  *)
(*                                                                         *)
(* Sender and Receiver are reference-counted: the model records which      *)
(* fibers' closures own a clone.  The channel exists from the start and    *)
(* belongs to the root fiber, which passes clones on when it spawns.  A    *)
(* fiber in recv stands at the runtime's label "Parked".                   *)
(***************************************************************************)
EXTENDS Runtime

CONSTANTS
    MaxMessages,  \* bound on the messages sent
    CloseCalls    \* which of the explicit closes are called: "tx", "rx"

ASSUME MaxMessagesAssumption == MaxMessages \in Nat
ASSUME CloseCallsAssumption == CloseCalls \subseteq {"tx", "rx"}

VARIABLES
    queue,            \* ChannelState::queue; messages are numbered as sent
    no_longer_empty,  \* ChannelState::no_longer_empty, the wakers of receivers
    is_closed,        \* ChannelState::is_closed
    senders,          \* fibers whose closure owns a Sender
    receivers,        \* fibers whose closure owns a Receiver
    sent,             \* number of messages sent
    received          \* messages received, in order

channelVars == <<queue, no_longer_empty, is_closed, senders, receivers, sent, received>>

ChannelTypeOK ==
    /\ TypeOK
    /\ queue \in Seq(1 .. MaxMessages)
    /\ no_longer_empty \in Seq(Slots)
    /\ is_closed \in BOOLEAN
    /\ senders \subseteq Slots
    /\ receivers \subseteq Slots
    /\ sent \in 0 .. MaxMessages
    /\ received \in Seq(1 .. MaxMessages)

\* unbounded, called by the root before anything else
ChannelInit ==
    /\ Init
    /\ queue = <<>>
    /\ no_longer_empty = <<>>
    /\ is_closed = FALSE
    /\ senders = {Root}
    /\ receivers = {Root}
    /\ sent = 0
    /\ received = <<>>

\* The runtime's variables that no channel operation touches.
OtherRuntimeVars ==
    <<interfaceVars, mode, parent, children, join_handle, is_cancelled, syscall_result,
      result_is_error, target, handle, stackVars>>

-----------------------------------------------------------------------------

\* (mutant) a send wakes a receiver only if it finds the queue empty.
MutSendIfEmpty(i) ==
    /\ At(i, "User")
    /\ i \in senders
    /\ ~is_closed
    /\ sent < MaxMessages
    /\ sent' = sent + 1
    /\ queue' = Append(queue, sent + 1)
    /\ IF no_longer_empty # <<>> /\ queue = <<>>
       THEN /\ no_longer_empty' = Tail(no_longer_empty)
            /\ ready_fibers' = Schedule(ready_fibers, Head(no_longer_empty))
       ELSE UNCHANGED <<no_longer_empty, ready_fibers>>
    /\ UNCHANGED <<OtherRuntimeVars, pc, running_fiber, is_closed, senders, receivers, received>>

\* (mutant) a send wakes the first receiver and leaves its waker in the list.
MutSendPeek(i) ==
    /\ At(i, "User")
    /\ i \in senders
    /\ ~is_closed
    /\ sent < MaxMessages
    /\ sent' = sent + 1
    /\ queue' = Append(queue, sent + 1)
    /\ ready_fibers' = IF no_longer_empty = <<>> THEN ready_fibers
                       ELSE Schedule(ready_fibers, Head(no_longer_empty))
    /\ UNCHANGED <<OtherRuntimeVars, pc, running_fiber, is_closed, senders, receivers, received,
                   no_longer_empty>>

\* Sender::send on an open channel wakes the receiver that waits longest.
Send(i) ==
    /\ At(i, "User")
    /\ i \in senders
    /\ ~is_closed
    /\ sent < MaxMessages
    /\ sent' = sent + 1
    /\ queue' = Append(queue, sent + 1)
    /\ \/ /\ no_longer_empty # <<>>
          /\ no_longer_empty' = Tail(no_longer_empty)
          /\ ready_fibers' = Schedule(ready_fibers, Head(no_longer_empty))
       \/ /\ no_longer_empty = <<>>
          /\ UNCHANGED <<no_longer_empty, ready_fibers>>
    /\ UNCHANGED <<OtherRuntimeVars, pc, running_fiber, is_closed, senders, receivers, received>>

\* (mutant) pop_back in place of pop_front.
MutRecvLast(i) ==
    /\ At(i, "User") \/ At(i, "Parked")
    /\ i \in receivers
    /\ queue # <<>>
    /\ queue' = Front(queue)
    /\ received' = Append(received, Last(queue))
    /\ pc' = [pc EXCEPT ![i] = "User"]
    /\ UNCHANGED <<OtherRuntimeVars, ready_fibers, is_closed, senders, receivers, sent,
                   no_longer_empty, running_fiber>>

\* One round of the loop in Receiver::recv, at the call (label "User") or after
\* a park: a message, an error, or another park.
Recv(i) ==
    /\ At(i, "User") \/ At(i, "Parked")
    /\ i \in receivers
    /\ \/ /\ queue # <<>>
          /\ queue' = Tail(queue)
          /\ received' = Append(received, Head(queue))
          /\ pc' = [pc EXCEPT ![i] = "User"]
          /\ UNCHANGED <<no_longer_empty, running_fiber>>
       \/ /\ queue = <<>>
          /\ is_closed \/ i \in is_cancelled
          /\ pc' = [pc EXCEPT ![i] = "User"]
          /\ UNCHANGED <<queue, received, no_longer_empty, running_fiber>>
       \/ /\ queue = <<>>
          /\ ~is_closed
          /\ i \notin is_cancelled
          /\ no_longer_empty' = Append(no_longer_empty, i)
          /\ Park(i, "Parked")
          /\ UNCHANGED <<queue, received>>
    /\ UNCHANGED <<OtherRuntimeVars, ready_fibers, is_closed, senders, receivers, sent>>

\* The fibers whose wakers are in no_longer_empty and who are not queued yet, in
\* the order of their first wakers.
InWakerOrder ==
    {w \in SetToSeqs(ToSet(no_longer_empty) \ ToSet(ready_fibers)) :
        \A k, l \in DOMAIN w : k < l =>
            \E a \in DOMAIN no_longer_empty :
                no_longer_empty[a] = w[k] /\ \A b \in 1 .. a : no_longer_empty[b] # w[l]}

\* (mutant) the sender's close only sets the flag, as the receiver's does.
MutCloseSender ==
    /\ is_closed' = TRUE
    /\ UNCHANGED <<ready_fibers, no_longer_empty>>

\* SenderState::close wakes every waiting receiver.
CloseSender ==
    /\ is_closed' = TRUE
    /\ \E w \in InWakerOrder : ready_fibers' = ready_fibers \o w
    /\ no_longer_empty' = <<>>

\* Receiver::close and ReceiverState::drop only set the flag.
CloseReceiver ==
    /\ is_closed' = TRUE
    /\ UNCHANGED <<ready_fibers, no_longer_empty>>

Close(i) ==
    /\ At(i, "User")
    /\ \/ "tx" \in CloseCalls /\ i \in senders /\ CloseSender
       \/ "rx" \in CloseCalls /\ i \in receivers /\ CloseReceiver
    /\ UNCHANGED <<OtherRuntimeVars, pc, running_fiber, queue, senders, receivers, sent, received>>

\* Dropping a clone of an end; the last one closes the channel.
DropEnd(i) ==
    /\ At(i, "User")
    /\ \/ /\ i \in senders
          /\ senders' = senders \ {i}
          /\ IF senders' = {} THEN CloseSender
             ELSE UNCHANGED <<is_closed, ready_fibers, no_longer_empty>>
          /\ UNCHANGED receivers
       \/ /\ i \in receivers
          /\ receivers' = receivers \ {i}
          /\ IF receivers' = {} THEN CloseReceiver
             ELSE UNCHANGED <<is_closed, ready_fibers, no_longer_empty>>
          /\ UNCHANGED senders
    /\ UNCHANGED <<OtherRuntimeVars, pc, running_fiber, queue, sent, received>>

\* spawn of a closure that takes clones of some of the ends its spawner owns.
SpawnWith(i, c, ends) ==
    /\ Spawn(i, c, {})
    /\ "tx" \in ends => i \in senders
    /\ "rx" \in ends => i \in receivers
    /\ senders' = IF "tx" \in ends THEN senders \cup {c} ELSE senders
    /\ receivers' = IF "rx" \in ends THEN receivers \cup {c} ELSE receivers
    /\ UNCHANGED <<queue, no_longer_empty, is_closed, sent, received>>

\* The other calls of the runtime; a closure ends after it dropped its ends.
OtherCall(i) ==
    /\ Call(i)
    /\ i \in senders \cup receivers => pc'[i] \notin {"Children", "Done", "Vacant"}
    /\ UNCHANGED channelVars

RuntimeStep ==
    /\ \/ Start
       \/ \E i \in Slots : Resume(i)
       \/ \E i \in Slots : Kernel(i)
       \/ ProcessIo
       \/ DropRuntime
       \/ Terminated
    /\ UNCHANGED channelVars

ChannelNext ==
    \/ \E i \in Slots : Send(i) \/ Recv(i) \/ Close(i) \/ DropEnd(i)
    \/ \E i, c \in Slots : \E ends \in SUBSET {"tx", "rx"} : SpawnWith(i, c, ends)
    \/ \E i \in Slots : OtherCall(i)
    \/ RuntimeStep

ChannelSpec == ChannelInit /\ [][ChannelNext]_<<vars, channelVars>>

-----------------------------------------------------------------------------

\* Fiber s sleeps in recv.
Waiting(s) == pc[s] = "Parked" /\ ~Scheduled(s)

\* Messages are received once each and in the order they were sent, whichever
\* receivers take them and however the channel is closed.
InOrderExactlyOnce ==
    received \o queue = [k \in 1 .. sent |-> k]

\* No wake-up is lost: while a message waits in the queue, no receiver sleeps
\* unless another one has been woken and will look at the queue.
NoLostWakeup ==
    queue # <<>> =>
        \/ \A s \in Slots : ~Waiting(s)
        \/ \E s \in Slots : pc[s] = "Parked" /\ Scheduled(s)

\* The wakers in the channel are those of the sleeping receivers, one each: a
\* send cannot wake a fiber that waits for something else.
WakersAreReceivers ==
    /\ IsInjective(no_longer_empty)
    /\ ToSet(no_longer_empty) = {s \in Slots : Waiting(s)}

\* Once every Sender is gone, nobody sleeps in recv: the last drop closes the
\* channel and wakes all of them, also after a Receiver's close, which wakes none.
NoSenderNobodyWaits ==
    senders = {} => \A s \in Slots : ~Waiting(s)

\* A channel is a MessageQueue.  A receiver sleeps while it is parked and not
\* scheduled, and is woken from then on until it runs and looks at the queue.
Promise == INSTANCE MessageQueue WITH
    Fiber <- Slots,
    contents <- queue,
    closed <- is_closed,
    asleep <- {s \in Slots : Waiting(s)},
    woken <- {s \in Slots : pc[s] = "Parked" /\ Scheduled(s)}

\* Every step of the channel is one the promise allows, whatever else the fibers
\* do meanwhile: the runtime itself neither wakes a receiver nor puts one to sleep.
IsMessageQueue == Promise!QueueSpec

=============================================================================
