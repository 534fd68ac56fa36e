--------------------------- MODULE ChannelProofs ---------------------------
(***************************************************************************)
(* Theorems about the channel, for every number of fibers and messages.    *)
(*                                                                         *)
(* That messages arrive once and in order needs no more than the types.    *)
(* That no receiver sleeps beside a message needs the runtime's invariant  *)
(* (a fiber is queued once, nobody else wakes a fiber in recv) and that    *)
(* nobody is cancelled: ChannelCancel.cfg shows what happens otherwise.    *)
(***************************************************************************)
EXTENDS Channel, RuntimeSafety

-----------------------------------------------------------------------------
(* Types and order. *)

Messages == 1 .. MaxMessages
OrderInv == StackInv /\ ChannelTypeOK /\ InOrderExactlyOnce

\* Appending to the second of two sequences appends to both together.
LEMMA AppendConcat ==
    ASSUME NEW S, NEW r \in Seq(S), NEW q \in Seq(S), NEW x \in S
    PROVE  r \o Append(q, x) = Append(r \o q, x)
  <1>1. Append(q, x) = q \o <<x>> /\ <<x>> \in Seq(S)
    BY AppendIsConcat
  <1>2. r \o q \in Seq(S)
    BY ConcatProperties
  <1>3. Append(r \o q, x) = (r \o q) \o <<x>>
    BY <1>2, AppendIsConcat
  <1>4. (r \o q) \o <<x>> = r \o (q \o <<x>>)
    BY <1>1, ConcatAssociative
  <1> QED
    BY <1>1, <1>3, <1>4, Zenon

\* The types of the results of the operations on queues.
LEMMA SeqTypes ==
    ASSUME NEW S, NEW q \in Seq(S)
    PROVE  /\ <<>> \in Seq(S)
           /\ \A x \in S : Append(q, x) \in Seq(S)
           /\ q # <<>> => Head(q) \in S /\ Tail(q) \in Seq(S)
  OBVIOUS

\* The messages up to n.
Numbers(n) == [k \in 1 .. n |-> k]

\* A message joins the end of the queue.
LEMMA SendOrder ==
    ASSUME NEW r \in Seq(Messages), NEW q \in Seq(Messages), NEW n \in 0 .. MaxMessages - 1
    PROVE  r \o q = Numbers(n) => r \o Append(q, n + 1) = Numbers(n + 1)
  <1>1. n \in Nat /\ n + 1 \in Messages
    BY MaxMessagesAssumption DEF Messages
  <1>2. r \o Append(q, n + 1) = Append(r \o q, n + 1)
    BY <1>1, AppendConcat
  <1>3. r \o q \in Seq(Messages)
    BY ConcatProperties
  <1> SUFFICES ASSUME r \o q = [k \in 1 .. n |-> k]
               PROVE  r \o Append(q, n + 1) = [k \in 1 .. n + 1 |-> k]
    BY DEF Numbers
  <1>4. [k \in 1 .. n |-> k] \in Seq(Messages)
    BY <1>3
  <1>5. Append([k \in 1 .. n |-> k], n + 1) = [k \in 1 .. n + 1 |-> k]
    BY <1>1, <1>4
  <1> QED
    BY <1>2, <1>5 DEF Numbers

\* The first message of the queue is the next one received.
LEMMA RecvOrder ==
    ASSUME NEW r \in Seq(Messages), NEW q \in Seq(Messages), q # <<>>
    PROVE  Append(r, Head(q)) \o Tail(q) = r \o q
  <1>1. Len(r) \in Nat /\ Len(q) \in Nat \ {0} /\ Tail(q) \in Seq(Messages)
        /\ Len(Tail(q)) = Len(q) - 1 /\ Head(q) \in Messages /\ Head(q) = q[1]
    OBVIOUS
  <1> DEFINE a == Append(r, Head(q)) \o Tail(q)
             b == r \o q
  <1>2. DOMAIN a = 1 .. Len(r) + Len(q) /\ DOMAIN b = 1 .. Len(r) + Len(q)
    BY <1>1
  <1>3. ASSUME NEW k \in 1 .. Len(r) + Len(q) PROVE a[k] = b[k]
    <2>1. CASE k \in 1 .. Len(r)
      BY <1>1, <2>1
    <2>2. CASE k = Len(r) + 1
      BY <1>1, <2>2
    <2>3. CASE k \in Len(r) + 2 .. Len(r) + Len(q)
      <3>1. a[k] = Tail(q)[k - (Len(r) + 1)]
        BY <1>1, <2>3
      <3>2. Tail(q)[k - (Len(r) + 1)] = q[k - Len(r)]
        BY <1>1, <2>3
      <3>3. b[k] = q[k - Len(r)]
        BY <1>1, <2>3
      <3> QED
        BY <3>1, <3>2, <3>3
    <2> QED
      BY <1>1, <2>1, <2>2, <2>3
  <1>4. a \in Seq(Messages) /\ b \in Seq(Messages)
    BY <1>1
  <1> QED
    BY <1>2, <1>3, <1>4

\* An operation of the channel in fiber i leaves the runtime well-typed.
LEMMA ChannelStackInv ==
    ASSUME StackInv, NEW i \in Slots, NEW l \in {"User", "Parked"}, mode = "run",
           pc[i] \in {"User", "Parked"}, pc' = [pc EXCEPT ![i] = l], UNCHANGED OtherRuntimeVars,
           ready_fibers' \in Seq(Slots), running_fiber' \in Slots \cup {NoFiber}
    PROVE  StackInv'
  BY ClosureStackInv DEF OtherRuntimeVars

\* What a close of the sender leaves in the ready queue.
LEMMA CloseSenderQueue ==
    ASSUME TypeOK, no_longer_empty \in Seq(Slots), CloseSender
    PROVE  /\ ready_fibers' \in Seq(Slots)
           /\ ToSet(ready_fibers') = ToSet(ready_fibers) \cup ToSet(no_longer_empty)
           /\ IsInjective(ready_fibers) => IsInjective(ready_fibers')
           /\ is_closed' = TRUE /\ no_longer_empty' = <<>>
  <1> DEFINE W == ToSet(no_longer_empty) \ ToSet(ready_fibers)
  <1>1. W \in SUBSET Slots /\ W \cap ToSet(ready_fibers) = {} /\ ready_fibers \in Seq(Slots)
    BY DEF ToSet, TypeOK
  <1>2. PICK w \in SetToSeqs(W) : ready_fibers' = ready_fibers \o w
    BY DEF CloseSender, InWakerOrder
  <1>3. ToSet(ready_fibers) \cup ToSet(no_longer_empty) = ToSet(ready_fibers) \cup W
    OBVIOUS
  <1>4. is_closed' = TRUE /\ no_longer_empty' = <<>>
    BY DEF CloseSender
  <1> HIDE DEF W
  <1> QED
    BY <1>1, <1>2, <1>3, <1>4, SetToSeqsSet

\* The operations of the channel keep types and order.
LEMMA OrderChannel ==
    ASSUME OrderInv, NEW i \in Slots, Send(i) \/ Recv(i) \/ Close(i) \/ DropEnd(i)
    PROVE  OrderInv'
  <1>1. /\ StackInv /\ TypeOK /\ ready_fibers \in Seq(Slots) /\ pc \in [Slots -> Labels]
        /\ running_fiber \in Slots \cup {NoFiber}
        /\ queue \in Seq(Messages) /\ no_longer_empty \in Seq(Slots) /\ is_closed \in BOOLEAN
        /\ senders \subseteq Slots /\ receivers \subseteq Slots
        /\ sent \in 0 .. MaxMessages /\ received \in Seq(Messages)
    BY DEF OrderInv, ChannelTypeOK, TypeOK, Messages
  <1>o. received \o queue = [k \in 1 .. sent |-> k]
    BY DEF OrderInv, InOrderExactlyOnce
  <1>2. SUFFICES ASSUME StackInv'
                 PROVE  /\ queue' \in Seq(Messages) /\ no_longer_empty' \in Seq(Slots)
                        /\ is_closed' \in BOOLEAN
                        /\ senders' \subseteq Slots /\ receivers' \subseteq Slots
                        /\ sent' \in 0 .. MaxMessages /\ received' \in Seq(Messages)
                        /\ received' \o queue' = [k \in 1 .. sent' |-> k]
    <2>1. CASE Send(i)
      <3>1. /\ mode = "run" /\ pc[i] = "User" /\ UNCHANGED <<OtherRuntimeVars, pc, running_fiber>>
        BY <2>1 DEF Send, At
      <3>2. ready_fibers' \in Seq(Slots)
        <4>1. no_longer_empty # <<>> => Head(no_longer_empty) \in Slots
          BY <1>1, SeqTypes
        <4>2. no_longer_empty # <<>> => Schedule(ready_fibers, Head(no_longer_empty)) \in Seq(Slots)
          BY <1>1, <4>1, ScheduleType
        <4> QED
          BY <1>1, <2>1, <4>2 DEF Send
      <3>3. pc' = [pc EXCEPT ![i] = "User"]
        BY <1>1, <3>1
      <3> QED
        BY <1>1, <3>1, <3>2, <3>3, ChannelStackInv
        DEF OrderInv, ChannelTypeOK, InOrderExactlyOnce, StackInv, Messages
    <2>2. CASE Recv(i)
      <3>1. /\ mode = "run" /\ pc[i] \in {"User", "Parked"} /\ UNCHANGED OtherRuntimeVars
            /\ ready_fibers' = ready_fibers
            /\ running_fiber' \in Slots \cup {NoFiber}
            /\ \E l \in {"User", "Parked"} : pc' = [pc EXCEPT ![i] = l]
        BY <1>1, <2>2 DEF Recv, At, Park
      <3> QED
        BY <1>1, <3>1, ChannelStackInv
        DEF OrderInv, ChannelTypeOK, InOrderExactlyOnce, StackInv, Messages
    <2>3. CASE Close(i) \/ DropEnd(i)
      <3>1. /\ mode = "run" /\ pc[i] = "User" /\ UNCHANGED <<OtherRuntimeVars, pc, running_fiber>>
        BY <2>3 DEF Close, DropEnd, At
      <3>2. ready_fibers' \in Seq(Slots)
        BY <1>1, <2>3, CloseSenderQueue DEF Close, DropEnd, CloseReceiver
      <3>3. pc' = [pc EXCEPT ![i] = "User"]
        BY <1>1, <3>1
      <3> QED
        BY <1>1, <3>1, <3>2, <3>3, ChannelStackInv
        DEF OrderInv, ChannelTypeOK, InOrderExactlyOnce, StackInv, Messages
    <2> QED
      BY <2>1, <2>2, <2>3
  <1>3. CASE Send(i)
    <2>1. /\ sent < MaxMessages /\ sent' = sent + 1 /\ queue' = Append(queue, sent + 1)
          /\ UNCHANGED <<is_closed, senders, receivers, received>>
          /\ \/ no_longer_empty' = no_longer_empty
             \/ no_longer_empty # <<>> /\ no_longer_empty' = Tail(no_longer_empty)
      BY <1>3 DEF Send
    <2>2. sent \in 0 .. MaxMessages - 1 /\ sent + 1 \in Messages /\ sent' \in 0 .. MaxMessages
      BY <1>1, <2>1, MaxMessagesAssumption DEF Messages
    <2>3. no_longer_empty' \in Seq(Slots)
      BY <1>1, <2>1, SeqTypes
    <2>4. queue' \in Seq(Messages)
      BY <1>1, <2>1, <2>2
    <2>5. received' \o queue' = [k \in 1 .. sent' |-> k]
      <3>1. received \o Append(queue, sent + 1) = Numbers(sent + 1)
        <4>1. received \in Seq(Messages) /\ queue \in Seq(Messages) /\ sent \in 0 .. MaxMessages - 1
          BY <1>1, <2>2
        <4>2. received \o queue = Numbers(sent)
          BY <1>o DEF Numbers
        <4> QED
          BY <4>1, <4>2, SendOrder
      <3> QED
        BY <2>1, <3>1, Zenon DEF Numbers
    <2> QED
      BY <1>1, <2>1, <2>2, <2>3, <2>4, <2>5
  <1>4. CASE Recv(i)
    <2>1. /\ UNCHANGED <<is_closed, senders, receivers, sent>>
          /\ \/ /\ queue # <<>> /\ queue' = Tail(queue)
                /\ received' = Append(received, Head(queue))
             \/ UNCHANGED <<queue, received>>
          /\ no_longer_empty' = no_longer_empty \/ no_longer_empty' = Append(no_longer_empty, i)
      BY <1>4 DEF Recv
    <2>2. no_longer_empty' \in Seq(Slots)
      BY <1>1, <2>1, SeqTypes
    <2>3. queue' \in Seq(Messages) /\ received' \in Seq(Messages)
      BY <1>1, <2>1, SeqTypes
    <2>4. received' \o queue' = received \o queue
      BY <1>1, <2>1, RecvOrder
    <2> QED
      BY <1>1, <1>o, <2>1, <2>2, <2>3, <2>4
  <1>5. CASE Close(i) \/ DropEnd(i)
    <2>1. /\ UNCHANGED <<queue, sent, received>>
          /\ senders' \subseteq senders /\ receivers' \subseteq receivers
          /\ is_closed' \in {TRUE, is_closed}
          /\ no_longer_empty' \in {<<>>, no_longer_empty}
      BY <1>5 DEF Close, DropEnd, CloseSender, CloseReceiver
    <2>2. no_longer_empty' \in Seq(Slots)
      BY <1>1, <2>1, SeqTypes
    <2> QED
      BY <1>1, <1>o, <2>1, <2>2
  <1> QED
    BY <1>3, <1>4, <1>5

\* Types and order hold initially.
LEMMA OrderInit == ChannelInit => OrderInv
  <1> SUFFICES ASSUME ChannelInit PROVE OrderInv
    OBVIOUS
  <1>1. StackInv /\ TypeOK
    BY StackInvInit DEF ChannelInit, StackInv
  <1>2. InOrderExactlyOnce
    BY DEF ChannelInit, InOrderExactlyOnce
  <1>3. ChannelTypeOK
    <2>1. <<>> \in Seq(1 .. MaxMessages) /\ <<>> \in Seq(Slots)
      BY EmptySeq
    <2>2. 0 \in 0 .. MaxMessages /\ {Root} \subseteq Slots
      BY SlotsFacts, MaxMessagesAssumption
    <2> QED
      BY <1>1, <2>1, <2>2, Zenon DEF ChannelInit, ChannelTypeOK
  <1> QED
    BY <1>1, <1>2, <1>3 DEF OrderInv

\* Every step keeps types and order.
LEMMA OrderNext == OrderInv /\ [ChannelNext]_<<vars, channelVars>> => OrderInv'
  <1> SUFFICES ASSUME OrderInv, [ChannelNext]_<<vars, channelVars>> PROVE OrderInv'
    OBVIOUS
  <1>1. CASE \E i \in Slots : Send(i) \/ Recv(i) \/ Close(i) \/ DropEnd(i)
    BY <1>1, OrderChannel
  <1>2. ASSUME StackInv', UNCHANGED <<queue, no_longer_empty, is_closed, sent, received>>,
               senders' \subseteq Slots, receivers' \subseteq Slots
        PROVE  OrderInv'
    BY <1>2 DEF OrderInv, ChannelTypeOK, InOrderExactlyOnce, StackInv
  <1>3. senders \subseteq Slots /\ receivers \subseteq Slots /\ StackInv
    BY DEF OrderInv, ChannelTypeOK
  <1>4. CASE \E i, c \in Slots : \E ends \in SUBSET {"tx", "rx"} : SpawnWith(i, c, ends)
    <2>1. PICK i \in Slots, c \in Slots, ends \in SUBSET {"tx", "rx"} : SpawnWith(i, c, ends)
      BY <1>4
    <2>2. StackInv'
      BY <1>3, <2>1, SpawnStep DEF SpawnWith
    <2> QED
      BY <1>2, <1>3, <2>1, <2>2 DEF SpawnWith
  <1>5. CASE \E i \in Slots : OtherCall(i)
    <2>1. StackInv'
      BY <1>3, <1>5, StackInvNext DEF OtherCall, Next
    <2> QED
      BY <1>2, <1>3, <1>5, <2>1 DEF OtherCall, channelVars
  <1>6. CASE RuntimeStep
    <2>1. StackInv'
      BY <1>3, <1>6, StackInvNext DEF RuntimeStep, Next
    <2> QED
      BY <1>2, <1>3, <1>6, <2>1 DEF RuntimeStep, channelVars
  <1>7. CASE UNCHANGED <<vars, channelVars>>
    <2>1. StackInv'
      BY <1>3, <1>7, StackInvNext
    <2> QED
      BY <1>2, <1>3, <1>7, <2>1 DEF channelVars
  <1> QED
    BY <1>1, <1>4, <1>5, <1>6, <1>7 DEF ChannelNext

\* Types and order hold in every state of the channel.
LEMMA OrderAlways == ChannelSpec => []OrderInv
  BY OrderInit, OrderNext, PTL DEF ChannelSpec

\* The channel keeps its types, whatever closures do with its ends.
THEOREM ChannelTypeCorrect == ChannelSpec => []ChannelTypeOK
  BY OrderAlways, PTL DEF OrderInv

\* Every message is received at most once and in the order of the sends, by any
\* number of senders and receivers, under cancellation and panics, with early
\* closes of either end.
THEOREM MessagesInOrder == ChannelSpec => []InOrderExactlyOnce
  BY OrderAlways, PTL DEF OrderInv

-----------------------------------------------------------------------------
(* The runtime leaves fibers in recv alone, unless somebody is cancelled.  *)

NoCancelCalls == Calls \cap {"cancel", "cancel_self", "propagate", "panic"} = {}

\* Only the end of a closure has set a flag.
Uncancelled ==
    /\ result_is_error = {}
    /\ \A s \in is_cancelled : Completed(s)

\* A step that neither parks nor wakes a fiber in recv, nor lets one continue.
Undisturbed ==
    \A s \in Slots :
        /\ pc'[s] = "Parked" <=> pc[s] = "Parked"
        /\ pc[s] = "Parked" => (Scheduled(s)' <=> Scheduled(s))

\* A step that changes the labels of at most two fibers, neither in recv, and
\* queues nobody who is.
LEMMA UndisturbedStep ==
    ASSUME NEW i \in Slots, NEW j \in Slots, pc[i] # "Parked", pc[j] # "Parked",
           \A s \in Slots : pc'[s] = pc[s] \/ (s \in {i, j} /\ pc'[s] # "Parked"),
           \A s \in Slots : s \in Ready' <=> s \in Ready \/ (s \in Ready' /\ pc[s] # "Parked"),
           \/ running_fiber' = running_fiber
           \/ running_fiber = i /\ running_fiber' = NoFiber
    PROVE  Undisturbed
  BY SlotsFacts DEF Undisturbed, Scheduled, Ready

\* Release of a handle whose owner is not in recv.
LEMMA ReleaseUndisturbed ==
    ASSUME RuntimeInv, Uncancelled, NEW i \in Slots, NEW j \in Slots, mode = "run", running_fiber = i,
           handle[j] = i, pc[i] # "Parked", Release(j, [pc EXCEPT ![i] = "User"]),
           UNCHANGED schedVars
    PROVE  Undisturbed /\ Uncancelled'
  <1>1. TypeOK /\ is_cancelled \subseteq Slots /\ pc \in [Slots -> Labels] /\ ~Completed(i)
    BY DEF RuntimeInv, StateInv, StackInv, TypeOK, Handles, Active, Completed
  <1>2. UNCHANGED <<ready_fibers, running_fiber>>
    BY DEF schedVars
  <1>3. CASE Completed(j)
    <2>1. /\ pc' = [[pc EXCEPT ![i] = "User"] EXCEPT ![j] = "Vacant"]
          /\ is_cancelled' = is_cancelled \ {j} /\ result_is_error' = result_is_error \ {j}
      BY <1>3 DEF Release, Free
    <2>2. \A s \in Slots : pc'[s] = IF s = j THEN "Vacant" ELSE IF s = i THEN "User" ELSE pc[s]
      BY <1>1, <2>1
    <2>3. Undisturbed
      BY <1>2, <1>3, <2>2, UndisturbedStep DEF Ready, Completed
    <2>4. Uncancelled'
      BY <1>1, <2>1, <2>2 DEF Uncancelled, Completed
    <2> QED
      BY <2>3, <2>4
  <1>4. CASE ~Completed(j)
    <2>1. /\ pc' = [pc EXCEPT ![i] = "User"] /\ UNCHANGED <<is_cancelled, result_is_error>>
      BY <1>4 DEF Release
    <2>2. \A s \in Slots : pc'[s] = IF s = i THEN "User" ELSE pc[s]
      BY <1>1, <2>1
    <2>3. Undisturbed
      BY <1>2, <2>2, UndisturbedStep DEF Ready
    <2>4. Uncancelled'
      BY <1>1, <2>1, <2>2 DEF Uncancelled, Completed
    <2> QED
      BY <2>3, <2>4
  <1> QED
    BY <1>3, <1>4

\* A fiber that is not in recv moves to another label that is not recv's.
LEMMA MoveUndisturbed ==
    ASSUME RuntimeInv, Uncancelled, NEW i \in Slots, NEW l \in Labels \ {"Parked"},
           mode = "run", running_fiber = i, pc[i] # "Parked", ~Completed(i),
           pc' = [pc EXCEPT ![i] = l],
           running_fiber' \in {i, NoFiber}, UNCHANGED <<is_cancelled, result_is_error>>,
           Ready' = Ready \/ Ready' = Ready \cup {i}
    PROVE  Undisturbed /\ Uncancelled'
  <1>1. TypeOK /\ is_cancelled \subseteq Slots /\ pc \in [Slots -> Labels]
    BY DEF RuntimeInv, StateInv, StackInv, TypeOK
  <1>2. \A s \in Slots : pc'[s] = IF s = i THEN l ELSE pc[s]
    BY <1>1
  <1>3. Undisturbed
    BY <1>2, UndisturbedStep
  <1>4. Uncancelled'
    BY <1>1, <1>2 DEF Uncancelled, Completed
  <1> QED
    BY <1>3, <1>4

\* join and its parks.
LEMMA JoinUndisturbed ==
    ASSUME RuntimeInv, Uncancelled, NEW i \in Slots,
           \/ \E j \in Slots : Join(i, j) \/ DropHandle(i, j)
           \/ ResumeJoin1(i)
           \/ ResumeJoin2(i)
    PROVE  Undisturbed /\ Uncancelled'
  <1>1. TypeOK /\ pc \in [Slots -> Labels] /\ Joins
    BY DEF RuntimeInv, StateInv, StackInv, TypeOK
  <1>2. ASSUME NEW j \in Slots, At(i, "User"), handle[j] = i, Release(j, pc), UNCHANGED schedVars
        PROVE  Undisturbed /\ Uncancelled'
    <2>1. pc = [pc EXCEPT ![i] = "User"]
      BY <1>1, <1>2 DEF At
    <2> QED
      BY <1>2, <2>1, ReleaseUndisturbed DEF At
  <1>3. ASSUME NEW l \in {"Join1", "Join2"}, At(i, l), ReturnFromJoin(i), UNCHANGED ready_fibers
        PROVE  Undisturbed /\ Uncancelled'
    <2>1. PICK j \in Slots : target[i] = j /\ handle[j] = i
      BY <1>1, <1>3 DEF Joins, Joining, At
    <2>2. UNCHANGED schedVars /\ Release(j, [pc EXCEPT ![i] = "User"])
      BY <1>3, <2>1 DEF ReturnFromJoin, schedVars
    <2> QED
      BY <1>3, <2>1, <2>2, ReleaseUndisturbed DEF At
  <1>4. ASSUME NEW l \in {"User", "Join1"}, NEW m \in {"Join1", "Join2"}, At(i, l), Park(i, m),
               UNCHANGED <<is_cancelled, result_is_error, ready_fibers>>
        PROVE  Undisturbed /\ Uncancelled'
    <2>1. /\ mode = "run" /\ running_fiber = i /\ pc[i] # "Parked" /\ ~Completed(i)
          /\ m \in Labels \ {"Parked"}
      BY <1>4 DEF At, Completed, Labels
    <2> QED
      BY <1>4, <2>1, MoveUndisturbed DEF Park, Ready
  <1>5. CASE \E j \in Slots : Join(i, j) \/ DropHandle(i, j)
    BY <1>2, <1>4, <1>5 DEF Join, DropHandle, schedVars
  <1>6. CASE ResumeJoin1(i) \/ ResumeJoin2(i)
    BY <1>3, <1>4, <1>6 DEF ResumeJoin1, ResumeJoin2
  <1> QED
    BY <1>5, <1>6

\* System calls, yield_now and mem::forget.
LEMMA CallUndisturbed ==
    ASSUME RuntimeInv, Uncancelled, NEW i \in Slots,
           \/ YieldNow(i) \/ Syscall(i) \/ ResumeSys1(i) \/ ResumeSys2(i)
           \/ \E j \in Slots : ForgetHandle(i, j) \/ \E k \in Slots : GiveHandle(i, j, k)
    PROVE  Undisturbed /\ Uncancelled'
  <1>1. TypeOK /\ ready_fibers \in Seq(Slots) /\ pc \in [Slots -> Labels]
    BY DEF RuntimeInv, StateInv, StackInv, TypeOK
  <1>2. PICK l \in {"User", "Sys1", "Sys2"} :
             /\ mode = "run" /\ running_fiber = i /\ pc[i] \in {"User", "Sys1", "Sys2"}
             /\ pc' = [pc EXCEPT ![i] = l]
             /\ running_fiber' \in {i, NoFiber} /\ UNCHANGED <<is_cancelled, result_is_error>>
             /\ ready_fibers' = ready_fibers \/ ready_fibers' = Schedule(ready_fibers, i)
    <2>1. CASE \E j \in Slots : ForgetHandle(i, j) \/ \E k \in Slots : GiveHandle(i, j, k)
      BY <1>1, <2>1 DEF ForgetHandle, GiveHandle, At, schedVars
    <2>2. CASE YieldNow(i) \/ Syscall(i)
      BY <2>2 DEF YieldNow, Syscall, At, Park
    <2>3. CASE ResumeSys1(i) \/ ResumeSys2(i)
      BY <2>3 DEF ResumeSys1, ResumeSys2, ReadSyscallResult, At, Park
    <2> QED
      BY <2>1, <2>2, <2>3
  <1>3. Ready' = Ready \/ Ready' = Ready \cup {i}
    BY <1>1, <1>2, ScheduleSet DEF Ready
  <1>4. l \in Labels \ {"Parked"} /\ pc[i] # "Parked" /\ ~Completed(i)
    BY <1>2 DEF Labels, Completed
  <1> QED
    BY <1>2, <1>3, <1>4, MoveUndisturbed

\* start and spawn.
LEMMA SpawnUndisturbed ==
    ASSUME RuntimeInv, Uncancelled,
           Start \/ \E i, c \in Slots : \E moved : Spawn(i, c, moved)
    PROVE  Undisturbed /\ Uncancelled'
  <1>1. /\ TypeOK /\ is_cancelled \subseteq Slots /\ is_cancelled \subseteq LiveSet
        /\ ready_fibers \in Seq(Slots) /\ pc \in [Slots -> Labels] /\ ModeKnown
    BY DEF RuntimeInv, StateInv, StackInv, TypeOK, Cancellation
  <1>2. CASE Start
    <2>1. /\ mode = "idle" /\ pc' = [pc EXCEPT ![Root] = "User"]
          /\ UNCHANGED <<is_cancelled, result_is_error>>
      BY <1>2 DEF Start
    <2>2. \A s \in Slots : pc[s] = "Vacant" /\ pc'[s] \in {"Vacant", "User"}
      BY <1>1, <2>1 DEF ModeKnown
    <2>3. is_cancelled = {}
      BY <1>1, <2>2 DEF LiveSet, Live
    <2> QED
      BY <2>1, <2>2, <2>3 DEF Undisturbed, Uncancelled
  <1>3. ASSUME NEW i \in Slots, NEW c \in Slots, NEW moved, Spawn(i, c, moved)
        PROVE  Undisturbed /\ Uncancelled'
    <2>1. /\ pc[i] = "User" /\ pc[c] = "Vacant" /\ pc' = [pc EXCEPT ![c] = "User"]
          /\ ready_fibers' = Append(ready_fibers, c) /\ running_fiber' = running_fiber
          /\ result_is_error' = result_is_error
          /\ is_cancelled' = IF i \in is_cancelled THEN is_cancelled \cup {c} ELSE is_cancelled
      BY <1>3 DEF Spawn, At
    <2>2. i \notin is_cancelled /\ c \notin is_cancelled
      BY <1>1, <2>1 DEF Uncancelled, Completed, LiveSet, Live
    <2>3. \A s \in Slots : pc'[s] = IF s = c THEN "User" ELSE pc[s]
      BY <1>1, <2>1
    <2>4. Ready' = Ready \cup {c}
      BY <1>1, <2>1, AppendSet DEF Ready
    <2>5. Undisturbed
      BY <2>1, <2>3, <2>4, UndisturbedStep
    <2>6. Uncancelled'
      BY <1>1, <2>1, <2>2, <2>3 DEF Uncancelled, Completed
    <2> QED
      BY <2>5, <2>6
  <1> QED
    BY <1>2, <1>3

\* process_io and the kernel.
LEMMA IoUndisturbed ==
    ASSUME RuntimeInv, Uncancelled, ProcessIo \/ (\E id \in Slots : Kernel(id)) \/ DropRuntime
    PROVE  Undisturbed /\ Uncancelled'
  <1>1. /\ TypeOK /\ InterfaceTypeOK /\ OnePlace /\ ready_fibers \in Seq(Slots)
        /\ \A s \in Slots : s \in InRings => pc[s] # "Parked"
    BY DEF RuntimeInv, StateInv, StackInv, TypeOK, Rings, Pending, InSyscall
  <1>2. pc' = pc /\ UNCHANGED <<is_cancelled, result_is_error>>
    BY DEF ProcessIo, ProcessCompleted, PopReady, SubmitAndWait, Kernel, DropRuntime, fiberVars
  <1>3. Uncancelled'
    BY <1>2 DEF Uncancelled, Completed
  <1>4. CASE SubmitAndWait \/ (\E id \in Slots : Kernel(id)) \/ DropRuntime
    <2>1. UNCHANGED <<ready_fibers, running_fiber>>
      BY <1>4 DEF SubmitAndWait, Kernel, DropRuntime, schedVars
    <2> QED
      BY <1>2, <1>3, <2>1 DEF Undisturbed, Scheduled
  <1>5. CASE PopReady
    <2>1. /\ ready_fibers # <<>> /\ running_fiber = NoFiber
          /\ running_fiber' = Head(ready_fibers) /\ ready_fibers' = Tail(ready_fibers)
      BY <1>5 DEF PopReady, InProcessIo
    <2>2. Ready = Ready' \cup {running_fiber'}
      BY <1>1, <2>1, TailSet DEF Ready
    <2>3. \A s \in Slots : Scheduled(s)' <=> Scheduled(s)
      BY <2>1, <2>2, SlotsFacts DEF Scheduled, Ready
    <2> QED
      BY <1>2, <1>3, <2>3 DEF Undisturbed
  <1>6. CASE ProcessCompleted
    <2>1. running_fiber' = running_fiber /\ ReadCompletion
      BY <1>6 DEF ProcessCompleted
    <2>2. \/ ready_fibers' = ready_fibers
          \/ \E h \in Slots : h \in InRings /\ ready_fibers' = Schedule(ready_fibers, h)
      BY <1>1, <1>6, <2>1, ReadRings DEF ProcessCompleted
    <2>3. \/ Ready' = Ready
          \/ \E h \in Slots : pc[h] # "Parked" /\ Ready' = Ready \cup {h}
      BY <1>1, <2>2, ScheduleSet DEF Ready
    <2> QED
      BY <1>2, <1>3, <2>1, <2>3 DEF Undisturbed, Scheduled, Ready
  <1> QED
    BY <1>4, <1>5, <1>6 DEF ProcessIo

\* The end of a closure that did not panic.
LEMMA CompleteUndisturbed ==
    ASSUME RuntimeInv, Uncancelled, NEW i \in Slots, Complete(i, FALSE) \/ ResumeChildren(i)
    PROVE  Undisturbed /\ Uncancelled'
  <1>1. /\ TypeOK /\ is_cancelled \subseteq Slots /\ ready_fibers \in Seq(Slots)
        /\ pc \in [Slots -> Labels] /\ Joins /\ mode = "run" /\ running_fiber = i
        /\ pc[i] \in {"User", "Children"}
    BY DEF RuntimeInv, StateInv, StackInv, TypeOK, Complete, ResumeChildren, At
  <1>2. CASE /\ pc' = [pc EXCEPT ![i] = "Children"] /\ running_fiber' = NoFiber
             /\ is_cancelled' = is_cancelled \cup {i}
             /\ UNCHANGED <<result_is_error, ready_fibers>>
    <2>1. \A s \in Slots : pc'[s] = IF s = i THEN "Children" ELSE pc[s]
      BY <1>1, <1>2
    <2>2. Undisturbed
      BY <1>1, <1>2, <2>1, UndisturbedStep DEF Ready
    <2>3. Uncancelled'
      BY <1>1, <1>2, <2>1 DEF Uncancelled, Completed
    <2> QED
      BY <2>2, <2>3
  <1>3. CASE ReturnFromStart
    <2>1. \A s \in Slots : pc'[s] = IF s = Root THEN "Done" ELSE pc[s]
      BY <1>1, <1>3 DEF ReturnFromStart
    <2>2. /\ UNCHANGED <<ready_fibers, running_fiber>> /\ is_cancelled' = is_cancelled \cup {Root}
          /\ result_is_error' = result_is_error \ {Root}
      BY <1>3 DEF ReturnFromStart, schedVars
    <2>3. pc[Root] # "Parked"
      BY <1>1, <1>3, SlotsFacts DEF Complete, ResumeChildren, Retire, Leave, ReturnFromStart
    <2>4. Undisturbed
      BY <2>1, <2>2, <2>3, SlotsFacts, UndisturbedStep DEF Ready
    <2>5. Uncancelled'
      BY <1>1, <2>1, <2>2, SlotsFacts DEF Uncancelled, Completed
    <2> QED
      BY <2>4, <2>5
  <1>4. ASSUME i # Root, children[i] = {}, Retire(i, FALSE)
        PROVE  Undisturbed /\ Uncancelled'
    <2> DEFINE C == is_cancelled \cup {i}
    <2>1. PICK q \in Seq(Slots) :
               /\ Leave(i, q, C)
               /\ \/ q = ready_fibers
                  \/ join_handle[i] \in Slots /\ q = Schedule(ready_fibers, join_handle[i])
      BY <1>1, <1>4, ScheduleType DEF Retire
    <2>2. /\ C \in SUBSET Slots
          /\ \A s \in ToSet(q) : s \in Ready \/ (s \in Slots /\ pc[s] # "Parked")
          /\ Ready \subseteq ToSet(q)
      <3>1. join_handle[i] \in Slots => pc[join_handle[i]] # "Parked"
        BY <1>1 DEF Joins, Joining
      <3>2. join_handle[i] \in Slots =>
                ToSet(Schedule(ready_fibers, join_handle[i])) = Ready \cup {join_handle[i]}
        BY <1>1, ScheduleSet DEF Ready
      <3> QED
        BY <1>1, <2>1, <3>1, <3>2 DEF Ready
    <2>3. /\ running_fiber' = NoFiber
          /\ \/ ready_fibers' = q
             \/ \E p \in Slots : ready_fibers' = Schedule(q, p) /\ Completed(p)
          /\ \A s \in Slots \ {i} : pc'[s] = pc[s]
          /\ \/ pc'[i] = "Vacant" /\ is_cancelled' = C \ {i}
             \/ pc'[i] = "Done" /\ is_cancelled' = C
      <3>1. PICK p \in Slots : p = parent[i]
        BY <1>1, <1>4 DEF RuntimeInv, StateInv, StackInv, LinksKnown, Live
      <3>2. \/ ready_fibers' = q
            \/ ready_fibers' = Schedule(q, p) /\ Completed(p)
        BY <2>1, <3>1 DEF Leave, LastChild
      <3>3. /\ running_fiber' = NoFiber
            /\ \/ pc' = [pc EXCEPT ![i] = "Vacant"] /\ is_cancelled' = C \ {i}
               \/ pc' = [pc EXCEPT ![i] = "Done"] /\ is_cancelled' = C
        BY <2>1 DEF Leave, Free
      <3> QED
        BY <1>1, <3>1, <3>2, <3>3
    <2>4. result_is_error' \subseteq result_is_error
      BY <2>1 DEF Leave, Free
    <2>5. \A s \in Slots : s \in Ready' <=> s \in Ready \/ (s \in Ready' /\ pc[s] # "Parked")
      <3>1. \/ Ready' = ToSet(q)
            \/ \E p \in Slots : Ready' = ToSet(q) \cup {p} /\ Completed(p)
        BY <2>3, ScheduleSet DEF Ready
      <3> QED
        BY <2>2, <3>1 DEF Completed
    <2>6. Undisturbed
      BY <1>1, <2>3, <2>5, UndisturbedStep
    <2>7. Uncancelled'
      <3>1. \A s \in Slots : s \in is_cancelled' => Completed(s)'
        BY <2>3 DEF Uncancelled, Completed
      <3>2. is_cancelled' \subseteq Slots
        BY <2>2, <2>3
      <3> QED
        BY <2>4, <3>1, <3>2 DEF Uncancelled
    <2> QED
      BY <2>6, <2>7
  <1>5. CASE Complete(i, FALSE)
    BY <1>2, <1>3, <1>4, <1>5 DEF Complete, Park
  <1>6. CASE ResumeChildren(i)
    <2>1. children[i] = {}
      BY <1>1, <1>6 DEF RuntimeInv, StateInv, Queue, Justified, ResumeChildren, At
    <2>2. i \notin result_is_error
      BY DEF Uncancelled
    <2>3. i # Root => Retire(i, FALSE)
      <3>1. i # Root => Retire(i, i \in result_is_error)
        BY <1>6 DEF ResumeChildren
      <3>2. (i \in result_is_error) = FALSE
        BY <2>2
      <3> QED
        BY <3>1, <3>2
    <2> QED
      BY <1>3, <1>4, <1>6, <2>1, <2>3 DEF ResumeChildren
  <1> QED
    BY <1>5, <1>6

\* Without cancellation the runtime disturbs nobody in recv.
LEMMA RuntimeUndisturbed ==
    ASSUME NoCancelCalls, RuntimeInv, Uncancelled,
           [Next]_vars \/ (\E i, c \in Slots : Spawn(i, c, {}))
    PROVE  Undisturbed /\ Uncancelled'
  <1>1. CASE UNCHANGED vars
    BY <1>1 DEF vars, fiberVars, schedVars, Undisturbed, Scheduled, Uncancelled, Completed
  <1>2. ASSUME NEW i \in Slots, Call(i) PROVE Undisturbed /\ Uncancelled'
    <2>1. \/ \E c \in Slots : \E moved : Spawn(i, c, moved)
          \/ \E j \in Slots : Join(i, j) \/ DropHandle(i, j)
          \/ \E j \in Slots : ForgetHandle(i, j) \/ \E k \in Slots : GiveHandle(i, j, k)
          \/ YieldNow(i) \/ Syscall(i)
          \/ Complete(i, FALSE)
      BY <1>2 DEF Call, NoCancelCalls
    <2> QED
      BY <2>1, SpawnUndisturbed, JoinUndisturbed, CallUndisturbed, CompleteUndisturbed
  <1>3. ASSUME NEW i \in Slots, Resume(i) PROVE Undisturbed /\ Uncancelled'
    BY <1>3, JoinUndisturbed, CallUndisturbed, CompleteUndisturbed DEF Resume
  <1>4. CASE Start \/ (\E i, c \in Slots : Spawn(i, c, {}))
    BY <1>4, SpawnUndisturbed
  <1>5. CASE ProcessIo \/ (\E id \in Slots : Kernel(id)) \/ DropRuntime
    BY <1>5, IoUndisturbed
  <1> QED
    BY <1>1, <1>2, <1>3, <1>4, <1>5 DEF Next, Terminated

-----------------------------------------------------------------------------
(* The channel leaves the runtime's invariant alone. *)

\* An operation of the channel in fiber i: it may park, and it may queue fibers
\* that are in recv.
LEMMA ChannelKeeps ==
    ASSUME RuntimeInv, StackInv', NEW i \in Slots, NEW l \in {"User", "Parked"},
           mode = "run", running_fiber = i, pc[i] \in {"User", "Parked"},
           pc' = [pc EXCEPT ![i] = l], UNCHANGED OtherRuntimeVars,
           running_fiber' \in {i, NoFiber}, IsInjective(ready_fibers'),
           Ready \subseteq Ready', i \notin Ready', \A s \in Ready' \ Ready : pc[s] = "Parked"
    PROVE  RuntimeInv'
  BY ClosureKeeps DEF OtherRuntimeVars

-----------------------------------------------------------------------------
(* Wake-ups.  Every message has a receiver that will look at the queue, as *)
(* long as others sleep: recv takes one message per wake-up.               *)

Awake == {s \in Slots : pc[s] = "Parked" /\ Scheduled(s)}

MessagesCounted == (\E s \in Slots : Waiting(s)) => Len(queue) <= Cardinality(Awake)

WakeInv ==
    /\ RuntimeInv /\ OrderInv /\ Uncancelled
    /\ WakersAreReceivers /\ MessagesCounted
    /\ senders = {} => is_closed
    /\ NoSenderNobodyWaits

\* The receivers that will run, counted.
LEMMA AwakeFinite ==
    /\ IsFiniteSet(Awake) /\ Cardinality(Awake) \in Nat
    /\ \A s \in Slots \ Awake : Cardinality(Awake \cup {s}) = Cardinality(Awake) + 1
    /\ \A s \in Awake : Cardinality(Awake \ {s}) = Cardinality(Awake) - 1
  <1>1. IsFiniteSet(Awake) /\ Cardinality(Awake) \in Nat
    BY SlotsFinite, FS_CardinalityType DEF Awake
  <1> QED
    BY <1>1, FS_AddElement, FS_RemoveElement

\* Steps that disturb nobody and leave the queue and the wakers alone.
LEMMA WakeFrame ==
    ASSUME WakeInv, RuntimeInv', OrderInv', Uncancelled', Undisturbed,
           UNCHANGED <<queue, no_longer_empty, is_closed>>, senders = {} <=> senders' = {}
    PROVE  WakeInv'
  <1>1. \A s \in Slots : Waiting(s)' <=> Waiting(s)
    BY DEF Waiting, Undisturbed
  <1>2. Awake' = Awake
    BY DEF Awake, Undisturbed
  <1>3. WakersAreReceivers' /\ NoSenderNobodyWaits'
    BY <1>1 DEF WakeInv, WakersAreReceivers, NoSenderNobodyWaits
  <1>4. MessagesCounted'
    BY <1>1, <1>2 DEF WakeInv, MessagesCounted
  <1> QED
    BY <1>3, <1>4 DEF WakeInv

\* Who sleeps in recv is neither running nor queued.
LEMMA WakersSleep ==
    ASSUME WakeInv
    PROVE  /\ no_longer_empty \in Seq(Slots)
           /\ \A s \in ToSet(no_longer_empty) : /\ s \in Slots /\ Waiting(s) /\ pc[s] = "Parked"
                                                /\ s \notin Ready /\ s # running_fiber
           /\ \A s \in Slots : Waiting(s) => s \in ToSet(no_longer_empty)
           /\ no_longer_empty = <<>> => \A s \in Slots : ~Waiting(s)
  <1>1. no_longer_empty \in Seq(Slots)
    BY DEF WakeInv, OrderInv, ChannelTypeOK
  <1>2. ToSet(no_longer_empty) = {s \in Slots : Waiting(s)}
    BY DEF WakeInv, WakersAreReceivers
  <1>3. \A s \in Slots : Waiting(s) => pc[s] = "Parked" /\ s \notin Ready /\ s # running_fiber
    BY DEF Waiting, Scheduled, Ready
  <1>4. no_longer_empty = <<>> => ToSet(no_longer_empty) = {}
    BY DEF ToSet
  <1> QED
    BY <1>1, <1>2, <1>3, <1>4

\* A send wakes the receiver that waits longest.
LEMMA SendWakes ==
    ASSUME WakeInv, OrderInv', NEW i \in Slots, Send(i)
    PROVE  WakeInv'
  <1>1. /\ RuntimeInv /\ TypeOK /\ StackInv' /\ Queue /\ queue \in Seq(Messages)
        /\ ready_fibers \in Seq(Slots) /\ IsInjective(ready_fibers)
        /\ pc \in [Slots -> Labels] /\ Uncancelled
    BY DEF WakeInv, RuntimeInv, StateInv, StackInv, TypeOK, OrderInv, ChannelTypeOK, Queue, Messages
  <1>2. /\ mode = "run" /\ running_fiber = i /\ pc[i] = "User" /\ i \in senders
        /\ UNCHANGED <<OtherRuntimeVars, pc, running_fiber, is_closed, senders, receivers>>
        /\ queue' = Append(queue, sent + 1)
    BY DEF Send, At
  <1>3. pc' = [pc EXCEPT ![i] = "User"] /\ i \notin Ready
    BY <1>1, <1>2 DEF Queue
  <1>4. Uncancelled'
    BY <1>1, <1>2 DEF Uncancelled, OtherRuntimeVars, Completed
  <1>5. Len(queue') = Len(queue) + 1 /\ Len(queue) \in Nat
    BY <1>1, <1>2
  <1>6. (senders = {} => is_closed)' /\ NoSenderNobodyWaits'
    BY <1>2 DEF NoSenderNobodyWaits
  <1>7. CASE no_longer_empty = <<>>
    <2>1. UNCHANGED <<ready_fibers, no_longer_empty>>
      BY <1>7 DEF Send
    <2>2. RuntimeInv'
      BY <1>1, <1>2, <1>3, <2>1, ChannelKeeps DEF Ready
    <2>3. \A s \in Slots : ~Waiting(s) /\ ~Waiting(s)'
      BY <1>2, <1>7, <2>1, WakersSleep DEF Waiting, Scheduled
    <2>4. WakersAreReceivers' /\ MessagesCounted'
      BY <1>2, <2>1, <2>3 DEF WakeInv, WakersAreReceivers, MessagesCounted
    <2> QED
      BY <1>4, <1>6, <2>2, <2>4 DEF WakeInv
  <1>8. CASE no_longer_empty # <<>>
    <2>1. PICK h \in Slots : h = Head(no_longer_empty)
      BY <1>8, WakersSleep, SeqTypes
    <2>2. /\ no_longer_empty' = Tail(no_longer_empty)
          /\ ready_fibers' = Schedule(ready_fibers, h)
      BY <1>8, <2>1 DEF Send
    <2>3. /\ h \in ToSet(no_longer_empty)
          /\ ToSet(no_longer_empty) = ToSet(no_longer_empty') \cup {h}
          /\ h \notin ToSet(no_longer_empty') /\ IsInjective(no_longer_empty')
      BY <1>8, <2>1, <2>2, WakersSleep, TailSet DEF WakeInv, WakersAreReceivers
    <2>4. Waiting(h) /\ pc[h] = "Parked" /\ h \notin Ready /\ h # i
      BY <1>2, <2>3, WakersSleep
    <2>5. Ready' = Ready \cup {h} /\ IsInjective(ready_fibers')
      BY <1>1, <2>2, ScheduleSet DEF Ready
    <2>6. RuntimeInv'
      BY <1>1, <1>2, <1>3, <2>4, <2>5, ChannelKeeps
    <2>7. \A s \in Slots : Waiting(s)' <=> Waiting(s) /\ s # h
      BY <1>2, <2>5, <2>4 DEF Waiting, Scheduled, Ready
    <2>8. WakersAreReceivers'
      <3>1. ToSet(no_longer_empty) = {s \in Slots : Waiting(s)}
        BY DEF WakeInv, WakersAreReceivers
      <3> QED
        BY <2>3, <2>7, <3>1 DEF WakersAreReceivers
    <2>9. Awake' = Awake \cup {h} /\ h \notin Awake
      BY <1>2, <2>4, <2>5 DEF Awake, Scheduled, Ready, Waiting
    <2>10. MessagesCounted'
      <3>1. Cardinality(Awake') = Cardinality(Awake) + 1 /\ Cardinality(Awake) \in Nat
        BY <2>9, AwakeFinite
      <3>2. Len(queue) <= Cardinality(Awake)
        BY <2>4 DEF WakeInv, MessagesCounted
      <3> QED
        BY <1>5, <3>1, <3>2 DEF MessagesCounted
    <2> QED
      BY <1>4, <1>6, <2>6, <2>8, <2>10 DEF WakeInv
  <1> QED
    BY <1>7, <1>8

\* recv returns, with a message or an error.
LEMMA RecvReturns ==
    ASSUME WakeInv, OrderInv', NEW i \in Slots, At(i, "User") \/ At(i, "Parked"),
           pc' = [pc EXCEPT ![i] = "User"],
           UNCHANGED <<OtherRuntimeVars, ready_fibers, running_fiber, no_longer_empty, is_closed,
                       senders>>,
           \/ queue # <<>> /\ queue' = Tail(queue)
           \/ queue = <<>> /\ queue' = <<>>
    PROVE  WakeInv'
  <1>1. /\ RuntimeInv /\ TypeOK /\ StackInv' /\ Queue /\ queue \in Seq(Messages)
        /\ IsInjective(ready_fibers) /\ Uncancelled
        /\ pc \in [Slots -> Labels] /\ is_cancelled \subseteq Slots
    BY DEF WakeInv, RuntimeInv, StateInv, StackInv, TypeOK, OrderInv, ChannelTypeOK, Queue, Messages
  <1>2. mode = "run" /\ running_fiber = i /\ pc[i] \in {"User", "Parked"} /\ i \notin Ready
    BY <1>1 DEF At, Queue
  <1>3. \A s \in Slots : pc'[s] = IF s = i THEN "User" ELSE pc[s]
    BY <1>1
  <1>4. RuntimeInv'
    BY <1>1, <1>2, ChannelKeeps DEF Ready
  <1>5. Uncancelled'
    BY <1>1, <1>2, <1>3 DEF Uncancelled, OtherRuntimeVars, Completed
  <1>6. \A s \in Slots : Waiting(s)' <=> Waiting(s)
    BY <1>2, <1>3 DEF Waiting, Scheduled
  <1>7. Awake' = Awake \ {i}
    BY <1>2, <1>3 DEF Awake, Scheduled
  <1>8. MessagesCounted'
    <2>1. Len(queue) \in Nat /\ (Len(queue') = Len(queue) - 1 \/ Len(queue') = 0)
      BY <1>1
    <2>2. /\ Cardinality(Awake') \in Nat /\ Cardinality(Awake) \in Nat
          /\ Cardinality(Awake') >= Cardinality(Awake) - 1
      <3>1. CASE i \in Awake
        <4>1. Awake \ {i} \in SUBSET Slots
          BY DEF Awake
        <4>2. Cardinality(Awake \ {i}) \in Nat
          BY <4>1, SlotsFinite, FS_CardinalityType
        <4> QED
          BY <1>7, <3>1, <4>2, AwakeFinite
      <3>2. CASE i \notin Awake
        <4>1. Awake' = Awake
          BY <1>7, <3>2
        <4> QED
          BY <4>1, AwakeFinite
      <3> QED
        BY <3>1, <3>2
    <2>3. (\E s \in Slots : Waiting(s)) => Len(queue) <= Cardinality(Awake)
      BY DEF WakeInv, MessagesCounted
    <2>4. (\E s \in Slots : Waiting(s)') => Len(queue') <= Cardinality(Awake')
      BY <1>6, <2>1, <2>2, <2>3
    <2> QED
      BY <2>4 DEF MessagesCounted
  <1>9. WakersAreReceivers' /\ NoSenderNobodyWaits' /\ (senders = {} => is_closed)'
    BY <1>6 DEF WakeInv, WakersAreReceivers, NoSenderNobodyWaits
  <1> QED
    BY <1>4, <1>5, <1>8, <1>9 DEF WakeInv

\* One round of recv.
LEMMA RecvWakes ==
    ASSUME WakeInv, OrderInv', NEW i \in Slots, Recv(i)
    PROVE  WakeInv'
  <1>1. /\ RuntimeInv /\ TypeOK /\ StackInv' /\ Queue /\ queue \in Seq(Messages)
        /\ IsInjective(ready_fibers) /\ Uncancelled
        /\ pc \in [Slots -> Labels] /\ is_cancelled \subseteq Slots
    BY DEF WakeInv, RuntimeInv, StateInv, StackInv, TypeOK, OrderInv, ChannelTypeOK, Queue, Messages
  <1>2. /\ mode = "run" /\ running_fiber = i /\ pc[i] \in {"User", "Parked"} /\ i \notin Ready
        /\ UNCHANGED <<OtherRuntimeVars, ready_fibers, is_closed, senders>>
    BY <1>1 DEF Recv, At, Queue
  <1>3. CASE pc' = [pc EXCEPT ![i] = "User"] /\ UNCHANGED <<no_longer_empty, running_fiber>>
             /\ (\/ queue # <<>> /\ queue' = Tail(queue)
                 \/ queue = <<>> /\ queue' = <<>>)
    BY <1>2, <1>3, RecvReturns DEF Recv
  <1>4. CASE /\ queue = <<>> /\ queue' = queue /\ ~is_closed
             /\ no_longer_empty' = Append(no_longer_empty, i)
             /\ Park(i, "Parked")
    <2>1. running_fiber' = NoFiber /\ pc' = [pc EXCEPT ![i] = "Parked"]
      BY <1>4 DEF Park
    <2>2. \A s \in Slots : pc'[s] = IF s = i THEN "Parked" ELSE pc[s]
      BY <1>1, <2>1
    <2>3. RuntimeInv'
      BY <1>1, <1>2, <2>1, ChannelKeeps DEF Ready
    <2>4. Uncancelled'
      BY <1>1, <1>2, <2>2 DEF Uncancelled, OtherRuntimeVars, Completed
    <2>5. \A s \in Slots : Waiting(s)' <=> Waiting(s) \/ s = i
      BY <1>2, <2>1, <2>2, SlotsFacts DEF Waiting, Scheduled, Ready
    <2>6. WakersAreReceivers'
      <3>1. i \notin ToSet(no_longer_empty)
        BY <1>2, WakersSleep
      <3>2. ToSet(no_longer_empty') = ToSet(no_longer_empty) \cup {i} /\ IsInjective(no_longer_empty')
        BY <1>4, <3>1, AppendSet, WakersSleep DEF WakeInv, WakersAreReceivers
      <3>3. ToSet(no_longer_empty) = {s \in Slots : Waiting(s)}
        BY DEF WakeInv, WakersAreReceivers
      <3> QED
        BY <2>5, <3>2, <3>3 DEF WakersAreReceivers
    <2>7. MessagesCounted'
      <3>1. Awake' \in SUBSET Slots /\ Len(queue') = 0
        BY <1>4 DEF Awake
      <3>2. Cardinality(Awake') \in Nat
        BY <3>1, SlotsFinite, FS_CardinalityType
      <3> QED
        BY <3>1, <3>2 DEF MessagesCounted
    <2>8. senders' # {}
      BY <1>2, <1>4 DEF WakeInv
    <2> QED
      BY <2>3, <2>4, <2>6, <2>7, <2>8 DEF WakeInv, NoSenderNobodyWaits
  <1> QED
    BY <1>3, <1>4 DEF Recv

\* A close by the sender's side wakes all receivers.
LEMMA CloseSenderWakes ==
    ASSUME WakeInv, OrderInv', NEW i \in Slots, At(i, "User"), CloseSender,
           UNCHANGED <<OtherRuntimeVars, pc, running_fiber, queue>>
    PROVE  WakeInv'
  <1>1. /\ RuntimeInv /\ TypeOK /\ StackInv' /\ Queue /\ IsInjective(ready_fibers)
        /\ pc \in [Slots -> Labels] /\ Uncancelled
    BY DEF WakeInv, RuntimeInv, StateInv, StackInv, TypeOK, OrderInv, Queue
  <1>2. mode = "run" /\ running_fiber = i /\ pc[i] = "User" /\ i \notin Ready
    BY <1>1 DEF At, Queue
  <1>3. /\ Ready' = Ready \cup ToSet(no_longer_empty) /\ IsInjective(ready_fibers')
        /\ is_closed' = TRUE /\ no_longer_empty' = <<>>
    BY <1>1, CloseSenderQueue, WakersSleep DEF Ready
  <1>4. \A s \in ToSet(no_longer_empty) : pc[s] = "Parked" /\ s # i
    BY <1>2, WakersSleep
  <1>5. pc' = [pc EXCEPT ![i] = "User"]
    BY <1>1, <1>2
  <1>6. RuntimeInv'
    BY <1>1, <1>2, <1>3, <1>4, <1>5, ChannelKeeps
  <1>7. Uncancelled'
    BY <1>1 DEF Uncancelled, OtherRuntimeVars, Completed
  <1>8. \A s \in Slots : ~Waiting(s)'
    BY <1>3, WakersSleep DEF Waiting, Scheduled, Ready
  <1>9. WakersAreReceivers'
    BY <1>3, <1>8 DEF WakersAreReceivers, IsInjective, ToSet
  <1> QED
    BY <1>3, <1>6, <1>7, <1>8, <1>9 DEF WakeInv, MessagesCounted, NoSenderNobodyWaits

\* A close that wakes nobody, and the drop of one of several clones.
LEMMA QuietDropWakes ==
    ASSUME WakeInv, OrderInv', NEW i \in Slots, At(i, "User"),
           UNCHANGED <<OtherRuntimeVars, pc, running_fiber, ready_fibers, queue, no_longer_empty>>,
           is_closed' \in {TRUE, is_closed}, senders' # {} \/ senders' = senders
    PROVE  WakeInv'
  <1>1. /\ RuntimeInv /\ TypeOK /\ StackInv' /\ Queue /\ IsInjective(ready_fibers)
        /\ pc \in [Slots -> Labels] /\ Uncancelled
    BY DEF WakeInv, RuntimeInv, StateInv, StackInv, TypeOK, OrderInv, Queue
  <1>2. mode = "run" /\ running_fiber = i /\ pc[i] = "User" /\ i \notin Ready
    BY <1>1 DEF At, Queue
  <1>3. pc' = [pc EXCEPT ![i] = "User"]
    BY <1>1, <1>2
  <1>4. RuntimeInv'
    BY <1>1, <1>2, <1>3, ChannelKeeps DEF Ready
  <1>5. Uncancelled'
    BY <1>1 DEF Uncancelled, OtherRuntimeVars, Completed
  <1>6. \A s \in Slots : Waiting(s)' <=> Waiting(s)
    BY DEF Waiting, Scheduled
  <1>7. Awake' = Awake
    BY DEF Awake, Scheduled
  <1>8. WakersAreReceivers' /\ MessagesCounted' /\ NoSenderNobodyWaits' /\ (senders = {} => is_closed)'
    BY <1>6, <1>7 DEF WakeInv, WakersAreReceivers, MessagesCounted, NoSenderNobodyWaits
  <1> QED
    BY <1>4, <1>5, <1>8 DEF WakeInv

\* Both closes and the drops of both ends.
LEMMA CloseWakes ==
    ASSUME WakeInv, OrderInv', NEW i \in Slots, Close(i) \/ DropEnd(i)
    PROVE  WakeInv'
  <1>1. At(i, "User") /\ UNCHANGED <<OtherRuntimeVars, pc, running_fiber, queue>>
    BY DEF Close, DropEnd
  <1>2. CASE CloseSender
    BY <1>1, <1>2, CloseSenderWakes
  <1>3. CASE ~CloseSender
    <2>1. /\ UNCHANGED <<ready_fibers, no_longer_empty>>
          /\ is_closed' \in {TRUE, is_closed}
          /\ senders' # {} \/ senders' = senders
      BY <1>3 DEF Close, DropEnd, CloseReceiver
    <2> QED
      BY <1>1, <2>1, QuietDropWakes
  <1> QED
    BY <1>2, <1>3

\* The channel starts with nobody in recv.
LEMMA WakeInit == ChannelInit => WakeInv
  <1> SUFFICES ASSUME ChannelInit PROVE WakeInv
    OBVIOUS
  <1>1. RuntimeInv /\ OrderInv
    BY RuntimeInvInit, OrderInit DEF ChannelInit
  <1>2. /\ no_longer_empty = <<>> /\ senders = {Root} /\ is_cancelled = {} /\ result_is_error = {}
        /\ \A s \in Slots : ~Waiting(s)
    BY DEF ChannelInit, Init, Waiting
  <1>3. WakersAreReceivers
    BY <1>2 DEF WakersAreReceivers, IsInjective, ToSet
  <1> QED
    BY <1>1, <1>2, <1>3 DEF WakeInv, Uncancelled, MessagesCounted, NoSenderNobodyWaits

\* Every step keeps the wake-ups, if nobody is cancelled.
LEMMA WakeNext ==
    ASSUME ~OwnedParents, NoCancelCalls, WakeInv, [ChannelNext]_<<vars, channelVars>>
    PROVE  WakeInv'
  <1>1. OrderInv' /\ StackInv'
    BY OrderNext DEF WakeInv, OrderInv
  <1>2. RuntimeInv /\ Uncancelled
    BY DEF WakeInv
  <1>3. ASSUME NEW i \in Slots, Send(i) \/ Recv(i) \/ Close(i) \/ DropEnd(i) PROVE WakeInv'
    BY <1>1, <1>3, SendWakes, RecvWakes, CloseWakes
  <1>4. CASE \E i, c \in Slots : \E ends \in SUBSET {"tx", "rx"} : SpawnWith(i, c, ends)
    <2>1. PICK i \in Slots, c \in Slots, ends \in SUBSET {"tx", "rx"} : SpawnWith(i, c, ends)
      BY <1>4
    <2>2. Spawn(i, c, {}) /\ UNCHANGED <<queue, no_longer_empty, is_closed>>
      BY <2>1 DEF SpawnWith
    <2>3. senders = {} <=> senders' = {}
      BY <2>1 DEF SpawnWith
    <2>4. RuntimeInv'
      BY <1>1, <1>2, <2>2, SpawnKeeps
    <2>5. Undisturbed /\ Uncancelled'
      BY <1>2, <2>2, RuntimeUndisturbed
    <2> QED
      BY <1>1, <2>2, <2>3, <2>4, <2>5, WakeFrame
  <1>5. ASSUME [Next]_vars, UNCHANGED channelVars PROVE WakeInv'
    <2>1. UNCHANGED <<queue, no_longer_empty, is_closed, senders>>
      BY <1>5 DEF channelVars
    <2>2. RuntimeInv'
      BY <1>2, <1>5, RuntimeInvNext
    <2>3. Undisturbed /\ Uncancelled'
      BY <1>2, <1>5, RuntimeUndisturbed
    <2> QED
      BY <1>1, <2>1, <2>2, <2>3, WakeFrame
  <1>6. CASE \E i \in Slots : OtherCall(i)
    BY <1>5, <1>6 DEF OtherCall, Next
  <1>7. CASE RuntimeStep
    BY <1>5, <1>7 DEF RuntimeStep, Next
  <1>8. CASE UNCHANGED <<vars, channelVars>>
    BY <1>5, <1>8
  <1> QED
    BY <1>3, <1>4, <1>6, <1>7, <1>8 DEF ChannelNext

\* The wake-ups hold in every state, if nobody is cancelled.
LEMMA WakeAlways == ASSUME ~OwnedParents, NoCancelCalls PROVE ChannelSpec => []WakeInv
  <1>1. WakeInv /\ [ChannelNext]_<<vars, channelVars>> => WakeInv'
    BY WakeNext
  <1> QED
    BY <1>1, WakeInit, PTL DEF ChannelSpec

\* No wake-up is lost: beside a message in the queue nobody sleeps in recv, unless
\* a receiver that was woken by a send has yet to run.
THEOREM WakeupsAreNotLost ==
    ASSUME ~OwnedParents, NoCancelCalls PROVE ChannelSpec => []NoLostWakeup
  <1>1. ASSUME WakeInv PROVE NoLostWakeup
    <2> SUFFICES ASSUME queue # <<>>, NEW s \in Slots, Waiting(s)
                 PROVE  \E r \in Slots : pc[r] = "Parked" /\ Scheduled(r)
      BY DEF NoLostWakeup
    <2>1. Len(queue) \in Nat \ {0}
      BY <1>1 DEF WakeInv, OrderInv, ChannelTypeOK
    <2>2. Cardinality(Awake) # 0
      BY <1>1, <2>1, AwakeFinite DEF WakeInv, MessagesCounted
    <2>3. Awake # {}
      BY <2>2, FS_EmptySet
    <2> QED
      BY <2>3 DEF Awake
  <1> QED
    BY <1>1, WakeAlways, PTL

\* The wakers in the channel are those of the fibers that sleep in recv, one each.
THEOREM WakersAreThoseOfReceivers ==
    ASSUME ~OwnedParents, NoCancelCalls PROVE ChannelSpec => []WakersAreReceivers
  <1>1. WakeInv => WakersAreReceivers
    BY DEF WakeInv
  <1> QED
    BY <1>1, WakeAlways, PTL

\* When the last Sender is dropped, nobody is left asleep in recv, and nobody falls
\* asleep there later.
THEOREM LastSenderWakesAll ==
    ASSUME ~OwnedParents, NoCancelCalls PROVE ChannelSpec => []NoSenderNobodyWaits
  <1>1. WakeInv => NoSenderNobodyWaits
    BY DEF WakeInv
  <1> QED
    BY <1>1, WakeAlways, PTL

-----------------------------------------------------------------------------
(* The channel implements MessageQueue.  WakeInv says of every state what   *)
(* the refinement needs before a step: the wakers are those of the sleepers. *)

Sleepers == {s \in Slots : Waiting(s)}

\* The state of the promise, as far as it is not the channel's own.
LEMMA PromiseVars ==
    ASSUME UNCHANGED <<queue, sent, received, is_closed>>, Sleepers' = Sleepers, Awake' = Awake
    PROVE  UNCHANGED Promise!queueVars
  BY DEF Promise!queueVars, Sleepers, Awake

\* send wakes one of those who sleep.
LEMMA SendPromised == ASSUME WakeInv, NEW i \in Slots, Send(i) PROVE Promise!Send
  <1>1. TypeOK /\ ready_fibers \in Seq(Slots)
    BY DEF WakeInv, RuntimeInv, StateInv, StackInv, TypeOK
  <1>2. /\ running_fiber = i /\ pc[i] = "User" /\ ~is_closed /\ queue' = Append(queue, sent + 1)
        /\ sent' = sent + 1 /\ UNCHANGED <<pc, running_fiber, is_closed, received>>
    BY DEF Send, At
  <1>3. \/ \E r \in Sleepers : Sleepers' = Sleepers \ {r} /\ Awake' = Awake \cup {r}
        \/ Sleepers = {} /\ Sleepers' = Sleepers /\ Awake' = Awake
    <2>1. CASE no_longer_empty = <<>>
      <3>1. ready_fibers' = ready_fibers /\ Sleepers = {}
        BY <2>1, WakersSleep DEF Send, Sleepers
      <3> QED
        BY <1>2, <3>1 DEF Sleepers, Awake, Waiting, Scheduled
    <2>2. CASE no_longer_empty # <<>>
      <3>1. PICK h \in Slots : h = Head(no_longer_empty)
        BY <2>2, WakersSleep, SeqTypes
      <3>2. ready_fibers' = Schedule(ready_fibers, h)
        BY <2>2, <3>1 DEF Send
      <3>3. h \in ToSet(no_longer_empty)
        BY <2>2, <3>1, WakersSleep, TailSet
      <3>4. Waiting(h) /\ pc[h] = "Parked"
        BY <3>3, WakersSleep
      <3>5. Ready' = Ready \cup {h}
        BY <1>1, <3>2, ScheduleSet DEF Ready
      <3>6. \A s \in Slots : Scheduled(s)' <=> Scheduled(s) \/ s = h
        BY <1>2, <3>5 DEF Scheduled, Ready
      <3>7. Sleepers' = Sleepers \ {h} /\ Awake' = Awake \cup {h}
        BY <1>2, <3>4, <3>6 DEF Sleepers, Awake, Waiting
      <3> QED
        BY <3>4, <3>7 DEF Sleepers
    <2> QED
      BY <2>1, <2>2
  <1> QED
    BY <1>2, <1>3 DEF Promise!Send, Sleepers, Awake

\* A round of recv takes a message, gives up, or falls asleep.
LEMMA RecvPromised ==
    ASSUME WakeInv, NEW i \in Slots, Recv(i)
    PROVE  Promise!Receive(i) \/ Promise!Refuse(i) \/ Promise!Sleep(i)
  <1>1. pc \in [Slots -> Labels] /\ Queue /\ Uncancelled /\ is_cancelled \subseteq Slots
    BY DEF WakeInv, RuntimeInv, StateInv, StackInv, TypeOK
  <1>2. /\ running_fiber = i /\ pc[i] \in {"User", "Parked"} /\ i \notin Ready
        /\ UNCHANGED <<ready_fibers, is_closed, sent>>
    BY <1>1 DEF Recv, At, Queue
  <1>3. i \notin Sleepers /\ i \notin is_cancelled
    BY <1>1, <1>2 DEF Sleepers, Waiting, Scheduled, Uncancelled, Completed
  <1>4. CASE pc' = [pc EXCEPT ![i] = "User"] /\ running_fiber' = running_fiber
    <2>1. \A s \in Slots : pc'[s] = IF s = i THEN "User" ELSE pc[s]
      BY <1>1, <1>4
    <2>2. Sleepers' = Sleepers /\ Awake' = Awake \ {i}
      BY <1>2, <1>4, <2>1 DEF Sleepers, Awake, Waiting, Scheduled
    <2>3. CASE queue # <<>>
      <3>1. queue' = Tail(queue) /\ received' = Append(received, Head(queue))
        BY <2>3 DEF Recv
      <3>2. Promise!Receive(i)
        BY <1>2, <1>3, <2>2, <2>3, <3>1 DEF Promise!Receive, Sleepers, Awake
      <3> QED
        BY <3>2
    <2>4. CASE queue = <<>>
      <3>1. is_closed /\ queue' = queue /\ received' = received
        BY <1>2, <1>3, <1>4, <2>4, SlotsFacts DEF Recv, Park
      <3>2. Promise!Refuse(i)
        BY <1>2, <1>3, <2>2, <2>4, <3>1 DEF Promise!Refuse, Sleepers, Awake
      <3> QED
        BY <3>2
    <2> QED
      BY <2>3, <2>4
  <1>5. CASE queue = <<>> /\ UNCHANGED <<queue, received>> /\ ~is_closed /\ Park(i, "Parked")
    <2>1. running_fiber' = NoFiber /\ pc' = [pc EXCEPT ![i] = "Parked"]
      BY <1>5 DEF Park
    <2>2. \A s \in Slots : pc'[s] = IF s = i THEN "Parked" ELSE pc[s]
      BY <1>1, <2>1
    <2>3. \A s \in Slots : Scheduled(s)' <=> Scheduled(s) /\ s # i
      BY <1>2, <2>1, SlotsFacts DEF Scheduled, Ready
    <2>4. Sleepers' = Sleepers \cup {i} /\ Awake' = Awake \ {i}
      BY <2>2, <2>3 DEF Sleepers, Awake, Waiting
    <2> QED
      BY <1>2, <1>3, <1>5, <2>4 DEF Promise!Sleep, Sleepers, Awake
  <1> QED
    BY <1>4, <1>5 DEF Recv

\* Closing and dropping wake all who sleep or nobody.
LEMMA ClosePromised ==
    ASSUME WakeInv, NEW i \in Slots, Close(i) \/ DropEnd(i)
    PROVE  Promise!Close \/ UNCHANGED Promise!queueVars
  <1>1. TypeOK /\ pc \in [Slots -> Labels]
    BY DEF WakeInv, RuntimeInv, StateInv, StackInv, TypeOK
  <1>2. UNCHANGED <<pc, running_fiber, queue, sent, received>>
    BY DEF Close, DropEnd
  <1>3. CASE CloseSender
    <2>1. Ready' = Ready \cup ToSet(no_longer_empty) /\ is_closed' = TRUE
      BY <1>1, <1>3, CloseSenderQueue, WakersSleep DEF Ready
    <2>2. \A s \in Slots : Scheduled(s)' <=> Scheduled(s) \/ s \in ToSet(no_longer_empty)
      BY <1>2, <2>1 DEF Scheduled, Ready
    <2>3. Sleepers' = {} /\ Awake' = Awake \cup Sleepers
      BY <1>2, <2>2, WakersSleep DEF Sleepers, Awake, Waiting
    <2> QED
      BY <1>2, <2>1, <2>3 DEF Promise!Close, Sleepers, Awake
  <1>4. CASE ~CloseSender
    <2>1. UNCHANGED ready_fibers /\ (is_closed' = TRUE \/ is_closed' = is_closed)
      BY <1>4 DEF Close, DropEnd, CloseReceiver
    <2>2. Sleepers' = Sleepers /\ Awake' = Awake
      BY <1>2, <2>1 DEF Sleepers, Awake, Waiting, Scheduled
    <2>3. CASE is_closed' = TRUE
      BY <1>2, <2>2, <2>3 DEF Promise!Close, Sleepers, Awake
    <2> QED
      BY <1>2, <2>1, <2>2, <2>3, PromiseVars
  <1> QED
    BY <1>3, <1>4

\* A step that disturbs nobody in recv is none of the promise's.
LEMMA UndisturbedPromised ==
    ASSUME Undisturbed, UNCHANGED <<queue, sent, received, is_closed>>
    PROVE  UNCHANGED Promise!queueVars
  <1>1. Sleepers' = Sleepers /\ Awake' = Awake
    BY DEF Undisturbed, Sleepers, Awake, Waiting
  <1> QED
    BY <1>1, PromiseVars

\* Every step of fibers and channel is a step of the promise or none of its.
LEMMA StepPromised ==
    ASSUME NoCancelCalls, WakeInv, [ChannelNext]_<<vars, channelVars>>
    PROVE  [Promise!QueueNext]_(Promise!queueVars)
  <1>1. RuntimeInv /\ Uncancelled
    BY DEF WakeInv
  <1>2. ASSUME NEW i \in Slots, Send(i) PROVE Promise!QueueNext
    BY <1>2, SendPromised DEF Promise!QueueNext
  <1>3. ASSUME NEW i \in Slots, Recv(i) PROVE Promise!QueueNext
    BY <1>3, RecvPromised DEF Promise!QueueNext
  <1>4. ASSUME NEW i \in Slots, Close(i) \/ DropEnd(i)
        PROVE  [Promise!QueueNext]_(Promise!queueVars)
    BY <1>4, ClosePromised DEF Promise!QueueNext
  <1>5. CASE \E i, c \in Slots : \E ends \in SUBSET {"tx", "rx"} : SpawnWith(i, c, ends)
    <2>1. /\ \E i, c \in Slots : Spawn(i, c, {})
          /\ UNCHANGED <<queue, sent, received, is_closed>>
      BY <1>5 DEF SpawnWith
    <2> QED
      BY <1>1, <2>1, RuntimeUndisturbed, UndisturbedPromised
  <1>6. ASSUME [Next]_vars, UNCHANGED channelVars PROVE UNCHANGED Promise!queueVars
    <2>1. UNCHANGED <<queue, sent, received, is_closed>>
      BY <1>6 DEF channelVars
    <2> QED
      BY <1>1, <1>6, <2>1, RuntimeUndisturbed, UndisturbedPromised
  <1>7. CASE \E i \in Slots : OtherCall(i)
    BY <1>6, <1>7 DEF OtherCall, Next
  <1>8. CASE RuntimeStep
    BY <1>6, <1>8 DEF RuntimeStep, Next
  <1>9. CASE UNCHANGED <<vars, channelVars>>
    BY <1>6, <1>9
  <1> QED
    BY <1>2, <1>3, <1>4, <1>5, <1>7, <1>8, <1>9 DEF ChannelNext

\* The channel of the code keeps the promise of a MessageQueue, as long as nobody is
\* cancelled: with fibers coming and going, clones of both ends, and every order in
\* which the runtime runs those it has woken.
THEOREM ChannelIsMessageQueue == ASSUME ~OwnedParents, NoCancelCalls PROVE ChannelSpec => IsMessageQueue
  <1>1. ChannelInit => Promise!QueueInit
    <2> SUFFICES ASSUME ChannelInit PROVE Promise!QueueInit
      OBVIOUS
    <2>1. \A s \in Slots : pc[s] # "Parked"
      BY DEF ChannelInit, Init
    <2> QED
      BY <2>1 DEF Promise!QueueInit, ChannelInit, Waiting
  <1>2. WakeInv /\ [ChannelNext]_<<vars, channelVars>> => [Promise!QueueNext]_(Promise!queueVars)
    BY StepPromised
  <1> QED
    BY <1>1, <1>2, WakeAlways, PTL DEF ChannelSpec, IsMessageQueue, Promise!QueueSpec

=============================================================================
