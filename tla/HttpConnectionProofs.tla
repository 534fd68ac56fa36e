------------------------ MODULE HttpConnectionProofs ------------------------
(***************************************************************************)
(* The HTTP server on the runtime, for any number of connections, any size *)
(* of the buffer and any peers.  Nothing is assumed about closures: those  *)
(* of the server are the ones of HttpConnection.                           *)
(*                                                                         *)
(* The invariant of the runtime is not quite kept.  A handler that was     *)
(* cancelled in its loop leaves its waker behind, and a reader that still  *)
(* gets bytes wakes it out of the wait for its children (Early).  This is  *)
(* harmless only because the reader, cancelled as well, ends before it     *)
(* parks again: when the handler runs, its last child is gone.             *)
(***************************************************************************)
EXTENDS HttpConnection, RuntimeSafety

DropStages == {"drop_control", "drop_handler", "drop_reader"}
LoopStages == {"setup", "drop_reader", "loop", "respond", "responded"}
HandlerStages == LoopStages \cup {"end", "panic"}
ReaderStages == {"read", "got"}

\* Fiber s is in code that cannot be left by another fiber's step.
Busy(s) == mode = "run" /\ running_fiber = s /\ pc[s] = "User"

\* A handle exists only between a spawn and the drop that follows it at once.
Owners ==
    /\ \A j \in Slots : handle[j] # NoFiber =>
           \E i \in Slots : /\ handle[j] = i /\ Busy(i) /\ stage[i] \in DropStages
                            /\ pc[j] = "User"
    /\ \A j, k \in Slots : handle[j] # NoFiber /\ handle[k] # NoFiber => j = k

\* Which function a fiber is in, and where.
Role(s) ==
    /\ pc[s] = "Vacant" => stage[s] \in {"spawn", "end"} /\ conn[s] = NoConnection
    /\ pc[s] = "Parked" => stage[s] = "loop"
    /\ conn[s].open => stage[s] \in HandlerStages /\ \A c, d \in children[s] : c = d
    /\ stage[s] \in LoopStages => conn[s].open
    /\ stage[s] = "setup" => children[s] = {}
    /\ stage[s] \in DropStages => Busy(s)
    /\ stage[s] = "loop" => Busy(s) \/ pc[s] = "Parked"
    /\ stage[s] \in ReaderStages =>
           /\ pc[s] \in {"User", "Sys1", "Sys2"} /\ s # Root /\ children[s] = {}
           /\ \E h \in Slots : parent[s] = h /\ conn[h].open

\* What the buffer of connection s holds.
Buffer(s) ==
    /\ conn[s].len + conn[s].room <= Capacity
    /\ stage[s] \in {"respond", "responded"} => HasRequest(s)
    /\ stage[s] \in {"setup", "drop_reader"} => ~HasRequest(s)
    /\ stage[s] = "loop" /\ pc[s] = "User" => ~HasRequest(s)

\* Where the handler is when its waker is in the cell, and when it is not.
Cell(s) ==
    /\ conn[s].cell # NoFiber =>
           /\ conn[s].cell = s /\ conn[s].open
           /\ \/ /\ pc[s] = "Parked" /\ ~HasRequest(s)
                 /\ Scheduled(s) => s \in is_cancelled
              \/ Busy(s) /\ s \in is_cancelled
              \/ pc[s] = "Children" /\ children[s] \subseteq is_cancelled
              \/ pc[s] = "Done"
    /\ pc[s] = "Parked" /\ conn[s].cell = NoFiber => Scheduled(s)

\* A handler that was woken although its reader runs: the reader is ending.
Early(s) ==
    /\ pc[s] = "Children"
    /\ \E r \in Slots : /\ children[s] = {r} /\ Busy(r) /\ children[r] = {}
                        /\ r \in is_cancelled /\ stage[r] \in {"read", "end"}

\* The ready queue of the runtime, but for that.
HttpQueue ==
    /\ IsInjective(ready_fibers)
    /\ mode = "run" => running_fiber \notin Ready
    /\ \A s \in Ready : Justified(s) \/ Early(s)
    /\ \A s \in Slots : mode = "run" /\ running_fiber = s => Justified(s)

HttpInv ==
    /\ StateInv /\ HttpQueue
    /\ stage \in [Slots -> Stages] /\ conn \in [Slots -> Connections]
    /\ Owners
    /\ \A s \in Slots : Role(s) /\ Buffer(s) /\ Cell(s)

-----------------------------------------------------------------------------
(* Records of connections. *)

\* The fields of a connection.
LEMMA ConnTypes ==
    ASSUME conn \in [Slots -> Connections]
    PROVE  \A s \in Slots :
               /\ conn[s] \in Connections
               /\ conn[s].wire \in Nat \ {0} /\ conn[s].body \in Nat /\ conn[s].kind \in Kinds
               /\ conn[s].left \in 0 .. MaxBytes /\ conn[s].len \in 0 .. Capacity
               /\ conn[s].room \in 0 .. Capacity /\ conn[s].cell \in Slots \cup {NoFiber}
               /\ conn[s].open \in BOOLEAN
  <1>1. MaxBytes \in Nat /\ Capacity \in Nat /\ MaxBody \in Nat
    BY MaxBytesAssumption, CapacityAssumption
  <1> SUFFICES ASSUME NEW s \in Slots, conn[s] \in Connections
               PROVE  /\ conn[s].wire \in Nat \ {0} /\ conn[s].body \in Nat /\ conn[s].kind \in Kinds
                      /\ conn[s].left \in 0 .. MaxBytes /\ conn[s].len \in 0 .. Capacity
                      /\ conn[s].room \in 0 .. Capacity /\ conn[s].cell \in Slots \cup {NoFiber}
                      /\ conn[s].open \in BOOLEAN
    OBVIOUS
  <1> QED
    BY <1>1 DEF Connections

\* A waker put into the cell.
LEMMA CellIsSet ==
    ASSUME NEW c \in Connections, NEW i, NEW d, d = [c EXCEPT !.cell = i]
    PROVE  /\ d.open = c.open /\ d.cell = i /\ d.len = c.len
           /\ d.wire = c.wire /\ d.body = c.body /\ d.room = c.room
  BY DEF Connections

\* A response written, or not.
LEMMA ReplyIsSet ==
    ASSUME NEW c \in Connections, NEW r \in {"none", "written", "failed"}, NEW d, d = [c EXCEPT !.reply = r]
    PROVE  /\ d \in Connections
           /\ d.open = c.open /\ d.cell = c.cell /\ d.len = c.len
           /\ d.wire = c.wire /\ d.body = c.body /\ d.room = c.room
  BY DEF Connections

\* No connection.
LEMMA NoConnectionType ==
    /\ NoConnection \in Connections
    /\ NoConnection.len = 0 /\ NoConnection.room = 0 /\ NoConnection.cell = NoFiber
    /\ NoConnection.open = FALSE /\ NoConnection.wire = 1 /\ NoConnection.body = 0
  <1> DEFINE a == Accepting(1, 0, "answer", 0)
  <1>1. /\ a \in Connections /\ a.len = 0 /\ a.room = 0 /\ a.cell = NoFiber
        /\ a.wire = 1 /\ a.body = 0
    BY MaxBytesAssumption, CapacityAssumption, KindsAssumption DEF Accepting, Connections
  <1>2. NoConnection = [a EXCEPT !.open = FALSE]
    BY DEF NoConnection
  <1> HIDE DEF a
  <1> QED
    BY <1>1, <1>2 DEF Connections

\* Forget changes the slots that become vacant.
LEMMA ForgetFacts ==
    ASSUME stage \in [Slots -> Stages], conn \in [Slots -> Connections], Forget
    PROVE  /\ stage' \in [Slots -> Stages] /\ conn' \in [Slots -> Connections]
           /\ \A s \in Slots : Live(s) /\ pc'[s] = "Vacant" =>
                  stage'[s] = "end" /\ conn'[s] = NoConnection
           /\ \A s \in Slots : ~(Live(s) /\ pc'[s] = "Vacant") =>
                  stage'[s] = stage[s] /\ conn'[s] = conn[s]
           /\ (\A s \in Slots : pc'[s] = pc[s]) => stage' = stage /\ conn' = conn
  <1>1. "end" \in Stages
    BY DEF Stages
  <1> QED
    BY <1>1, NoConnectionType DEF Forget, Live

-----------------------------------------------------------------------------
(* The parts of the invariant. *)

\* What a step leaves of a connection when it concerns neither bytes nor waker.
SameConnection(s) ==
    \/ conn'[s] = conn[s]
    \/ /\ conn'[s].open = conn[s].open /\ conn'[s].cell = conn[s].cell
       /\ conn'[s].len = conn[s].len /\ conn'[s].wire = conn[s].wire
       /\ conn'[s].body = conn[s].body
       /\ conn'[s].len + conn'[s].room <= Capacity /\ conn[s].open

\* A fiber that a step leaves alone.
LEMMA SlotFrame ==
    ASSUME NEW s \in Slots, Role(s), Buffer(s), Cell(s),
           pc'[s] = pc[s], stage'[s] = stage[s], SameConnection(s), parent'[s] = parent[s],
           children'[s] \subseteq children[s],
           Busy(s) => Busy(s)',
           \A h \in Slots : stage[s] \in ReaderStages /\ parent[s] = h /\ conn[h].open => conn'[h].open,
           s \in is_cancelled => s \in is_cancelled',
           \A c \in children'[s] : c \in is_cancelled => c \in is_cancelled',
           pc[s] = "Parked" /\ Scheduled(s) => Scheduled(s)',
           pc[s] = "Parked" /\ Scheduled(s)' => Scheduled(s) \/ s \in is_cancelled'
    PROVE  Role(s)' /\ Buffer(s)' /\ Cell(s)'
  <1>1. /\ HasRequest(s)' <=> HasRequest(s)
        /\ conn'[s].open = conn[s].open /\ conn'[s].cell = conn[s].cell
    BY DEF HasRequest, SameConnection
  <1>2. Role(s)'
    <2>1. pc[s] = "Vacant" => conn'[s] = conn[s]
      BY NoConnectionType DEF Role, SameConnection
    <2> QED
      BY <1>1, <2>1 DEF Role
  <1>3. Buffer(s)'
    BY <1>1 DEF Buffer, SameConnection
  <1>4. Cell(s)'
    BY <1>1 DEF Cell
  <1> QED
    BY <1>2, <1>3, <1>4

\* There is a handle only while a fiber is about to drop it.
LEMMA NoHandles ==
    ASSUME Owners, \A i \in Slots : Busy(i) => stage[i] \notin DropStages
    PROVE  \A j \in Slots : handle[j] = NoFiber
  BY DEF Owners

\* While nobody was woken early, the invariant of the runtime holds.
LEMMA NotEarly ==
    ASSUME HttpInv,
           \A r \in Slots : Busy(r) => \/ stage[r] \notin {"read", "end"} \/ r \notin is_cancelled
                                       \/ children[r] # {} \/ r = Root
    PROVE  RuntimeInv
  <1>1. StateInv /\ HttpQueue /\ Hierarchy /\ TypeOK
    BY DEF HttpInv, StateInv, StackInv
  <1>2. ASSUME NEW s \in Slots, Early(s) PROVE FALSE
    <2>1. PICK r \in Slots : /\ children[s] = {r} /\ Busy(r) /\ children[r] = {}
                             /\ r \in is_cancelled /\ stage[r] \in {"read", "end"}
      BY <1>2 DEF Early
    <2>2. r # Root
      BY <1>1, <2>1, SlotsFacts DEF Hierarchy
    <2> QED
      BY <2>1, <2>2
  <1>3. Ready \subseteq Slots
    BY <1>1, ReadySlots
  <1> QED
    BY <1>1, <1>2, <1>3 DEF HttpQueue, RuntimeInv, Queue

\* The runtime's invariant is more than what is needed of the queue.
LEMMA FromRuntime == ASSUME RuntimeInv' PROVE StateInv' /\ HttpQueue'
  BY DEF HttpQueue, RuntimeInv, Queue

-----------------------------------------------------------------------------
(* Steps of a fiber's own code that leave the runtime alone. *)

\* The runtime's part of the invariant.
LEMMA StateUnchanged == ASSUME StateInv, UNCHANGED vars PROVE StateInv'
  <1>1. /\ UNCHANGED <<sq, inflight, cancelling, cq, mode, pc, parent, children, join_handle,
                       is_cancelled, syscall_result, result_is_error, target, handle,
                       ready_fibers, running_fiber, mapped, stack_pool>>
    BY DEF vars, interfaceVars, fiberVars, schedVars, stackVars
  <1>2. StackInv'
    BY <1>1
    DEF StateInv, StackInv, TypeOK, InterfaceTypeOK, StacksConserved, LinksKnown, ModeKnown, Live
  <1>3. (Hierarchy /\ Rooted /\ Handles /\ Joins)'
    BY <1>1 DEF StateInv, Hierarchy, Rooted, Closed, Handles, Joins, Active, Live, Joining
  <1>4. (Cancellation /\ CancelPropagates)'
    BY <1>1 DEF StateInv, Cancellation, CancellationReaches, Scheduled, CancelPropagates,
                Descendants, Completed, LiveSet, Live
  <1>5. (Rings /\ AsyncCancels)'
    BY <1>1 DEF StateInv, Rings, OnePlace, InRings, Issued, Found, Pending, InSyscall, AsyncCancels
  <1>6. Phases'
    BY <1>1 DEF StateInv, Phases, Active, LiveSet, Live
  <1> QED
    BY <1>2, <1>3, <1>4, <1>5, <1>6 DEF StateInv

\* Fiber i goes from stage a to stage b.
LEMMA LocalStep ==
    ASSUME HttpInv, NEW i \in Slots, Busy(i), UNCHANGED vars, NEW a, NEW b \in Stages \ DropStages,
           Step(i, a, b), a \notin DropStages, a # "end", a = "read" => b = "end",
           conn' \in [Slots -> Connections], \A s \in Slots \ {i} : conn'[s] = conn[s],
           conn'[i].open = conn[i].open,
           Role(i)' /\ Buffer(i)' /\ Cell(i)'
    PROVE  HttpInv'
  <1>1. /\ UNCHANGED <<sq, inflight, cancelling, cq, mode, pc, parent, children, join_handle,
                       is_cancelled, syscall_result, result_is_error, target, handle,
                       ready_fibers, running_fiber, mapped, stack_pool>>
        /\ stage[i] = a /\ stage' = [stage EXCEPT ![i] = b]
    BY DEF vars, interfaceVars, fiberVars, schedVars, stackVars, Step
  <1>2. /\ StateInv /\ HttpQueue /\ stage \in [Slots -> Stages] /\ Owners
        /\ \A s \in Slots : Role(s) /\ Buffer(s) /\ Cell(s)
    BY DEF HttpInv
  <1>3. StateInv'
    BY <1>2, StateUnchanged
  <1>4. /\ stage' \in [Slots -> Stages] /\ stage'[i] = b
        /\ \A s \in Slots \ {i} : stage'[s] = stage[s]
    BY <1>1, <1>2
  <1>5. \A s \in Slots : Busy(s)' <=> Busy(s)
    BY <1>1 DEF Busy
  <1>6. HttpQueue'
    <2>1. ASSUME NEW s \in Slots, Early(s) PROVE Early(s)'
      <3>1. PICK r \in Slots : /\ children[s] = {r} /\ Busy(r) /\ children[r] = {}
                               /\ r \in is_cancelled /\ stage[r] \in {"read", "end"}
        BY <2>1 DEF Early
      <3>2. r = i
        BY <3>1 DEF Busy
      <3>3. stage'[r] = "end"
        BY <1>1, <1>4, <3>1, <3>2
      <3> QED
        BY <1>1, <1>5, <2>1, <3>1, <3>3 DEF Early
    <2>2. \A s \in Slots : Justified(s)' <=> Justified(s)
      BY <1>1 DEF Justified, Active, Completed
    <2>3. Ready' = Ready /\ Ready \subseteq Slots
      BY <1>1, <1>2, ReadySlots DEF StateInv, StackInv, Ready
    <2> QED
      BY <1>1, <1>2, <2>1, <2>2, <2>3 DEF HttpQueue
  <1>7. Owners'
    <2>1. \A j \in Slots : handle[j] = NoFiber
      <3>1. \A s \in Slots : Busy(s) => s = i
        BY DEF Busy
      <3> QED
        BY <1>1, <1>2, <3>1, NoHandles
    <2> QED
      BY <1>1, <2>1 DEF Owners
  <1>8. ASSUME NEW s \in Slots \ {i} PROVE Role(s)' /\ Buffer(s)' /\ Cell(s)'
    <2>1. SameConnection(s)
      BY DEF SameConnection
    <2>2. \A h \in Slots : conn[h].open => conn'[h].open
      OBVIOUS
    <2>3. Scheduled(s)' <=> Scheduled(s)
      BY <1>1 DEF Scheduled
    <2> QED
      BY <1>1, <1>2, <1>4, <1>5, <2>1, <2>2, <2>3, SlotFrame
  <1> QED
    BY <1>3, <1>4, <1>6, <1>7, <1>8 DEF HttpInv

\* A fiber goes on in its function, and changes no more of its connection than
\* the reply.
LEMMA ReplyMove ==
    ASSUME HttpInv, NEW i \in Slots, At(i, "User"), UNCHANGED vars, NEW a, NEW b,
           Step(i, a, b),
           <<a, b>> \in {<<"wait", "propagate">>, <<"accept", "close">>, <<"close", "end">>,
                         <<"accepted", "close">>, <<"setup", "panic">>, <<"loop", "end">>,
                         <<"respond", "responded">>, <<"responded", "panic">>, <<"read", "end">>,
                         <<"got", "end">>},
           conn' \in [Slots -> Connections], \A s \in Slots \ {i} : conn'[s] = conn[s],
           conn'[i].open = conn[i].open, conn'[i].cell = conn[i].cell,
           conn'[i].len = conn[i].len, conn'[i].room = conn[i].room,
           conn'[i].wire = conn[i].wire, conn'[i].body = conn[i].body
    PROVE  HttpInv'
  <1>1. /\ Role(i) /\ Buffer(i) /\ Cell(i) /\ Busy(i)
        /\ stage[i] = a /\ stage' = [stage EXCEPT ![i] = b] /\ stage \in [Slots -> Stages]
        /\ \A s \in Slots : Role(s)
    BY DEF HttpInv, At, Busy, Step
  <1>2. UNCHANGED <<mode, pc, parent, children, is_cancelled, ready_fibers, running_fiber>>
    BY DEF vars, fiberVars, schedVars
  <1>3. stage'[i] = b /\ Busy(i)' /\ pc[i] = "User" /\ pc'[i] = "User"
    BY <1>1, <1>2 DEF Busy
  <1>4. /\ b \in Stages \ DropStages /\ a \notin DropStages /\ a # "end" /\ (a = "read" => b = "end")
        /\ b \notin ReaderStages /\ b # "setup" /\ b # "loop" /\ b # "drop_reader"
        /\ b \in LoopStages => a \in LoopStages
        /\ b \notin HandlerStages => a \notin HandlerStages
        /\ b \in {"respond", "responded"} => a = "respond"
    BY DEF Stages, DropStages, ReaderStages, LoopStages, HandlerStages
  <1>5. Role(i)'
    BY <1>1, <1>2, <1>3, <1>4 DEF Role
  <1>6. Buffer(i)'
    BY <1>1, <1>2, <1>3, <1>4 DEF Buffer, HasRequest
  <1>7. Cell(i)'
    BY <1>1, <1>2, <1>3 DEF Cell, HasRequest, Scheduled
  <1> QED
    BY <1>1, <1>2, <1>4, <1>5, <1>6, <1>7, LocalStep

\* The same where the connection stays as it is: the branch of a cancelled fiber
\* around a system call, and failures.
LEMMA LocalMove ==
    ASSUME HttpInv, NEW i \in Slots, At(i, "User"), UNCHANGED <<vars, conn>>, NEW a, NEW b,
           Step(i, a, b),
           <<a, b>> \in {<<"wait", "propagate">>, <<"accept", "close">>, <<"close", "end">>,
                         <<"accepted", "close">>, <<"setup", "panic">>, <<"loop", "end">>,
                         <<"respond", "responded">>, <<"responded", "panic">>, <<"read", "end">>,
                         <<"got", "end">>}
    PROVE  HttpInv'
  <1>1. conn \in [Slots -> Connections] /\ conn' = conn
    BY DEF HttpInv
  <1> QED
    BY <1>1, ReplyMove

\* The reply of a connection that a fiber has.
LEMMA ReplyFacts ==
    ASSUME HttpInv, NEW i \in Slots, NEW r \in {"none", "written", "failed"},
           conn' = [conn EXCEPT ![i].reply = r]
    PROVE  /\ conn' \in [Slots -> Connections] /\ \A s \in Slots \ {i} : conn'[s] = conn[s]
           /\ conn'[i].open = conn[i].open /\ conn'[i].cell = conn[i].cell
           /\ conn'[i].len = conn[i].len /\ conn'[i].room = conn[i].room
           /\ conn'[i].wire = conn[i].wire /\ conn'[i].body = conn[i].body
  <1>1. conn \in [Slots -> Connections] /\ conn[i] \in Connections
    BY DEF HttpInv
  <1>2. conn'[i] = [conn[i] EXCEPT !.reply = r] /\ \A s \in Slots \ {i} : conn'[s] = conn[s]
    BY <1>1
  <1>3. conn'[i] \in Connections
    BY <1>1, <1>2, ReplyIsSet
  <1> QED
    BY <1>1, <1>2, <1>3, ReplyIsSet

\* There is no memory for the buffer.
LEMMA NoBufferHttp == ASSUME HttpInv, NEW i \in Slots, NoBuffer(i) PROVE HttpInv'
  BY LocalMove DEF NoBuffer

\* The handler has responded and consumes the request, but not its body.
LEMMA RespondedHttp == ASSUME HttpInv, NEW i \in Slots, Responded(i) PROVE HttpInv'
  <1>1. ASSUME NEW r \in {"none", "written", "failed"}, Step(i, "responded", "panic"),
               conn' = [conn EXCEPT ![i].reply = r]
        PROVE  HttpInv'
    BY <1>1, ReplyFacts, ReplyMove DEF Responded
  <1>2. ASSUME NEW r \in {"none", "written", "failed"}, Step(i, "responded", "end"),
               conn' = [conn EXCEPT ![i].reply = r, ![i].len = @ - conn[i].wire]
        PROVE  HttpInv'
    <2>1. /\ Role(i) /\ Buffer(i) /\ Cell(i) /\ Busy(i) /\ conn \in [Slots -> Connections]
          /\ stage[i] = "responded" /\ stage' = [stage EXCEPT ![i] = "end"]
          /\ stage \in [Slots -> Stages]
      BY <1>2 DEF HttpInv, Responded, At, Busy, Step
    <2>2. UNCHANGED <<mode, pc, parent, children, is_cancelled, ready_fibers, running_fiber>>
      BY DEF Responded, vars, fiberVars, schedVars
    <2>3. stage'[i] = "end" /\ Busy(i)' /\ pc[i] = "User" /\ pc'[i] = "User"
      BY <2>1, <2>2 DEF Busy
    <2> DEFINE n == conn[i].len - conn[i].wire
    <2>4. n \in 0 .. Capacity /\ n <= conn[i].len
      BY <2>1, ConnTypes, CapacityAssumption DEF Buffer, HasRequest
    <2> DEFINE d == [conn[i] EXCEPT !.reply = r, !.len = n]
    <2>5. conn' = [conn EXCEPT ![i] = d]
      BY <1>2, <2>1
    <2> HIDE DEF n
    <2>6. /\ d \in Connections
          /\ conn' \in [Slots -> Connections] /\ \A s \in Slots \ {i} : conn'[s] = conn[s]
          /\ conn'[i].open = conn[i].open /\ conn'[i].cell = conn[i].cell
          /\ conn'[i].len = n /\ conn'[i].room = conn[i].room
      <3>1. conn[i] \in Connections
        BY <2>1
      <3>2. d \in Connections
        BY <1>2, <2>4, <3>1 DEF Connections
      <3>3. conn'[i] = d
        BY <2>1, <2>5
      <3>4. /\ conn'[i].open = conn[i].open /\ conn'[i].cell = conn[i].cell
            /\ conn'[i].len = n /\ conn'[i].room = conn[i].room
        BY <3>1, <3>3 DEF Connections
      <3> QED
        BY <2>1, <2>5, <3>2, <3>4
    <2>7. Role(i)'
      BY <2>1, <2>2, <2>3, <2>6 DEF Role, HandlerStages, LoopStages, ReaderStages, DropStages
    <2>8. Buffer(i)'
      <3>1. n + conn[i].room <= Capacity
        BY <2>1, <2>4, ConnTypes, CapacityAssumption DEF Buffer
      <3> QED
        BY <2>3, <2>6, <3>1 DEF Buffer
    <2>9. Cell(i)'
      BY <2>1, <2>2, <2>3, <2>6 DEF Cell
    <2>10. /\ "end" \in Stages \ DropStages /\ "responded" \notin DropStages /\ UNCHANGED vars
      BY DEF Stages, DropStages, Responded
    <2> QED
      BY <1>2, <2>1, <2>6, <2>7, <2>8, <2>9, <2>10, LocalStep
  <1>3. \A r : r \in (IF conn[i].reply = "none" THEN {"written", "failed"} ELSE {conn[i].reply})
                 => r \in {"none", "written", "failed"}
    BY DEF HttpInv, Connections
  <1> QED
    BY <1>1, <1>2, <1>3 DEF Responded

-----------------------------------------------------------------------------
(* System calls. *)

\* Fiber i issues a system call, at the end of which it will be at stage b.
LEMMA IssueHttp ==
    ASSUME HttpInv, NEW i \in Slots, Syscall(i), NEW a, NEW b, Step(i, a, b),
           <<a, b>> \in {<<"wait", "propagate">>, <<"accept", "accepted">>, <<"close", "end">>,
                         <<"respond", "responded">>, <<"read", "got">>},
           conn' \in [Slots -> Connections], \A s \in Slots : SameConnection(s)
    PROVE  HttpInv'
  <1>1. /\ Role(i) /\ Buffer(i) /\ Cell(i) /\ Busy(i) /\ i \notin is_cancelled
        /\ stage[i] = a /\ stage' = [stage EXCEPT ![i] = b] /\ stage \in [Slots -> Stages]
        /\ Owners /\ StackInv /\ \A s \in Slots : Role(s) /\ Buffer(s) /\ Cell(s)
    BY DEF HttpInv, Syscall, At, Busy, Step, StateInv
  <1>2. /\ pc' = [pc EXCEPT ![i] = "Sys1"] /\ running_fiber' = NoFiber
        /\ UNCHANGED <<mode, parent, children, is_cancelled, handle, ready_fibers>>
        /\ running_fiber = i /\ pc[i] = "User" /\ pc \in [Slots -> Labels]
    BY <1>1 DEF Syscall, Park, Busy, StackInv, TypeOK
  <1>3. stage'[i] = b /\ pc'[i] = "Sys1" /\ \A s \in Slots \ {i} : stage'[s] = stage[s] /\ pc'[s] = pc[s]
    BY <1>1, <1>2
  <1>4. RuntimeInv'
    <2>1. RuntimeInv
      BY <1>1, NotEarly DEF Busy
    <2> QED
      BY <1>1, <2>1, SyscallStep, SyscallKeeps
  <1>5. /\ b \in Stages /\ a \notin DropStages /\ b \notin DropStages
        /\ b # "setup" /\ b # "loop" /\ b # "drop_reader" /\ b # "respond"
        /\ b \in LoopStages => a \in LoopStages
        /\ b \notin HandlerStages => a \notin HandlerStages
        /\ b = "responded" => a = "respond"
        /\ b \in ReaderStages => a \in ReaderStages
    BY DEF Stages, DropStages, ReaderStages, LoopStages, HandlerStages
  <1>6. \A s \in Slots : conn'[s].open = conn[s].open /\ conn'[s].cell = conn[s].cell
    BY DEF SameConnection
  <1>7. Role(i)'
    BY <1>1, <1>2, <1>3, <1>5, <1>6 DEF Role
  <1>8. Buffer(i)'
    <2>1. SameConnection(i)
      OBVIOUS
    <2>2. /\ HasRequest(i)' <=> HasRequest(i)
          /\ conn'[i].len + conn'[i].room <= Capacity
      BY <1>1, <2>1 DEF SameConnection, HasRequest, Buffer
    <2> QED
      BY <1>1, <1>3, <1>5, <2>2 DEF Buffer
  <1>9. Cell(i)'
    <2>1. conn[i].cell = NoFiber
      BY <1>1, <1>2 DEF Cell
    <2> QED
      BY <1>3, <1>6, <2>1 DEF Cell
  <1>10. ASSUME NEW s \in Slots \ {i} PROVE Role(s)' /\ Buffer(s)' /\ Cell(s)'
    <2>1. ~Busy(s) /\ (Scheduled(s)' <=> Scheduled(s))
      BY <1>2, SlotsFacts DEF Busy, Scheduled
    <2> QED
      BY <1>1, <1>2, <1>3, <1>6, <2>1, SlotFrame
  <1>11. Owners'
    <2>1. \A j \in Slots : handle[j] = NoFiber
      BY <1>1, <1>5, NoHandles DEF Busy
    <2> QED
      BY <1>2, <2>1 DEF Owners
  <1>12. stage' \in [Slots -> Stages]
    BY <1>1, <1>5
  <1> QED
    BY <1>4, <1>7, <1>8, <1>9, <1>10, <1>11, <1>12, FromRuntime DEF HttpInv

\* The system calls of the functions that do nothing else.
LEMMA CallHttp ==
    ASSUME HttpInv, NEW i \in Slots, ControlWait(i) \/ Accept(i) \/ CloseListener(i)
    PROVE  HttpInv'
  <1>1. conn \in [Slots -> Connections]
    BY DEF HttpInv
  <1>2. ASSUME NEW a, NEW b, NEW c, Call3(i, a, b, c),
               <<a, b, c>> \in {<<"wait", "propagate", "propagate">>, <<"accept", "accepted", "close">>,
                                <<"close", "end", "end">>}
        PROVE  HttpInv'
    <2>1. CASE Step(i, a, b) /\ Syscall(i) /\ UNCHANGED conn
      <3>1. \A s \in Slots : SameConnection(s)
        BY <2>1 DEF SameConnection
      <3>2. <<a, b>> \in {<<"wait", "propagate">>, <<"accept", "accepted">>, <<"close", "end">>}
        BY <1>2
      <3> QED
        BY <1>1, <2>1, <3>1, <3>2, IssueHttp
    <2>2. CASE Step(i, a, c) /\ At(i, "User") /\ UNCHANGED <<vars, conn>>
      <3>1. <<a, c>> \in {<<"wait", "propagate">>, <<"accept", "close">>, <<"close", "end">>}
        BY <1>2
      <3> QED
        BY <2>2, <3>1, LocalMove
    <2> QED
      BY <1>2, <2>1, <2>2 DEF Call3
  <1> QED
    BY <1>2 DEF ControlWait, Accept, CloseListener

\* The write of the response.
LEMMA RespondHttp == ASSUME HttpInv, NEW i \in Slots, Respond(i) PROVE HttpInv'
  <1>1. /\ Role(i) /\ conn \in [Slots -> Connections] /\ Step(i, "respond", "responded")
        /\ \A s \in Slots : Buffer(s)
    BY DEF HttpInv, Respond, Step
  <1>2. CASE Syscall(i) /\ UNCHANGED conn
    <2>1. \A s \in Slots : SameConnection(s)
      BY <1>2 DEF SameConnection
    <2> QED
      BY <1>1, <1>2, <2>1, IssueHttp
  <1>3. CASE At(i, "User") /\ conn' = [conn EXCEPT ![i].reply = "failed"] /\ UNCHANGED vars
    BY <1>1, <1>3, ReplyFacts, ReplyMove
  <1> QED
    BY <1>1, <1>2, <1>3 DEF Respond

\* The read, into the free part of the buffer.
LEMMA ReadHttp == ASSUME HttpInv, NEW i \in Slots, Read(i) PROVE HttpInv'
  <1>1. /\ Role(i) /\ conn \in [Slots -> Connections] /\ stage[i] = "read"
        /\ \A s \in Slots : Buffer(s)
    BY DEF HttpInv, Read, Step
  <1>2. PICK h \in Slots : parent[i] = h /\ conn[h].open
    BY <1>1 DEF Role, ReaderStages
  <1>3. CASE /\ Syscall(i) /\ Step(i, "read", "got")
             /\ conn' = [conn EXCEPT ![parent[i]].room = Capacity - conn[parent[i]].len]
    <2> DEFINE n == Capacity - conn[h].len
    <2>1. n \in 0 .. Capacity /\ conn[h] \in Connections /\ conn[h].len + n = Capacity
      BY <1>1, ConnTypes, CapacityAssumption
    <2>2. conn' = [conn EXCEPT ![h] = [conn[h] EXCEPT !.room = n]]
      BY <1>2, <1>3
    <2> HIDE DEF n
    <2>3. conn'[h] = [conn[h] EXCEPT !.room = n] /\ \A s \in Slots \ {h} : conn'[s] = conn[s]
      BY <1>1, <2>2
    <2>4. [conn[h] EXCEPT !.room = n] \in Connections
      BY <2>1 DEF Connections
    <2>5. /\ conn'[h].open = conn[h].open /\ conn'[h].cell = conn[h].cell
          /\ conn'[h].len = conn[h].len /\ conn'[h].wire = conn[h].wire
          /\ conn'[h].body = conn[h].body /\ conn'[h].room = n
      BY <2>1, <2>3 DEF Connections
    <2>6. \A s \in Slots : SameConnection(s)
      <3>1. conn'[h].len + conn'[h].room <= Capacity
        BY <2>1, <2>5, CapacityAssumption
      <3>2. SameConnection(h)
        BY <1>2, <2>5, <3>1 DEF SameConnection
      <3> QED
        BY <2>3, <3>2 DEF SameConnection
    <2>7. conn' \in [Slots -> Connections]
      BY <1>1, <2>2, <2>4
    <2> QED
      BY <1>3, <2>6, <2>7, IssueHttp
  <1>4. CASE At(i, "User") /\ Step(i, "read", "end") /\ UNCHANGED <<vars, conn>>
    BY <1>1, <1>4, LocalMove
  <1> QED
    BY <1>3, <1>4 DEF Read

-----------------------------------------------------------------------------
(* spawn and the drop of the handle. *)

\* Fiber i spawns c, for which it goes to stage b and c begins at stage d; with
\* a connection if c is a handler.
LEMMA SpawnHttp ==
    ASSUME HttpInv, NEW i \in Slots, NEW c \in Slots, Spawn(i, c, {}), NEW b \in DropStages, NEW d,
           stage' = [stage EXCEPT ![i] = b, ![c] = d],
           stage[i] \notin DropStages \cup {"read", "end"},
           \/ b \in {"drop_control", "drop_handler"} /\ stage[i] \in {"spawn", "accepted"}
           \/ b = "drop_reader" /\ stage[i] = "setup",
           \/ d = "wait" /\ UNCHANGED conn
           \/ d = "read" /\ UNCHANGED conn /\ stage[i] = "setup"
           \/ /\ d = "setup"
              /\ \E wire \in 1 .. MaxBytes + 1, kind \in Kinds, n \in 0 .. MaxBytes :
                     \E body \in 0 .. MaxBody :
                         conn' = [conn EXCEPT ![c] = Accepting(wire, body, kind, n)]
    PROVE  HttpInv'
  <1>1. /\ stage \in [Slots -> Stages] /\ conn \in [Slots -> Connections]
        /\ Owners /\ StateInv /\ StackInv /\ TypeOK /\ Hierarchy
        /\ \A s \in Slots : Role(s) /\ Buffer(s) /\ Cell(s)
    BY DEF HttpInv, StateInv, StackInv
  <1>2. /\ mode = "run" /\ running_fiber = i /\ pc[i] = "User" /\ pc[c] = "Vacant"
        /\ UNCHANGED <<mode, running_fiber>>
        /\ pc' = [pc EXCEPT ![c] = "User"] /\ parent' = [parent EXCEPT ![c] = i]
        /\ children' = [children EXCEPT ![i] = @ \cup {c}]
        /\ ready_fibers' = Append(ready_fibers, c)
        /\ is_cancelled' = IF i \in is_cancelled THEN is_cancelled \cup {c} ELSE is_cancelled
        /\ handle' = [j \in Slots |-> IF j = c THEN i ELSE IF j \in {} THEN c ELSE handle[j]]
    BY DEF Spawn, At
  <1>3. c # i /\ Busy(i)
    BY <1>2 DEF Busy
  <1>4. RuntimeInv'
    <2>1. RuntimeInv
      BY <1>2, NotEarly DEF Busy
    <2>2. {} \in SUBSET Held(i)
      OBVIOUS
    <2>3. StackInv'
      BY <1>1, <2>2, SpawnStep
    <2> QED
      BY <2>1, <2>2, <2>3, SpawnKeeps
  <1>5. \A j \in Slots : handle[j] = NoFiber
    BY <1>1, <1>2, NoHandles DEF Busy
  <1>6. /\ pc'[c] = "User" /\ \A s \in Slots \ {c} : pc'[s] = pc[s] /\ parent'[s] = parent[s]
        /\ parent'[c] = i /\ handle'[c] = i /\ \A s \in Slots \ {c} : handle'[s] = NoFiber
        /\ children'[i] = children[i] \cup {c} /\ \A s \in Slots \ {i} : children'[s] = children[s]
        /\ stage'[i] = b /\ stage'[c] = d /\ \A s \in Slots \ {i, c} : stage'[s] = stage[s]
        /\ Ready' = Ready \cup {c} /\ is_cancelled \subseteq is_cancelled'
    <2>1. ready_fibers \in Seq(Slots)
      BY <1>1 DEF TypeOK
    <2>2. Ready' = Ready \cup {c}
      BY <1>2, <2>1, AppendSet DEF Ready
    <2> QED
      BY <1>1, <1>2, <1>3, <1>5, <2>2 DEF TypeOK
  <1>7. Busy(i)'
    BY <1>2, <1>3, <1>6 DEF Busy
  <1>8. Owners'
    <2>1. ASSUME NEW j \in Slots, handle'[j] # NoFiber
          PROVE  \E k \in Slots : /\ handle'[j] = k /\ Busy(k)' /\ stage'[k] \in DropStages
                                  /\ pc'[j] = "User"
      <3>1. j = c
        BY <1>6, <2>1
      <3> QED
        BY <1>6, <1>7, <3>1
    <2>2. \A j, k \in Slots : handle'[j] # NoFiber /\ handle'[k] # NoFiber => j = k
      BY <1>6
    <2> QED
      BY <2>1, <2>2 DEF Owners
  <1>9. /\ b \in Stages /\ d \in Stages /\ d \notin DropStages /\ d # "loop"
        /\ "setup" \notin ReaderStages /\ "wait" \notin ReaderStages \cup LoopStages
        /\ "read" \notin LoopStages /\ "read" \in ReaderStages /\ b \notin ReaderStages
        /\ "setup" \in LoopStages /\ LoopStages \subseteq HandlerStages /\ b # "setup" /\ b # "loop"
        /\ b # "respond" /\ b # "responded" /\ (b # "drop_reader" => b \notin LoopStages)
        /\ {"spawn", "accepted"} \cap HandlerStages = {}
        /\ "drop_reader" \in LoopStages /\ d # "respond" /\ d # "responded" /\ d # "drop_reader"
    BY DEF Stages, DropStages, ReaderStages, LoopStages, HandlerStages
  <1>10. /\ conn' \in [Slots -> Connections] /\ \A s \in Slots \ {c} : conn'[s] = conn[s]
         /\ conn'[c].cell = NoFiber /\ conn'[c].len = 0 /\ conn'[c].room = 0
         /\ (conn'[c].open <=> d = "setup") /\ ~HasRequest(c)'
    <2>1. conn[c] = NoConnection
      BY <1>1, <1>2 DEF Role
    <2>2. CASE d \in {"wait", "read"}
      <3>1. conn' = conn
        BY <2>2
      <3> QED
        BY <1>1, <2>1, <2>2, <3>1, NoConnectionType DEF HasRequest
    <2>3. CASE d = "setup"
      <3>1. PICK wire \in 1 .. MaxBytes + 1, kind \in Kinds, n \in 0 .. MaxBytes,
                 body \in 0 .. MaxBody :
                     conn' = [conn EXCEPT ![c] = Accepting(wire, body, kind, n)]
        BY <2>3
      <3> DEFINE a == Accepting(wire, body, kind, n)
      <3>2. /\ a \in Connections /\ a.len = 0 /\ a.room = 0 /\ a.cell = NoFiber /\ a.open = TRUE
            /\ a.wire = wire /\ a.body = body
        BY MaxBytesAssumption, CapacityAssumption DEF Accepting, Connections
      <3>3. conn' = [conn EXCEPT ![c] = a]
        BY <3>1
      <3> HIDE DEF a
      <3>4. conn'[c] = a /\ conn' \in [Slots -> Connections] /\ \A s \in Slots \ {c} : conn'[s] = conn[s]
        BY <1>1, <3>2, <3>3
      <3>5. ~(0 >= wire + body)
        BY MaxBytesAssumption
      <3>6. ~HasRequest(c)'
        BY <3>2, <3>4, <3>5 DEF HasRequest
      <3> QED
        BY <2>3, <3>2, <3>4, <3>6
    <2> QED
      BY <2>2, <2>3
  <1>11. Role(c)' /\ Buffer(c)' /\ Cell(c)'
    <2>1. children'[c] = {} /\ c # Root
      <3>1. ~Active(c) /\ children[c] = {}
        BY <1>1, <1>2, NoLinksFromEnded DEF Active
      <3>2. mode = "run" => Active(Root)
        BY <1>1 DEF StateInv, Phases
      <3> QED
        BY <1>2, <1>3, <1>6, <3>1, <3>2
    <2>2. d = "read" => conn'[i].open
      <3>1. stage[i] = "setup" => conn[i].open
        BY <1>1, <1>9 DEF Role
      <3> QED
        BY <1>3, <1>9, <1>10, <3>1
    <2>3. Role(c)'
      BY <1>6, <1>9, <1>10, <2>1, <2>2 DEF Role
    <2>4. Buffer(c)'
      <3>1. conn'[c].len + conn'[c].room <= Capacity
        BY <1>10, CapacityAssumption
      <3> QED
        BY <1>6, <1>9, <1>10, <3>1 DEF Buffer
    <2>5. Cell(c)'
      BY <1>6, <1>10 DEF Cell
    <2> QED
      BY <2>3, <2>4, <2>5
  <1>12. Role(i)' /\ Buffer(i)' /\ Cell(i)'
    <2>1. conn'[i] = conn[i] /\ pc'[i] = "User" /\ (HasRequest(i)' <=> HasRequest(i))
      BY <1>2, <1>3, <1>6, <1>10 DEF HasRequest
    <2>2. CASE b = "drop_reader"
      <3>1. stage[i] = "setup" /\ children[i] = {} /\ conn[i].open /\ children'[i] = {c}
        BY <1>1, <1>6, <1>9, <2>2 DEF Role, DropStages
      <3>2. Role(i)'
        BY <1>6, <1>7, <1>9, <2>1, <2>2, <3>1 DEF Role
      <3> QED
        BY <1>1, <1>6, <1>7, <2>1, <2>2, <3>1, <3>2 DEF Buffer, Cell
    <2>3. CASE b # "drop_reader"
      <3>1. ~conn[i].open /\ b \notin LoopStages
        BY <1>1, <1>9, <2>3 DEF Role
      <3>2. Role(i)'
        BY <1>6, <1>7, <1>9, <2>1, <2>3, <3>1 DEF Role
      <3> QED
        BY <1>1, <1>6, <1>7, <1>9, <2>1, <2>3, <3>1, <3>2 DEF Buffer, Cell
    <2> QED
      BY <2>2, <2>3
  <1>13. ASSUME NEW s \in Slots \ {i, c} PROVE Role(s)' /\ Buffer(s)' /\ Cell(s)'
    <2>1. ~Busy(s) /\ (Scheduled(s)' <=> Scheduled(s))
      BY <1>2, <1>6 DEF Busy, Scheduled, Ready
    <2>2. SameConnection(s)
      BY <1>10 DEF SameConnection
    <2>3. \A h \in Slots : conn[h].open => conn'[h].open
      <3>1. ~conn[c].open
        BY <1>1, <1>2, NoConnectionType DEF Role
      <3> QED
        BY <1>10, <3>1
    <2> QED
      BY <1>1, <1>6, <2>1, <2>2, <2>3, SlotFrame
  <1>14. stage' \in [Slots -> Stages]
    BY <1>1, <1>9
  <1> QED
    BY <1>4, <1>8, <1>10, <1>11, <1>12, <1>13, <1>14, FromRuntime DEF HttpInv

\* The spawns of the server: of the fiber that stops it, of handlers and of readers.
LEMMA SpawnsHttp ==
    ASSUME HttpInv, NEW i \in Slots,
           \/ \E c \in Slots : i = Root /\ SpawnControl(c)
           \/ Accepted(i)
           \/ \E c \in Slots : SpawnReader(i, c)
    PROVE  HttpInv'
  <1>1. ASSUME NEW c \in Slots, i = Root, SpawnControl(c) PROVE HttpInv'
    <2>1. /\ Spawn(i, c, {}) /\ stage[i] = "spawn" /\ UNCHANGED conn
          /\ stage' = [stage EXCEPT ![i] = "drop_control", ![c] = "wait"]
      BY <1>1 DEF SpawnControl, SpawnFiber
    <2>2. "drop_control" \in DropStages /\ "spawn" \notin DropStages \cup {"read", "end"}
      BY DEF DropStages
    <2> QED
      BY <2>1, <2>2, SpawnHttp
  <1>2. ASSUME NEW c \in Slots, SpawnReader(i, c) PROVE HttpInv'
    <2>1. /\ Spawn(i, c, {}) /\ stage[i] = "setup" /\ UNCHANGED conn
          /\ stage' = [stage EXCEPT ![i] = "drop_reader", ![c] = "read"]
      BY <1>2 DEF SpawnReader, SpawnFiber
    <2>2. "drop_reader" \in DropStages /\ "setup" \notin DropStages \cup {"read", "end"}
      BY DEF DropStages
    <2> QED
      BY <2>1, <2>2, SpawnHttp
  <1>3. CASE Accepted(i)
    <2>1. CASE At(i, "User") /\ Step(i, "accepted", "close") /\ UNCHANGED <<vars, conn>>
      BY <2>1, LocalMove
    <2>2. ASSUME NEW h \in Slots, stage[i] = "accepted", SpawnFiber(i, h),
                 stage' = [stage EXCEPT ![i] = "drop_handler", ![h] = "setup"],
                 \E wire \in 1 .. MaxBytes + 1, kind \in Kinds, n \in 0 .. MaxBytes :
                     \E body \in 0 .. MaxBody :
                         conn' = [conn EXCEPT ![h] = Accepting(wire, body, kind, n)]
          PROVE  HttpInv'
      <3>1. Spawn(i, h, {})
        BY <2>2 DEF SpawnFiber
      <3>2. "drop_handler" \in DropStages /\ "accepted" \notin DropStages \cup {"read", "end"}
        BY DEF DropStages
      <3> QED
        BY <2>2, <3>1, <3>2, SpawnHttp
    <2> QED
      BY <1>3, <2>1, <2>2 DEF Accepted
  <1> QED
    BY <1>1, <1>2, <1>3

\* The handle of a spawn is dropped at once, when the new fiber has not run yet.
LEMMA DropHttp ==
    ASSUME HttpInv, NEW i \in Slots, NEW j \in Slots, DropHandle(i, j), UNCHANGED conn,
           NEW a, NEW b, Step(i, a, b),
           <<a, b>> \in {<<"drop_control", "accept">>, <<"drop_handler", "accept">>,
                         <<"drop_reader", "loop">>}
    PROVE  HttpInv'
  <1>1. /\ stage \in [Slots -> Stages] /\ conn \in [Slots -> Connections]
        /\ Owners /\ StackInv
        /\ \A s \in Slots : Role(s) /\ Buffer(s) /\ Cell(s)
        /\ stage[i] = a /\ stage' = [stage EXCEPT ![i] = b]
    BY DEF HttpInv, StateInv, Step
  <1>2. /\ mode = "run" /\ running_fiber = i /\ pc[i] = "User" /\ handle[j] = i
        /\ UNCHANGED <<mode, running_fiber, ready_fibers>> /\ Release(j, pc)
    BY DEF DropHandle, At, schedVars
  <1>3. pc[j] = "User" /\ \A k \in Slots \ {j} : handle[k] = NoFiber
    BY <1>1, <1>2, SlotsFacts DEF Owners
  <1>4. /\ UNCHANGED <<pc, parent, children, is_cancelled>>
        /\ handle' = [handle EXCEPT ![j] = NoFiber]
    BY <1>2, <1>3 DEF Release, Completed
  <1>5. RuntimeInv'
    <2>1. RuntimeInv
      BY <1>1, <1>2, NotEarly DEF Busy
    <2>2. StackInv'
      BY <1>1, JoinStep
    <2> QED
      BY <2>1, <2>2, JoinKeeps
  <1>6. \A s \in Slots : Busy(s)' <=> Busy(s)
    BY <1>2, <1>4 DEF Busy
  <1>7. Owners'
    <2>1. \A k \in Slots : handle'[k] = NoFiber
      BY <1>1, <1>3, <1>4 DEF StackInv, TypeOK
    <2> QED
      BY <2>1 DEF Owners
  <1>8. /\ stage'[i] = b /\ b \in Stages /\ \A s \in Slots \ {i} : stage'[s] = stage[s]
        /\ b \notin ReaderStages \cup DropStages \cup {"setup", "drop_reader", "respond", "responded"}
        /\ b \in LoopStages => a = "drop_reader"
        /\ b \notin HandlerStages => a \notin HandlerStages
        /\ b = "loop" => a \in LoopStages
        /\ Busy(i)
    BY <1>1, <1>2 DEF Stages, ReaderStages, DropStages, LoopStages, HandlerStages, Busy
  <1>9. Role(i)'
    BY <1>1, <1>2, <1>4, <1>6, <1>8 DEF Role, LoopStages
  <1>10. Buffer(i)'
    BY <1>1, <1>8 DEF Buffer, HasRequest, LoopStages
  <1>11. Cell(i)'
    BY <1>1, <1>2, <1>4, <1>6 DEF Cell
  <1>12. ASSUME NEW s \in Slots \ {i} PROVE Role(s)' /\ Buffer(s)' /\ Cell(s)'
    <2>1. SameConnection(s) /\ (Scheduled(s)' <=> Scheduled(s))
      BY <1>2 DEF SameConnection, Scheduled
    <2> QED
      BY <1>1, <1>4, <1>6, <1>8, <2>1, SlotFrame
  <1>13. stage' \in [Slots -> Stages]
    BY <1>1, <1>8
  <1> QED
    BY <1>1, <1>5, <1>7, <1>9, <1>10, <1>11, <1>12, <1>13, FromRuntime DEF HttpInv

-----------------------------------------------------------------------------
(* The stop, and the waits of the handler. *)

\* Everything is cancelled.
LEMMA StopHttp == ASSUME HttpInv, NEW i \in Slots, Stop(i) PROVE HttpInv'
  <1>1. /\ stage \in [Slots -> Stages] /\ conn \in [Slots -> Connections]
        /\ Owners /\ StackInv /\ TypeOK
        /\ \A s \in Slots : Role(s) /\ Buffer(s) /\ Cell(s)
        /\ stage[i] = "propagate" /\ stage' = [stage EXCEPT ![i] = "end"] /\ conn' = conn
    BY DEF HttpInv, StateInv, StackInv, Stop, Step
  <1>2. /\ mode = "run" /\ running_fiber = i /\ pc[i] = "User" /\ At(i, "User") /\ CancelTree(Root, i)
        /\ UNCHANGED <<mode, pc, parent, children, handle, running_fiber>>
        /\ is_cancelled' = is_cancelled \cup Subtree(Root)
    BY DEF Stop, CancelPropagating, CancelTree, At
  <1>3. RuntimeInv /\ Live(Root)
    <2>1. RuntimeInv
      BY <1>1, <1>2, NotEarly DEF Busy
    <2> QED
      BY <1>2, <2>1 DEF RuntimeInv, StateInv, Phases, Active, Live
  <1>4. RuntimeInv'
    <2>1. StackInv'
      BY <1>1, <1>2, CancelStep
    <2> QED
      BY <1>2, <1>3, <2>1, SlotsFacts, CancelKeeps
  <1>5. Ready \subseteq Ready' /\ Ready' \subseteq Ready \cup is_cancelled'
    <2>1. PICK w \in InVisitOrder(Woken(Root, i)) : ready_fibers' = ready_fibers \o w
      BY <1>2 DEF CancelTree
    <2>2. /\ Woken(Root, i) \subseteq Slots /\ Woken(Root, i) \cap Ready = {}
          /\ Woken(Root, i) \subseteq Subtree(Root)
      BY <1>3, SlotsFacts, CancelVisit
    <2>3. ready_fibers \in Seq(Slots)
      BY <1>1 DEF TypeOK
    <2>4. ToSet(ready_fibers \o w) = ToSet(ready_fibers) \cup Woken(Root, i)
      BY <2>2, <2>3, VisitOrderSet DEF Ready
    <2> QED
      BY <1>2, <2>1, <2>2, <2>4 DEF Ready
  <1>6. \A s \in Slots : Busy(s)' <=> Busy(s)
    BY <1>2 DEF Busy
  <1>7. Owners'
    <2>1. \A j \in Slots : handle[j] = NoFiber
      BY <1>1, <1>2, NoHandles DEF Busy, DropStages
    <2> QED
      BY <1>2, <2>1 DEF Owners
  <1>8. stage'[i] = "end" /\ "end" \in Stages /\ \A s \in Slots \ {i} : stage'[s] = stage[s]
    BY <1>1 DEF Stages
  <1>9. Role(i)' /\ Buffer(i)' /\ Cell(i)'
    <2>1. Role(i)'
      BY <1>1, <1>2, <1>8 DEF Role, HandlerStages, LoopStages, ReaderStages, DropStages
    <2>2. Buffer(i)'
      BY <1>1, <1>8 DEF Buffer
    <2>3. Cell(i)'
      BY <1>1, <1>2, <1>6 DEF Cell
    <2> QED
      BY <2>1, <2>2, <2>3
  <1>10. ASSUME NEW s \in Slots \ {i} PROVE Role(s)' /\ Buffer(s)' /\ Cell(s)'
    <2>1. SameConnection(s)
      BY <1>1 DEF SameConnection
    <2>2. (Scheduled(s) => Scheduled(s)') /\ (Scheduled(s)' => Scheduled(s) \/ s \in is_cancelled')
      BY <1>2, <1>5 DEF Scheduled, Ready
    <2> QED
      BY <1>1, <1>2, <1>6, <1>8, <2>1, <2>2, SlotFrame
  <1>11. stage' \in [Slots -> Stages]
    BY <1>1, <1>8
  <1> QED
    BY <1>1, <1>4, <1>7, <1>9, <1>10, <1>11, FromRuntime DEF HttpInv

\* The handler parks until the reader wakes it, or goes on after that.
LEMMA LoopHttp == ASSUME HttpInv, NEW i \in Slots, Wait(i) \/ Parse(i) PROVE HttpInv'
  <1>1. /\ stage \in [Slots -> Stages] /\ conn \in [Slots -> Connections]
        /\ Owners /\ StackInv /\ TypeOK
        /\ \A s \in Slots : Role(s) /\ Buffer(s) /\ Cell(s)
    BY DEF HttpInv, StateInv, StackInv
  <1>2. CASE i \in is_cancelled /\ Step(i, "loop", "end") /\ At(i, "User") /\ UNCHANGED <<vars, conn>>
    BY <1>2, LocalMove
  <1>3. ASSUME NEW l \in {"User", "Parked"}, NEW b, stage[i] = "loop", mode = "run",
               running_fiber = i, pc[i] \in {"User", "Parked"}, pc' = [pc EXCEPT ![i] = l],
               stage'[i] = b, \A s \in Slots \ {i} : stage'[s] = stage[s] /\ conn'[s] = conn[s],
               stage' \in [Slots -> Stages], conn' \in [Slots -> Connections],
               running_fiber' \in {i, NoFiber}, running_fiber' = i <=> l = "User",
               UNCHANGED <<interfaceVars, mode, parent, children, join_handle, is_cancelled,
                           syscall_result, result_is_error, target, handle, ready_fibers, stackVars>>,
               b \in {"loop", "respond", "end", "panic"}, l = "Parked" => b = "loop",
               conn'[i].open /\ conn'[i].len = conn[i].len /\ conn'[i].room = conn[i].room,
               conn'[i].wire = conn[i].wire /\ conn'[i].body = conn[i].body,
               b = "respond" => HasRequest(i), b = "loop" => ~HasRequest(i),
               IF l = "Parked" THEN conn'[i].cell = i
               ELSE conn'[i].cell = conn[i].cell /\ pc[i] = "Parked"
        PROVE  HttpInv'
    <2>1. RuntimeInv
      BY <1>3, NotEarly DEF Busy
    <2>2. i \notin Ready /\ Ready' = Ready /\ IsInjective(ready_fibers')
      BY <1>3, <2>1 DEF RuntimeInv, Queue, Ready
    <2>3. RuntimeInv'
      <3>1. ready_fibers' \in Seq(Slots) /\ running_fiber' \in Slots \cup {NoFiber}
        BY <1>1, <1>3 DEF TypeOK
      <3>2. StackInv'
        BY <1>1, <1>3, <3>1, ClosureStackInv
      <3> QED
        BY <1>3, <2>1, <2>2, <3>2, ClosureKeeps
    <2>4. pc'[i] = l /\ \A s \in Slots \ {i} : pc'[s] = pc[s]
      BY <1>1, <1>3 DEF TypeOK
    <2>5. Owners'
      <3>1. \A j \in Slots : handle[j] = NoFiber
        BY <1>1, <1>3, NoHandles DEF Busy, DropStages
      <3> QED
        BY <1>3, <3>1 DEF Owners
    <2>6. l = "User" => Busy(i)'
      BY <1>3, <2>4 DEF Busy
    <2>7. Role(i)'
      <3>1. conn[i].open
        BY <1>1, <1>3 DEF Role, LoopStages
      <3> QED
        BY <1>1, <1>3, <2>4, <2>6, <3>1
        DEF Role, HandlerStages, LoopStages, ReaderStages, DropStages
    <2>8. HasRequest(i)' <=> HasRequest(i)
      BY <1>3 DEF HasRequest
    <2>9. Buffer(i)'
      BY <1>1, <1>3, <2>8 DEF Buffer
    <2>10. Cell(i)'
      <3>1. CASE l = "Parked"
        <4>1. ~Scheduled(i)' /\ ~HasRequest(i)' /\ i # NoFiber
          BY <1>3, <2>2, <2>8, <3>1, SlotsFacts DEF Scheduled, Ready
        <4> QED
          BY <1>3, <2>4, <3>1, <4>1 DEF Cell
      <3>2. CASE l = "User"
        <4>1. conn[i].cell # NoFiber => conn[i].cell = i /\ i \in is_cancelled
          BY <1>1, <1>3, <3>2 DEF Cell, Scheduled
        <4> QED
          BY <1>3, <2>4, <2>6, <3>2, <4>1 DEF Cell
      <3> QED
        BY <3>1, <3>2
    <2>11. ASSUME NEW s \in Slots \ {i} PROVE Role(s)' /\ Buffer(s)' /\ Cell(s)'
      <3>1. ~Busy(s) /\ (Scheduled(s)' <=> Scheduled(s))
        BY <1>3, SlotsFacts DEF Busy, Scheduled
      <3>2. SameConnection(s)
        BY <1>3 DEF SameConnection
      <3>3. \A h \in Slots : conn[h].open => conn'[h].open
        BY <1>3
      <3> QED
        BY <1>1, <1>3, <2>4, <3>1, <3>2, <3>3, SlotFrame
    <2> QED
      BY <1>3, <2>3, <2>5, <2>7, <2>9, <2>10, <2>11, FromRuntime DEF HttpInv
  <1>4. CASE /\ Wait(i) /\ i \notin is_cancelled /\ conn' = [conn EXCEPT ![i].cell = i]
             /\ Park(i, "Parked")
             /\ UNCHANGED <<interfaceVars, mode, parent, children, join_handle, is_cancelled,
                            syscall_result, result_is_error, target, handle, ready_fibers,
                            stackVars, stage>>
    <2>1. /\ stage[i] = "loop" /\ mode = "run" /\ running_fiber = i /\ pc[i] = "User"
          /\ pc' = [pc EXCEPT ![i] = "Parked"] /\ running_fiber' = NoFiber /\ NoFiber # i
      BY <1>4, SlotsFacts DEF Wait, At, Park
    <2>2. conn[i] \in Connections /\ conn[i].open /\ ~HasRequest(i)
      BY <1>1, <2>1 DEF Role, Buffer, LoopStages
    <2>3. conn'[i] = [conn[i] EXCEPT !.cell = i] /\ \A s \in Slots \ {i} : conn'[s] = conn[s]
      BY <1>1, <1>4
    <2>4. [conn[i] EXCEPT !.cell = i] \in Connections
      BY <2>2 DEF Connections
    <2>5. /\ conn'[i].open = conn[i].open /\ conn'[i].cell = i
          /\ conn'[i].len = conn[i].len /\ conn'[i].wire = conn[i].wire
          /\ conn'[i].body = conn[i].body /\ conn'[i].room = conn[i].room
      <3>1. conn[i] \in Connections /\ conn'[i] = [conn[i] EXCEPT !.cell = i]
        BY <2>2, <2>3, Zenon
      <3> QED
        BY <3>1, CellIsSet
    <2>6. conn' \in [Slots -> Connections] /\ stage' \in [Slots -> Stages]
      BY <1>1, <1>4, <2>3, <2>4
    <2>7. stage' = stage /\ stage'[i] = "loop"
      BY <1>4, <2>1
    <2> QED
      BY <1>3, <1>4, <2>1, <2>2, <2>3, <2>5, <2>6, <2>7
  <1>5. CASE Parse(i)
    <2>1. /\ mode = "run" /\ running_fiber = i /\ pc[i] = "Parked" /\ conn' = conn
          /\ pc' = [pc EXCEPT ![i] = "User"] /\ running_fiber' = i /\ ready_fibers' = ready_fibers
      BY <1>5 DEF Parse, At, schedVars
    <2>2. PICK b \in {"loop", "respond", "end", "panic"} :
              /\ stage[i] = "loop" /\ stage' = [stage EXCEPT ![i] = b]
              /\ (b = "respond" => HasRequest(i)) /\ (b = "loop" => ~HasRequest(i))
      BY <1>5 DEF Parse, Step
    <2>3. /\ stage'[i] = b /\ stage' \in [Slots -> Stages]
          /\ \A s \in Slots \ {i} : stage'[s] = stage[s]
      BY <1>1, <2>2 DEF Stages
    <2>4. conn[i].open
      BY <1>1, <2>2 DEF Role, LoopStages
    <2>5. UNCHANGED <<interfaceVars, mode, parent, children, join_handle, is_cancelled,
                      syscall_result, result_is_error, target, handle, stackVars>>
      BY <1>5 DEF Parse
    <2> QED
      BY <1>1, <1>3, <2>1, <2>2, <2>3, <2>4, <2>5
  <1> QED
    BY <1>2, <1>4, <1>5 DEF Wait

-----------------------------------------------------------------------------
(* Bytes for the handler. *)

\* The bytes that a reader commits make its handler runnable, if it waits for
\* them, and possibly one that waits for the reader's end.
LEMMA BytesHttp ==
    ASSUME HttpInv, NEW i \in Slots, Busy(i), stage[i] = "got", NEW h \in Slots, parent[i] = h,
           NEW n \in 1 .. MaxBytes, n <= conn[h].left, n <= conn[h].room,
           Committed(h, n), Wake(h), Step(i, "got", "read"),
           UNCHANGED <<interfaceVars, mode, fiberVars, running_fiber, stackVars>>
    PROVE  HttpInv'
  <1>1. /\ stage \in [Slots -> Stages] /\ conn \in [Slots -> Connections]
        /\ Owners /\ StateInv /\ StackInv /\ TypeOK /\ Hierarchy
        /\ \A s \in Slots : Role(s) /\ Buffer(s) /\ Cell(s)
        /\ stage' = [stage EXCEPT ![i] = "read"]
        /\ mode = "run" /\ running_fiber = i /\ pc[i] = "User"
    BY DEF HttpInv, StateInv, StackInv, Step, Busy
  <1>2. UNCHANGED <<pc, parent, children, join_handle, is_cancelled, syscall_result,
                    result_is_error, target, handle, mode, running_fiber, interfaceVars, stackVars>>
    BY DEF fiberVars
  <1>3. RuntimeInv
    BY <1>1, NotEarly DEF Busy
  <1>4. /\ i # Root /\ children[i] = {} /\ ~conn[i].open /\ conn[h].open
        /\ i \in children[h] /\ Active(h) /\ h # i
    <2>1. i # Root /\ children[i] = {} /\ ~conn[i].open /\ conn[h].open
      BY <1>1 DEF Role, ReaderStages, HandlerStages, LoopStages
    <2> QED
      BY <1>1, <2>1 DEF Hierarchy, Active
  <1>5. children[h] = {i}
    BY <1>1, <1>4 DEF Role
  <1>6. /\ stage'[i] = "read" /\ \A s \in Slots \ {i} : stage'[s] = stage[s]
        /\ stage' \in [Slots -> Stages]
    BY <1>1 DEF Stages
  <1>7. /\ conn' \in [Slots -> Connections] /\ \A s \in Slots \ {h} : conn'[s] = conn[s]
        /\ conn'[h].open /\ conn'[h].cell = NoFiber /\ conn'[h].len = conn[h].len + n
        /\ conn'[h].room = 0 /\ conn'[h].wire = conn[h].wire /\ conn'[h].body = conn[h].body
        /\ conn'[h].len <= Capacity /\ conn[h].len \in Nat
    <2> DEFINE a == conn[h].len + n
               b == conn[h].left - n
               new == [conn[h] EXCEPT !.len = a, !.left = b, !.room = 0, !.cell = NoFiber]
    <2>1. /\ a \in 0 .. Capacity /\ b \in 0 .. MaxBytes /\ conn[h] \in Connections
          /\ conn[h].len \in Nat
      BY <1>1, ConnTypes, CapacityAssumption, MaxBytesAssumption DEF Buffer
    <2>2. conn' = [conn EXCEPT ![h] = new]
      BY DEF Committed
    <2>3. a = conn[h].len + n
      OBVIOUS
    <2> HIDE DEF a, b
    <2>4. 0 \in 0 .. Capacity
      BY CapacityAssumption
    <2>5. new \in Connections
      BY <2>1, <2>4 DEF Connections
    <2>6. /\ new.len = a /\ new.room = 0 /\ new.cell = NoFiber
          /\ new.open = conn[h].open /\ new.wire = conn[h].wire /\ new.body = conn[h].body
      BY <2>1 DEF Connections
    <2> HIDE DEF new
    <2>7. conn'[h] = new /\ conn' \in [Slots -> Connections] /\ \A s \in Slots \ {h} : conn'[s] = conn[s]
      BY <1>1, <2>2, <2>5
    <2>8. a <= Capacity
      BY <2>1, CapacityAssumption
    <2> QED
      BY <1>4, <2>1, <2>3, <2>6, <2>7, <2>8
  <1>8. /\ ready_fibers' \in Seq(Slots) /\ Ready \subseteq Ready' /\ Ready' \subseteq Ready \cup {h}
        /\ IsInjective(ready_fibers') /\ (conn[h].cell # NoFiber => h \in Ready')
        /\ conn[h].cell = NoFiber => Ready' = Ready
    <2>1. ready_fibers \in Seq(Slots) /\ IsInjective(ready_fibers)
      BY <1>1, <1>3 DEF TypeOK, RuntimeInv, Queue
    <2>2. CASE conn[h].cell = NoFiber
      BY <2>1, <2>2 DEF Wake, Ready
    <2>3. CASE conn[h].cell # NoFiber
      <3>1. ready_fibers' = Schedule(ready_fibers, h)
        BY <1>1, <2>3 DEF Wake, Cell
      <3> QED
        BY <2>1, <2>3, <3>1, ScheduleSet, ScheduleType DEF Ready
    <2> QED
      BY <2>2, <2>3
  <1>9. StateInv' /\ \A s \in Slots : Justified(s) => Justified(s)'
    <2>1. pc' = [pc EXCEPT ![i] = "User"] /\ running_fiber' \in Slots \cup {NoFiber}
      BY <1>1, <1>2 DEF TypeOK
    <2>2. StackInv'
      BY <1>1, <1>2, <1>8, <2>1, ClosureStackInv
    <2> QED
      BY <1>1, <1>2, <1>8, <2>1, <2>2, ClosureState
  <1>10. HttpQueue'
    <2>1. Justified(h)' \/ Early(h)' \/ conn[h].cell = NoFiber
      <3>1. CASE pc[h] = "Parked"
        BY <1>2, <3>1 DEF Justified, Active
      <3>2. CASE pc[h] = "Children" /\ children[h] \subseteq is_cancelled
        BY <1>1, <1>2, <1>4, <1>5, <1>6, <3>2 DEF Early, Busy
      <3>3. ~Busy(h) /\ pc[h] # "Done"
        BY <1>1, <1>4 DEF Busy, Active
      <3> QED
        BY <1>1, <3>1, <3>2, <3>3 DEF Cell
    <2>2. Queue /\ Ready \subseteq Slots
      BY <1>1, <1>3, ReadySlots DEF RuntimeInv
    <2> QED
      BY <1>1, <1>2, <1>4, <1>8, <1>9, <2>1, <2>2 DEF HttpQueue, Queue
  <1>11. Owners'
    <2>1. \A j \in Slots : handle[j] = NoFiber
      BY <1>1, NoHandles DEF Busy, DropStages
    <2> QED
      BY <1>2, <2>1 DEF Owners
  <1>12. Role(i)' /\ Buffer(i)' /\ Cell(i)'
    <2>1. conn'[i] = conn[i] /\ pc'[i] = "User"
      BY <1>1, <1>2, <1>4, <1>7
    <2>2. Role(i)'
      BY <1>1, <1>2, <1>4, <1>6, <1>7, <2>1
      DEF Role, ReaderStages, HandlerStages, LoopStages, DropStages
    <2>3. Buffer(i)'
      BY <1>1, <1>6, <2>1 DEF Buffer
    <2>4. Cell(i)'
      BY <1>1, <1>4, <2>1 DEF Cell
    <2> QED
      BY <2>2, <2>3, <2>4
  <1>13. Role(h)' /\ Buffer(h)' /\ Cell(h)'
    <2>1. /\ stage'[h] = stage[h] /\ pc'[h] = pc[h] /\ children'[h] = {i} /\ parent'[h] = parent[h]
          /\ ~Busy(h) /\ ~Busy(h)' /\ pc[h] # "Vacant"
      BY <1>1, <1>2, <1>4, <1>5, <1>6 DEF Busy, Active
    <2>2. stage[h] \in HandlerStages /\ stage[h] # "setup" /\ stage[h] \notin DropStages
      BY <1>1, <1>4, <1>5, <2>1 DEF Role
    <2>3. Role(h)'
      BY <1>1, <1>4, <1>5, <1>7, <2>1, <2>2
      DEF Role, ReaderStages, HandlerStages, LoopStages, DropStages
    <2>4. Buffer(h)'
      <3>1. stage[h] = "loop" => pc[h] # "User"
        BY <1>1, <2>1 DEF Role
      <3>2. HasRequest(h) => HasRequest(h)'
        BY <1>1, <1>7, ConnTypes DEF HasRequest
      <3>3. conn'[h].len + conn'[h].room <= Capacity
        BY <1>7, CapacityAssumption
      <3> QED
        BY <1>1, <2>1, <2>2, <3>1, <3>2, <3>3 DEF Buffer, DropStages
    <2>5. Cell(h)'
      BY <1>1, <1>2, <1>7, <1>8, <2>1 DEF Cell, Scheduled, Ready
    <2> QED
      BY <2>3, <2>4, <2>5
  <1>14. ASSUME NEW s \in Slots \ {i, h} PROVE Role(s)' /\ Buffer(s)' /\ Cell(s)'
    <2>1. ~Busy(s) /\ (Scheduled(s)' <=> Scheduled(s))
      BY <1>1, <1>2, <1>8 DEF Busy, Scheduled, Ready
    <2>2. SameConnection(s)
      BY <1>7 DEF SameConnection
    <2>3. \A p \in Slots : conn[p].open => conn'[p].open
      BY <1>7
    <2> QED
      BY <1>1, <1>2, <1>6, <2>1, <2>2, <2>3, SlotFrame
  <1> QED
    BY <1>6, <1>7, <1>9, <1>10, <1>11, <1>12, <1>13, <1>14 DEF HttpInv

\* What the read returned.
LEMMA GotHttp == ASSUME HttpInv, NEW i \in Slots, Got(i) PROVE HttpInv'
  <1>1. /\ Role(i) /\ stage[i] = "got" /\ Busy(i) /\ At(i, "User")
        /\ UNCHANGED <<interfaceVars, mode, fiberVars, running_fiber, stackVars>>
    BY DEF HttpInv, Got, At, Busy
  <1>2. PICK h \in Slots : parent[i] = h /\ conn[h].open
    BY <1>1 DEF Role, ReaderStages
  <1>3. ASSUME NEW n \in 1 .. MaxBytes, n <= conn[h].left, n <= conn[h].room,
               Committed(h, n), Wake(h), Step(i, "got", "read")
        PROVE  HttpInv'
    BY <1>1, <1>2, <1>3, BytesHttp
  <1>4. CASE Step(i, "got", "end") /\ UNCHANGED <<conn, ready_fibers>>
    <2>1. UNCHANGED <<vars, conn>>
      BY <1>1, <1>4 DEF vars, schedVars
    <2> QED
      BY <1>1, <1>4, <2>1, LocalMove
  <1> QED
    BY <1>2, <1>3, <1>4 DEF Got

-----------------------------------------------------------------------------
(* The end of a function. *)

\* Fiber i, which owns no handle, has run to the end of its function: it waits for
\* its children, or is completed, or gone.
LEMMA EndHttp ==
    ASSUME HttpInv, NEW i \in Slots, running_fiber = i, Forget, RuntimeInv',
           \A j \in Slots : handle[j] = NoFiber, handle' = handle,
           stage[i] \notin DropStages \cup ReaderStages \cup {"loop"},
           pc[i] # "Vacant", pc'[i] \in {"Children", "Done", "Vacant"},
           \A s \in Slots \ {i} : pc'[s] = pc[s] /\ parent'[s] = parent[s],
           \A s \in Slots : children'[s] \subseteq children[s],
           pc'[i] # "Children" => children[i] = {},
           pc'[i] = "Children" /\ conn[i].cell # NoFiber => children'[i] \subseteq is_cancelled',
           \A s \in Slots \ {i} : s \in is_cancelled => s \in is_cancelled',
           pc'[i] = "Vacant" => \A s \in Slots : i \notin children'[s],
           pc'[i] # "Vacant" => i \in is_cancelled',
           \A s \in Slots \ {i} : pc[s] = "Parked" =>
               /\ Scheduled(s) => Scheduled(s)'
               /\ Scheduled(s)' => Scheduled(s) \/ s \in is_cancelled'
    PROVE  HttpInv'
  <1>1. /\ stage \in [Slots -> Stages] /\ conn \in [Slots -> Connections]
        /\ Hierarchy /\ TypeOK
        /\ \A s \in Slots : Role(s) /\ Buffer(s) /\ Cell(s)
    BY DEF HttpInv, StateInv, StackInv
  <1>2. /\ stage' \in [Slots -> Stages] /\ conn' \in [Slots -> Connections]
        /\ pc'[i] = "Vacant" => stage'[i] = "end" /\ conn'[i] = NoConnection
        /\ pc'[i] # "Vacant" => stage'[i] = stage[i] /\ conn'[i] = conn[i]
        /\ \A s \in Slots \ {i} : stage'[s] = stage[s] /\ conn'[s] = conn[s]
    BY <1>1, ForgetFacts DEF Live
  <1>3. Owners'
    BY DEF Owners
  <1>4. Role(i)' /\ Buffer(i)' /\ Cell(i)'
    <2>1. CASE pc'[i] = "Vacant"
      <3>1. "end" \notin DropStages \cup ReaderStages \cup LoopStages
        BY DEF DropStages, ReaderStages, LoopStages
      <3>2. Role(i)'
        BY <1>2, <2>1, <3>1, NoConnectionType DEF Role, LoopStages
      <3>3. Buffer(i)' /\ Cell(i)'
        BY <1>2, <2>1, NoConnectionType, CapacityAssumption DEF Buffer, Cell
      <3> QED
        BY <3>2, <3>3
    <2>2. CASE pc'[i] # "Vacant"
      <3>1. Role(i)'
        BY <1>1, <1>2, <2>2 DEF Role
      <3>2. Buffer(i)'
        BY <1>1, <1>2, <2>2 DEF Buffer, HasRequest
      <3>3. Cell(i)'
        BY <1>1, <1>2, <2>2 DEF Cell
      <3> QED
        BY <3>1, <3>2, <3>3
    <2> QED
      BY <2>1, <2>2
  <1>5. ASSUME NEW s \in Slots \ {i} PROVE Role(s)' /\ Buffer(s)' /\ Cell(s)'
    <2>1. ~Busy(s) /\ SameConnection(s)
      BY <1>2 DEF Busy, SameConnection
    <2>2. ASSUME NEW h \in Slots, stage[s] \in ReaderStages, parent[s] = h, conn[h].open
          PROVE  conn'[h].open
      <3>1. s \in children[h]
        BY <1>1, <2>2 DEF Role, Hierarchy, Active
      <3>2. h = i => pc'[i] = "Children"
        BY <3>1
      <3> QED
        BY <1>2, <2>2, <3>2
    <2>3. \A c \in children'[s] : c \in is_cancelled => c \in is_cancelled'
      BY <1>1 DEF TypeOK
    <2> QED
      BY <1>1, <1>2, <2>1, <2>2, <2>3, SlotFrame
  <1> QED
    BY <1>2, <1>3, <1>4, <1>5, FromRuntime DEF HttpInv

\* A fiber without children is completed, or gone.
LEMMA RetireHttp ==
    ASSUME HttpInv, NEW i \in Slots \ {Root}, running_fiber = i, Forget, RuntimeInv',
           \A j \in Slots : handle[j] = NoFiber,
           stage[i] \notin DropStages \cup ReaderStages \cup {"loop"},
           pc[i] \in {"User", "Children"}, children[i] = {}, NEW panicked, Retire(i, panicked)
    PROVE  HttpInv'
  <1>1. StateInv /\ TypeOK /\ Joins /\ ready_fibers \in Seq(Slots) /\ is_cancelled \in SUBSET Slots
        /\ Hierarchy
    BY DEF HttpInv, StateInv, StackInv, TypeOK
  <1>2. ASSUME NEW q \in Seq(Slots), NEW C \in SUBSET Slots, Leave(i, q, C),
               is_cancelled \cup {i} \subseteq C, Ready \subseteq ToSet(q),
               ToSet(q) \subseteq Ready \cup C
        PROVE  HttpInv'
    <2>1. PICK p \in Slots \ {i} :
             /\ parent[i] = p /\ i \in children[p] /\ Active(p)
             /\ UNCHANGED <<interfaceVars, mode, target, handle, syscall_result>>
             /\ running_fiber' = NoFiber
             /\ \/ ready_fibers' = q
                \/ ready_fibers' = Schedule(q, p) /\ Completed(p) /\ children'[p] = {}
             /\ \A s \in Slots \ {i} : /\ pc'[s] = pc[s] /\ parent'[s] = parent[s]
                                       /\ join_handle'[s] = join_handle[s]
             /\ \A s \in Slots : children'[s] = IF s = p THEN children[s] \ {i} ELSE children[s]
             /\ \/ /\ join_handle[i] = Dropped /\ pc'[i] = "Vacant"
                   /\ parent' = [parent EXCEPT ![i] = NoFiber] /\ parent'[i] = NoFiber
                   /\ join_handle'[i] = Unused /\ is_cancelled' = C \ {i}
                \/ /\ join_handle[i] # Dropped /\ pc'[i] = "Done" /\ parent' = parent
                   /\ join_handle'[i] = IF join_handle[i] \in Slots THEN WaitingNone
                                        ELSE join_handle[i]
                   /\ is_cancelled' = C
      BY <1>1, <1>2, LeaveFacts
    <2>2. \A s \in Slots : i \notin children'[s]
      <3>1. \A s \in Slots : i \in children[s] => s = p
        BY <1>1, <2>1 DEF Hierarchy
      <3> QED
        BY <2>1, <3>1
    <2>3. \A s \in Slots \ {i} : pc[s] = "Parked" =>
              /\ Scheduled(s) => Scheduled(s)'
              /\ Scheduled(s)' => Scheduled(s) \/ s \in is_cancelled'
      <3>1. /\ ToSet(q) \subseteq Ready' /\ Ready' \subseteq ToSet(q) \cup {p}
            /\ p \in ToSet(q) \/ p \notin Ready' \/ Completed(p)
        <4>1. CASE ready_fibers' = q
          BY <4>1 DEF Ready
        <4>2. CASE ready_fibers' = Schedule(q, p) /\ Completed(p)
          BY <4>2, ScheduleSet DEF Ready
        <4> QED
          BY <2>1, <4>1, <4>2
      <3>2. running_fiber' \notin Slots
        BY <2>1, SlotsFacts
      <3> QED
        BY <1>2, <2>1, <3>1, <3>2 DEF Scheduled, Ready, Completed
    <2> QED
      BY <1>2, <2>1, <2>2, <2>3, EndHttp
  <1>3. join_handle[i] \notin Slots
    <2>1. handle[i] \notin Slots
      BY SlotsFacts
    <2> QED
      BY <1>1, <2>1, JoinOwner
  <1>4. ASSUME NEW w \in InVisitOrder(Woken(Root, i)),
               Leave(i, ready_fibers \o w, is_cancelled \cup {i} \cup Subtree(Root))
        PROVE  HttpInv'
    <2>1. /\ Woken(Root, i) \in SUBSET Slots /\ Woken(Root, i) \subseteq Subtree(Root)
          /\ Woken(Root, i) \cap Ready = {} /\ Subtree(Root) \in SUBSET Slots
      BY SubtreeType DEF Woken, Ready
    <2>2. ToSet(ready_fibers \o w) = Ready \cup Woken(Root, i)
      BY <1>1, <2>1, VisitOrderSet DEF Ready
    <2>3. w \in Seq(Slots)
      BY <2>1, VisitOrderType
    <2> DEFINE q == ready_fibers \o w
               C == is_cancelled \cup {i} \cup Subtree(Root)
    <2>4. q \in Seq(Slots) /\ Ready \subseteq ToSet(q) /\ ToSet(q) \subseteq Ready \cup C
      BY <1>1, <2>1, <2>2, <2>3
    <2>5. C \in SUBSET Slots /\ is_cancelled \cup {i} \subseteq C /\ Leave(i, q, C)
      BY <1>1, <1>4, <2>1
    <2> HIDE DEF q, C
    <2> QED
      BY <1>2, <2>4, <2>5
  <1>5. CASE Leave(i, ready_fibers, is_cancelled \cup {i})
    BY <1>1, <1>2, <1>5 DEF Ready
  <1> QED
    BY <1>3, <1>4, <1>5 DEF Retire

\* The root's function is over and so are all others.
LEMMA ReturnHttp ==
    ASSUME HttpInv, running_fiber = Root, Forget, RuntimeInv', ReturnFromStart,
           \A j \in Slots : handle[j] = NoFiber,
           stage[Root] \notin DropStages \cup ReaderStages \cup {"loop"},
           pc[Root] # "Vacant", children[Root] = {}
    PROVE  HttpInv'
  <1>1. /\ pc' = [pc EXCEPT ![Root] = "Done"] /\ is_cancelled' = is_cancelled \cup {Root}
        /\ UNCHANGED <<parent, children, handle, ready_fibers, running_fiber>>
        /\ TypeOK
    BY DEF ReturnFromStart, schedVars, HttpInv, StateInv, StackInv
  <1>2. pc'[Root] = "Done" /\ \A s \in Slots \ {Root} : pc'[s] = pc[s]
    BY <1>1, SlotsFacts DEF TypeOK
  <1>3. \A s \in Slots : Scheduled(s)' <=> Scheduled(s)
    BY <1>1 DEF Scheduled
  <1> QED
    BY <1>1, <1>2, <1>3, SlotsFacts, EndHttp

\* A function returns or panics.
LEMMA FinishHttp == ASSUME HttpInv, NEW i \in Slots, Finish(i) PROVE HttpInv'
  <1>1. /\ StateInv /\ StackInv /\ TypeOK /\ HttpQueue /\ Owners /\ Hierarchy /\ Cancellation
        /\ CancelPropagates
        /\ \A s \in Slots : Role(s) /\ Buffer(s) /\ Cell(s)
    BY DEF HttpInv, StateInv, StackInv
  <1>2. PICK panicked \in BOOLEAN :
            Complete(i, panicked) /\ stage[i] = IF panicked THEN "panic" ELSE "end"
    BY DEF Finish
  <1>3. /\ mode = "run" /\ running_fiber = i /\ pc[i] = "User" /\ Held(i) = {} /\ Forget
        /\ Busy(i)
    BY <1>2 DEF Complete, At, Finish, Busy
  <1>4. stage[i] \notin DropStages \cup ReaderStages \cup {"loop"}
    BY <1>2 DEF DropStages, ReaderStages
  <1>5. \A j \in Slots : handle[j] = NoFiber
    BY <1>1, <1>3, <1>4, NoHandles DEF Busy
  <1>6. Complete(i, TRUE) \/ Complete(i, FALSE)
    BY <1>2
  <1>7. StackInv'
    BY <1>1, <1>6, CompleteStep
  <1>8. ASSUME stage[i] # "end" \/ children[i] # {} \/ i = Root
        PROVE  RuntimeInv'
    <2>1. RuntimeInv
      BY <1>2, <1>3, <1>8, NotEarly DEF Busy
    <2> QED
      BY <1>5, <1>6, <1>7, <2>1, CompleteKeeps
  <1>9. CASE children[i] # {}
    <2>1. /\ pc' = [pc EXCEPT ![i] = "Children"] /\ running_fiber' = NoFiber
          /\ is_cancelled' = is_cancelled \cup {i}
          /\ UNCHANGED <<parent, children, handle, ready_fibers>>
      BY <1>2, <1>9 DEF Complete, Park
    <2>2. pc'[i] = "Children" /\ \A s \in Slots \ {i} : pc'[s] = pc[s]
      BY <1>1, <2>1 DEF TypeOK
    <2>3. \A s \in Slots \ {i} : Scheduled(s)' <=> Scheduled(s)
      BY <1>3, <2>1, SlotsFacts DEF Scheduled
    <2>4. conn[i].cell # NoFiber => children'[i] \subseteq is_cancelled'
      <3>1. ASSUME conn[i].cell # NoFiber PROVE i \in is_cancelled /\ ~Completed(i)
        BY <1>1, <1>3, <3>1 DEF Cell, Completed
      <3>2. children[i] \subseteq Descendants(i)
        BY <1>1, DescendantsFacts DEF Hierarchy, TypeOK
      <3> QED
        BY <1>1, <2>1, <3>1, <3>2 DEF CancelPropagates
    <2> QED
      BY <1>3, <1>4, <1>5, <1>8, <1>9, <2>1, <2>2, <2>3, <2>4, EndHttp
  <1>10. CASE children[i] = {} /\ i = Root
    BY <1>2, <1>3, <1>4, <1>5, <1>8, <1>10, ReturnHttp DEF Complete
  <1>11. CASE children[i] = {} /\ i # Root
    <2>1. Retire(i, panicked) /\ i \in Slots \ {Root}
      BY <1>2, <1>11 DEF Complete
    <2>2. CASE panicked
      BY <1>2, <1>3, <1>4, <1>5, <1>8, <1>11, <2>1, <2>2, RetireHttp
    <2>3. CASE ~panicked
      <3> DEFINE C == is_cancelled \cup {i}
      <3>1. ready_fibers \in Seq(Slots) /\ is_cancelled \in SUBSET Slots
        BY <1>1 DEF TypeOK
      <3>2. join_handle[i] \notin Slots
        <4>1. handle[i] \notin Slots
          BY <1>5, SlotsFacts
        <4> QED
          BY <1>1, <4>1, JoinOwner DEF StateInv
      <3>3. Leave(i, ready_fibers, C)
        BY <2>1, <2>3, <3>2 DEF Retire
      <3>4. /\ IsInjective(ready_fibers) /\ i \notin ToSet(ready_fibers)
            /\ Ready \subseteq ToSet(ready_fibers)
        BY <1>1, <1>3 DEF HttpQueue, Ready
      <3>5. /\ is_cancelled \cup {i} \subseteq C /\ C \subseteq LiveSet /\ C \in SUBSET Slots
            /\ C \subseteq is_cancelled \cup {i} \cup ToSet(ready_fibers)
        BY <1>1, <1>3, <3>1 DEF Cancellation, LiveSet, Live
      <3>6. \A s \in C \ {i} : ~Completed(s) => Descendants(s) \subseteq C
        BY <1>1 DEF CancelPropagates
      <3>7. \A s \in ToSet(ready_fibers) :
               \/ Justified(s)
               \/ pc[s] = "Children" /\ children[s] = {i}
        BY <1>1, <1>3 DEF HttpQueue, Early, Busy, Ready
      <3>8. RuntimeInv'
        <4> HIDE DEF C
        <4> QED
          BY <1>1, <1>3, <1>7, <1>11, <3>1, <3>3, <3>4, <3>5, <3>6, <3>7, LeaveKeeps
      <3> QED
        BY <1>3, <1>4, <1>5, <1>11, <2>1, <3>8, RetireHttp
    <2> QED
      BY <2>2, <2>3
  <1> QED
    BY <1>9, <1>10, <1>11

-----------------------------------------------------------------------------
(* The steps of the runtime. *)

\* A step that concerns the rings and the ready queue alone.
LEMMA IoHttp ==
    ASSUME HttpInv, Forget, UNCHANGED <<pc, parent, children, handle, is_cancelled>>,
           StateInv', stage' = stage => HttpQueue', \A s \in Slots : Busy(s) => Busy(s)',
           \A s \in Slots : pc[s] = "Parked" => (Scheduled(s)' <=> Scheduled(s))
    PROVE  HttpInv'
  <1>1. /\ stage \in [Slots -> Stages] /\ conn \in [Slots -> Connections] /\ Owners
        /\ \A s \in Slots : Role(s) /\ Buffer(s) /\ Cell(s)
    BY DEF HttpInv
  <1>2. stage' = stage /\ conn' = conn
    BY <1>1, ForgetFacts
  <1>3. Owners'
    <2>1. ASSUME NEW j \in Slots, handle'[j] # NoFiber
          PROVE  \E i \in Slots : /\ handle'[j] = i /\ Busy(i)' /\ stage'[i] \in DropStages
                                  /\ pc'[j] = "User"
      BY <1>1, <1>2, <2>1 DEF Owners
    <2> QED
      BY <1>1, <2>1 DEF Owners
  <1>4. ASSUME NEW s \in Slots PROVE Role(s)' /\ Buffer(s)' /\ Cell(s)'
    <2>1. SameConnection(s)
      BY <1>2 DEF SameConnection
    <2> QED
      BY <1>1, <1>2, <2>1, SlotFrame
  <1> QED
    BY <1>1, <1>2, <1>3, <1>4 DEF HttpInv

\* process_io, for which no fiber runs.
LEMMA ProcessIoHttp == ASSUME HttpInv, ProcessIo, Forget PROVE HttpInv'
  <1>1. /\ StackInv /\ TypeOK /\ Rings /\ ready_fibers \in Seq(Slots)
        /\ cq \in Seq(Slots \cup {ASYNC_CANCELLATION_USER_DATA})
    BY DEF HttpInv, StateInv, StackInv, TypeOK, InterfaceTypeOK
  <1>2. /\ mode = "run" /\ running_fiber = NoFiber
        /\ UNCHANGED <<pc, parent, children, handle, is_cancelled>>
    BY DEF ProcessIo, ProcessCompleted, PopReady, SubmitAndWait, InProcessIo, fiberVars
  <1>3. \A s \in Slots : ~Busy(s)
    BY <1>2, SlotsFacts DEF Busy
  <1>4. RuntimeInv'
    <2>1. RuntimeInv
      BY <1>3, NotEarly
    <2>2. StackInv'
      BY <1>1, ProcessIoStep
    <2> QED
      BY <2>1, <2>2, ProcessIoKeeps
  <1>5. \A s \in Slots : pc[s] = "Parked" => (Scheduled(s)' <=> Scheduled(s))
    <2>1. CASE ProcessCompleted
      <3>1. CASE UNCHANGED ready_fibers
        BY <2>1, <3>1 DEF ProcessCompleted, Scheduled
      <3>2. CASE /\ Head(cq) # ASYNC_CANCELLATION_USER_DATA
                 /\ ready_fibers' = Schedule(ready_fibers, Head(cq))
        <4>1. cq # <<>>
          BY <2>1 DEF ProcessCompleted, ReadCompletion
        <4>2. Head(cq) \in Slots /\ Head(cq) \in ToSet(cq)
          BY <1>1, <3>2, <4>1 DEF ToSet
        <4>3. pc[Head(cq)] # "Parked"
          BY <1>1, <4>2 DEF Rings, InRings, Pending, InSyscall
        <4>4. ToSet(ready_fibers') = ToSet(ready_fibers) \cup {Head(cq)}
          BY <1>1, <3>2, <4>2, ScheduleSet
        <4> QED
          BY <2>1, <4>3, <4>4 DEF Scheduled, ProcessCompleted
      <3> QED
        BY <2>1, <3>1, <3>2 DEF ProcessCompleted
    <2>2. CASE PopReady
      <3>1. ToSet(ready_fibers) = ToSet(Tail(ready_fibers)) \cup {Head(ready_fibers)}
        BY <1>1, <2>2, TailSet DEF PopReady
      <3> QED
        BY <1>2, <2>2, <3>1, SlotsFacts DEF PopReady, Scheduled
    <2>3. CASE SubmitAndWait
      BY <2>3 DEF SubmitAndWait, Scheduled, schedVars
    <2> QED
      BY <2>1, <2>2, <2>3 DEF ProcessIo
  <1> QED
    BY <1>2, <1>3, <1>4, <1>5, FromRuntime, IoHttp

\* The kernel, at any time.
LEMMA KernelHttp == ASSUME HttpInv, NEW id \in Slots, Kernel(id), Forget PROVE HttpInv'
  <1>1. StateInv /\ StackInv /\ TypeOK /\ HttpQueue
    BY DEF HttpInv, StateInv, StackInv
  <1>2. UNCHANGED <<mode, pc, parent, children, join_handle, is_cancelled, syscall_result,
                    result_is_error, target, handle, ready_fibers, running_fiber>>
    BY DEF Kernel, fiberVars, schedVars
  <1>3. StateInv'
    <2>1. StackInv'
      BY <1>1, ProcessIoStep
    <2> QED
      BY <1>1, <2>1, KernelKeeps
  <1>4. stage' = stage => HttpQueue'
    <2>1. Ready' = Ready /\ Ready \subseteq Slots
      BY <1>1, <1>2, ReadySlots DEF Ready
    <2>2. \A s \in Slots : Justified(s)' <=> Justified(s)
      BY <1>2 DEF Justified, Active, Completed
    <2>3. ASSUME stage' = stage PROVE \A s \in Slots : Early(s)' <=> Early(s)
      BY <1>2, <2>3 DEF Early, Busy
    <2> QED
      BY <1>1, <1>2, <2>1, <2>2, <2>3 DEF HttpQueue
  <1>5. \A s \in Slots : (Busy(s) => Busy(s)') /\ (Scheduled(s)' <=> Scheduled(s))
    BY <1>2 DEF Busy, Scheduled
  <1> QED
    BY <1>2, <1>3, <1>4, <1>5, IoHttp

\* The beginning and the end of the runtime.
LEMMA StartHttp == ASSUME HttpInv, Start, Forget PROVE HttpInv'
  <1>1. /\ stage \in [Slots -> Stages] /\ conn \in [Slots -> Connections] /\ Owners
        /\ \A s \in Slots : Role(s) /\ Buffer(s) /\ Cell(s)
        /\ StackInv /\ TypeOK /\ ModeKnown
    BY DEF HttpInv, StateInv, StackInv
  <1>2. /\ mode = "idle" /\ mode' = "run" /\ pc' = [pc EXCEPT ![Root] = "User"]
        /\ running_fiber' = Root
        /\ UNCHANGED <<parent, children, is_cancelled, handle, ready_fibers>>
    BY DEF Start
  <1>3. /\ \A s \in Slots : pc[s] = "Vacant" /\ ~Busy(s)
        /\ pc'[Root] = "User" /\ \A s \in Slots \ {Root} : pc'[s] = pc[s]
    BY <1>1, <1>2, SlotsFacts DEF ModeKnown, Busy, TypeOK
  <1>4. RuntimeInv'
    <2>1. RuntimeInv
      BY <1>3, NotEarly
    <2>2. StackInv'
      BY <1>1, StartStep
    <2> QED
      BY <2>1, <2>2, StartKeeps
  <1>5. /\ stage' \in [Slots -> Stages] /\ conn' \in [Slots -> Connections]
        /\ \A s \in Slots : stage'[s] = stage[s] /\ conn'[s] = conn[s]
    BY <1>1, <1>3, ForgetFacts DEF Live
  <1>6. Owners'
    <2>1. \A j \in Slots : handle[j] = NoFiber
      BY <1>1, <1>3, NoHandles
    <2> QED
      BY <1>2, <2>1 DEF Owners
  <1>7. Role(Root)' /\ Buffer(Root)' /\ Cell(Root)'
    <2>1. stage'[Root] \in {"spawn", "end"} /\ conn'[Root] = NoConnection
      BY <1>1, <1>3, <1>5, SlotsFacts DEF Role
    <2>2. Role(Root)'
      BY <1>3, <2>1, NoConnectionType
      DEF Role, DropStages, ReaderStages, LoopStages, HandlerStages
    <2>3. Buffer(Root)'
      BY <2>1, NoConnectionType, CapacityAssumption DEF Buffer
    <2>4. Cell(Root)'
      BY <1>3, <2>1, NoConnectionType DEF Cell
    <2> QED
      BY <2>2, <2>3, <2>4
  <1>8. ASSUME NEW s \in Slots \ {Root} PROVE Role(s)' /\ Buffer(s)' /\ Cell(s)'
    <2>1. SameConnection(s)
      BY <1>5 DEF SameConnection
    <2> QED
      BY <1>1, <1>2, <1>3, <1>5, <2>1, SlotFrame
  <1> QED
    BY <1>4, <1>5, <1>6, <1>7, <1>8, FromRuntime DEF HttpInv

LEMMA DropRuntimeHttp == ASSUME HttpInv, DropRuntime, Forget PROVE HttpInv'
  <1>1. /\ mode = "exited"
        /\ UNCHANGED <<pc, parent, children, is_cancelled, handle, ready_fibers, running_fiber>>
    BY DEF DropRuntime, fiberVars, schedVars
  <1>2. \A s \in Slots : ~Busy(s) /\ (Scheduled(s)' <=> Scheduled(s))
    BY <1>1 DEF Busy, Scheduled
  <1>3. RuntimeInv'
    <2>1. RuntimeInv /\ StackInv
      BY <1>2, NotEarly DEF RuntimeInv, StateInv
    <2> QED
      BY <2>1, ExitStep, DropKeeps
  <1> QED
    BY <1>1, <1>2, <1>3, FromRuntime, IoHttp

\* A fiber goes on after a park of the runtime; nobody joins in the server.
LEMMA ResumeHttp == ASSUME HttpInv, NEW i \in Slots, Resume(i), Forget PROVE HttpInv'
  <1>1. /\ stage \in [Slots -> Stages] /\ conn \in [Slots -> Connections] /\ Owners
        /\ \A s \in Slots : Role(s) /\ Buffer(s) /\ Cell(s)
        /\ StackInv /\ TypeOK /\ Joins /\ pc \in [Slots -> Labels]
    BY DEF HttpInv, StateInv, StackInv, TypeOK
  <1>2. /\ mode = "run" /\ running_fiber = i /\ pc[i] \in {"Join1", "Join2", "Sys1", "Sys2", "Children"}
    BY DEF Resume, ResumeJoin1, ResumeJoin2, ResumeSys1, ResumeSys2, ResumeChildren, At
  <1>3. \A s \in Slots : ~Busy(s)
    BY <1>2 DEF Busy
  <1>4. RuntimeInv /\ \A j \in Slots : handle[j] = NoFiber
    BY <1>1, <1>3, NotEarly, NoHandles
  <1>5. ~ResumeJoin1(i) /\ ~ResumeJoin2(i)
    <2>1. ~Joining(i)
      BY <1>1, <1>4, SlotsFacts DEF Joins
    <2> QED
      BY <2>1 DEF ResumeJoin1, ResumeJoin2, At, Joining
  <1>6. stage[i] \notin DropStages \cup {"loop"}
    BY <1>1, <1>2, <1>3 DEF Role
  <1>7. CASE ResumeSys1(i) \/ ResumeSys2(i)
    <2>1. RuntimeInv'
      <3>1. StackInv'
        BY <1>1, <1>7, SyscallStep
      <3> QED
        BY <1>4, <1>7, <3>1, ResumeSyscallKeeps
    <2>2. /\ UNCHANGED <<mode, parent, children, is_cancelled, handle, ready_fibers>>
          /\ running_fiber' \in {i, NoFiber} /\ pc[i] \in {"Sys1", "Sys2"}
          /\ \E l \in {"User", "Sys2"} : pc' = [pc EXCEPT ![i] = l]
      BY <1>2, <1>7 DEF ResumeSys1, ResumeSys2, ReadSyscallResult, Park, At
    <2>3. pc'[i] \in {"User", "Sys2"} /\ \A s \in Slots \ {i} : pc'[s] = pc[s]
      BY <1>1, <2>2
    <2>4. /\ stage' \in [Slots -> Stages] /\ conn' \in [Slots -> Connections]
          /\ \A s \in Slots : stage'[s] = stage[s] /\ conn'[s] = conn[s]
      BY <1>1, <2>3, ForgetFacts DEF Live
    <2>5. Owners'
      BY <1>4, <2>2 DEF Owners
    <2>6. Role(i)' /\ Buffer(i)' /\ Cell(i)'
      <3>1. conn[i].cell = NoFiber
        BY <1>1, <1>3, <2>2 DEF Cell
      <3>2. Role(i)'
        BY <1>1, <1>6, <2>2, <2>3, <2>4 DEF Role
      <3>3. Buffer(i)'
        BY <1>1, <1>6, <2>4 DEF Buffer, HasRequest
      <3>4. Cell(i)'
        BY <2>3, <2>4, <3>1 DEF Cell
      <3> QED
        BY <3>2, <3>3, <3>4
    <2>7. ASSUME NEW s \in Slots \ {i} PROVE Role(s)' /\ Buffer(s)' /\ Cell(s)'
      <3>1. SameConnection(s) /\ (Scheduled(s)' <=> Scheduled(s))
        BY <1>2, <2>2, <2>4, SlotsFacts DEF SameConnection, Scheduled
      <3> QED
        BY <1>1, <1>3, <2>2, <2>3, <2>4, <3>1, SlotFrame
    <2> QED
      BY <2>1, <2>4, <2>5, <2>6, <2>7, FromRuntime DEF HttpInv
  <1>8. CASE ResumeChildren(i)
    <2>1. RuntimeInv'
      <3>1. StackInv'
        BY <1>1, <1>8, CompleteStep
      <3> QED
        BY <1>4, <1>8, <3>1, CompleteKeeps
    <2>2. pc[i] = "Children" /\ stage[i] \notin ReaderStages
      BY <1>1, <1>8 DEF ResumeChildren, At, Role
    <2>3. children[i] = {}
      BY <1>2, <1>4, <2>2 DEF RuntimeInv, Queue, Justified
    <2>4. CASE i = Root
      BY <1>2, <1>4, <1>6, <1>8, <2>1, <2>2, <2>3, <2>4, ReturnHttp DEF ResumeChildren
    <2>5. CASE i # Root
      BY <1>2, <1>4, <1>6, <1>8, <2>1, <2>2, <2>3, <2>5, RetireHttp DEF ResumeChildren
    <2> QED
      BY <2>4, <2>5
  <1> QED
    BY <1>5, <1>7, <1>8 DEF Resume

\* A step that changes nothing.
LEMMA StutterHttp == ASSUME HttpInv, UNCHANGED vars, UNCHANGED <<stage, conn>> PROVE HttpInv'
  <1>1. /\ UNCHANGED <<mode, pc, parent, children, is_cancelled, syscall_result, target, handle,
                       ready_fibers, running_fiber>>
    BY DEF vars, fiberVars, schedVars
  <1>2. /\ stage \in [Slots -> Stages] /\ conn \in [Slots -> Connections] /\ Owners
        /\ \A s \in Slots : Role(s) /\ Buffer(s) /\ Cell(s)
        /\ StateInv /\ TypeOK /\ HttpQueue
    BY DEF HttpInv, StateInv, StackInv
  <1>3. StateInv'
    BY <1>2, StateUnchanged
  <1>4. HttpQueue'
    <2>1. Ready' = Ready /\ Ready \subseteq Slots
      BY <1>1, <1>2, ReadySlots DEF Ready
    <2>2. \A s \in Slots : (Justified(s)' <=> Justified(s)) /\ (Early(s)' <=> Early(s))
      BY <1>1 DEF Justified, Active, Completed, Early, Busy
    <2> QED
      BY <1>1, <1>2, <2>1, <2>2 DEF HttpQueue
  <1>5. Owners'
    BY <1>1, <1>2 DEF Owners, Busy
  <1>6. \A s \in Slots : Role(s)' /\ Buffer(s)' /\ Cell(s)'
    BY <1>1, <1>2 DEF Role, Buffer, Cell, HasRequest, Busy, Scheduled
  <1> QED
    BY <1>2, <1>3, <1>4, <1>5, <1>6 DEF HttpInv

-----------------------------------------------------------------------------
(* The invariant. *)

LEMMA HttpInvInit == HttpInit => HttpInv
  <1> SUFFICES ASSUME HttpInit PROVE HttpInv
    OBVIOUS
  <1>1. /\ Init /\ stage = [s \in Slots |-> IF s = Root THEN "spawn" ELSE "end"]
        /\ conn = [s \in Slots |-> NoConnection]
    BY DEF HttpInit
  <1>2. StateInv /\ HttpQueue
    BY <1>1, RuntimeInvInit DEF RuntimeInv, Queue, HttpQueue
  <1>3. /\ stage \in [Slots -> Stages] /\ conn \in [Slots -> Connections]
        /\ \A s \in Slots : stage[s] \in {"spawn", "end"} /\ conn[s] = NoConnection
    BY <1>1, NoConnectionType DEF Stages
  <1>4. \A s \in Slots : pc[s] = "Vacant" /\ handle[s] = NoFiber
    BY <1>1 DEF Init
  <1>5. Owners
    BY <1>4 DEF Owners
  <1>6. \A s \in Slots : Role(s)
    BY <1>3, <1>4, NoConnectionType DEF Role, DropStages, LoopStages, HandlerStages, ReaderStages
  <1>7. \A s \in Slots : Buffer(s)
    BY <1>3, NoConnectionType, CapacityAssumption DEF Buffer
  <1>8. \A s \in Slots : Cell(s)
    BY <1>3, <1>4, NoConnectionType DEF Cell
  <1> QED
    BY <1>2, <1>3, <1>5, <1>6, <1>7, <1>8 DEF HttpInv

LEMMA HttpInvNext == HttpInv /\ [HttpNext]_allVars => HttpInv'
  <1> SUFFICES ASSUME HttpInv, [HttpNext]_allVars PROVE HttpInv'
    OBVIOUS
  <1>1. CASE RuntimeStep
    <2>1. ASSUME Terminated, Forget PROVE HttpInv'
      <3>1. UNCHANGED vars /\ UNCHANGED pc
        BY <2>1 DEF Terminated, vars, fiberVars
      <3>2. UNCHANGED <<stage, conn>>
        BY <2>1, <3>1, ForgetFacts DEF HttpInv
      <3> QED
        BY <3>1, <3>2, StutterHttp
    <2> QED
      BY <1>1, <2>1, StartHttp, ResumeHttp, KernelHttp, ProcessIoHttp, DropRuntimeHttp
      DEF RuntimeStep
  <1>2. ASSUME NEW i \in Slots, Function(i) PROVE HttpInv'
    <2>1. CASE \/ \E j \in Slots : i = Root /\ SpawnControl(j)
               \/ Accepted(i)
               \/ \E j \in Slots : SpawnReader(i, j)
      BY <2>1, SpawnsHttp
    <2>2. ASSUME NEW j \in Slots, (i = Root /\ DropControl(j)) \/ DropHandler(i, j) \/ DropReader(i, j)
          PROVE  HttpInv'
      BY <2>2, DropHttp DEF DropControl, DropHandler, DropReader
    <2>3. CASE ControlWait(i) \/ Accept(i) \/ CloseListener(i)
      BY <2>3, CallHttp
    <2>4. CASE Stop(i) \/ Wait(i) \/ Parse(i) \/ Finish(i)
      BY <2>4, StopHttp, LoopHttp, FinishHttp
    <2>5. CASE NoBuffer(i) \/ Respond(i) \/ Responded(i) \/ Read(i) \/ Got(i)
      BY <2>5, NoBufferHttp, RespondHttp, RespondedHttp, ReadHttp, GotHttp
    <2> QED
      BY <1>2, <2>1, <2>2, <2>3, <2>4, <2>5 DEF Function
  <1>3. CASE UNCHANGED allVars
    BY <1>3, StutterHttp DEF allVars, httpVars
  <1> QED
    BY <1>1, <1>2, <1>3 DEF HttpNext

LEMMA HttpInvAlways == HttpSpec => []HttpInv
  BY HttpInvInit, HttpInvNext, PTL DEF HttpSpec

-----------------------------------------------------------------------------
(* The theorems. *)

\* The types of the server's state: no index of a connection's cell leaves the slab
\* and no length leaves the buffer.
THEOREM HttpTypeCorrect == HttpSpec => []HttpTypeOK
  <1>1. HttpInv => HttpTypeOK
    BY DEF HttpInv, HttpTypeOK, StateInv, StackInv
  <1> QED
    BY <1>1, HttpInvAlways, PTL

\* handle_connection and reader never leave a handler asleep on a request that is
\* complete, however many connections there are and however their bytes arrive.
THEOREM RequestsAreNotMissed == HttpSpec => []NoMissedRequest
  <1>1. HttpInv => NoMissedRequest
    BY DEF HttpInv, NoMissedRequest, Handlers, Cell, Busy
  <1> QED
    BY <1>1, HttpInvAlways, PTL

\* A waker that the reader finds in the cell is that of the handler of its connection,
\* which sleeps in its loop or was cancelled there.
THEOREM WakersAreCurrent == HttpSpec => []WakerIsCurrent
  <1>1. HttpInv => WakerIsCurrent
    <2> SUFFICES ASSUME HttpInv, NEW h \in Slots, Live(h), conn[h].cell # NoFiber
                 PROVE  \/ conn[h].cell = h /\ pc[h] = "Parked" /\ stage[h] = "loop"
                        \/ h \in is_cancelled
      BY DEF WakerIsCurrent, Handlers
    <2>1. Role(h) /\ Cell(h) /\ Cancellation
      BY DEF HttpInv, StateInv
    <2> QED
      BY <2>1 DEF Role, Cell, Cancellation, Completed
  <1> QED
    BY <1>1, HttpInvAlways, PTL

\* The server keeps the runtime safe without any assumption on closures: although a
\* reader may wake a handler out of its wait for children, no fiber runs for a reason
\* that the code after its park does not expect, no index dangles, parents outlive
\* their children, cancellation reaches everybody, each system call gets its one
\* completion, and nothing is left when start returns.
THEOREM ServerIsSafe ==
    HttpSpec => [](/\ WakeupsJustified /\ NoDanglingIndex /\ ParentOutlivesChildren
                   /\ CancelPropagates /\ CancellationReaches
                   /\ ExactlyOneCompletion /\ AsyncCancelHitsOwner /\ QuietExit)
  <1>1. ASSUME HttpInv
        PROVE  /\ WakeupsJustified /\ NoDanglingIndex /\ ParentOutlivesChildren
               /\ CancelPropagates /\ CancellationReaches
               /\ ExactlyOneCompletion /\ AsyncCancelHitsOwner /\ QuietExit
    <2>1. /\ StateInv /\ HttpQueue /\ TypeOK /\ Hierarchy /\ Cancellation /\ CancelPropagates
          /\ AsyncCancels /\ cancelling \subseteq Slots
      BY <1>1 DEF HttpInv, StateInv, StackInv, TypeOK, InterfaceTypeOK
    <2>2. WakeupsJustified
      BY <2>1, RunningForAReason DEF HttpQueue
    <2>3. NoDanglingIndex
      <3>1. \A s \in Ready : Active(s)
        BY <2>1 DEF HttpQueue, Justified, Early, Active
      <3> QED
        BY <2>1, <3>1, IndicesKnown
    <2>4. ParentOutlivesChildren
      BY <2>1 DEF ParentOutlivesChildren, Hierarchy, Active, Live
    <2>5. ExactlyOneCompletion /\ CancellationReaches
      BY <2>1, OnePlaceEach DEF Cancellation
    <2>6. AsyncCancelHitsOwner
      BY <2>1 DEF AsyncCancels, Cancellation, AsyncCancelHitsOwner
    <2>7. QuietExit
      <3>1. CASE mode = "run"
        BY <3>1 DEF QuietExit
      <3>2. CASE mode # "run"
        BY <1>1, <3>2, NotEarly, NothingIsLeft DEF Busy
      <3> QED
        BY <3>1, <3>2
    <2> QED
      BY <2>1, <2>2, <2>3, <2>4, <2>5, <2>6, <2>7
  <1> QED
    BY <1>1, HttpInvAlways, PTL

-----------------------------------------------------------------------------
(* Nobody's handle is forgotten: the handle of a fiber is dropped by its    *)
(* spawner, and a fiber without a handle is freed when it ends.             *)

\* Fiber s has a handle, or frees itself.
Kept == \A s \in Slots \ {Root} : Live(s) => handle[s] # NoFiber \/ join_handle[s] = Dropped

\* A step that touches no handle and starts no fiber but the root.
LEMMA KeptFrame ==
    ASSUME Kept, UNCHANGED <<handle, join_handle>>,
           \A s \in Slots \ {Root} : Live(s)' => Live(s)
    PROVE  Kept'
  BY DEF Kept

\* The drop of a handle frees the fiber or leaves that to its end.
LEMMA KeptRelease ==
    ASSUME Kept, TypeOK, NEW j \in Slots, NEW p \in [Slots -> Labels], Release(j, p),
           \A s \in Slots \ {Root} : p[s] # "Vacant" => Live(s)
    PROVE  Kept'
  <1>1. handle \in [Slots -> Slots \cup {NoFiber}] /\ DOMAIN join_handle = Slots
    BY DEF TypeOK
  <1>2. \A s \in Slots : s # j => handle'[s] = handle[s] /\ join_handle'[s] = join_handle[s]
    BY <1>1 DEF Release, Free
  <1>3. \A s \in Slots : s # j => pc'[s] = p[s]
    BY DEF Release, Free
  <1>4. pc'[j] = "Vacant" \/ join_handle'[j] = Dropped
    BY <1>1 DEF Release, Free
  <1> QED
    BY <1>2, <1>3, <1>4 DEF Kept, Live

\* The end of a fiber: it frees itself, or its handle is still there.
LEMMA KeptLeave ==
    ASSUME Kept, TypeOK, NEW i \in Slots \ {Root}, Live(i), NEW q, NEW c, Leave(i, q, c)
    PROVE  Kept'
  <1>1. pc \in [Slots -> Labels] /\ DOMAIN join_handle = Slots /\ handle' = handle
    BY DEF TypeOK, Leave
  <1>2. CASE join_handle[i] = Dropped
    <2>1. /\ pc' = [pc EXCEPT ![i] = "Vacant"]
          /\ join_handle' = [join_handle EXCEPT ![i] = Unused]
      BY <1>2 DEF Leave, Free
    <2> QED
      BY <1>1, <2>1 DEF Kept, Live
  <1>3. CASE join_handle[i] # Dropped
    <2>1. /\ pc' = [pc EXCEPT ![i] = "Done"]
          /\ \A s \in Slots : s # i => join_handle'[s] = join_handle[s]
      BY <1>1, <1>3 DEF Leave
    <2>2. handle[i] # NoFiber
      BY <1>3 DEF Kept
    <2> QED
      BY <1>1, <2>1, <2>2 DEF Kept, Live
  <1> QED
    BY <1>2, <1>3

LEMMA KeptRetire ==
    ASSUME Kept, TypeOK, NEW i \in Slots \ {Root}, Live(i), NEW b, Retire(i, b)
    PROVE  Kept'
  BY KeptLeave DEF Retire

\* Steps of a fiber that ends, or goes on after a park of the runtime.
LEMMA KeptEnd ==
    ASSUME Kept, TypeOK, Joins, NEW i \in Slots, NEW b, Complete(i, b) \/ Resume(i)
    PROVE  Kept'
  <1>1. pc \in [Slots -> Labels] /\ target \in [Slots -> Slots \cup {NoFiber}] /\ Live(i)
    BY DEF TypeOK, Live, Complete, Resume, ResumeJoin1, ResumeJoin2, ResumeSys1, ResumeSys2,
           ResumeChildren, At
  <1>2. CASE i # Root /\ \E d : Retire(i, d)
    BY <1>1, <1>2, KeptRetire
  <1>3. CASE ReturnFromStart
    BY <1>1, <1>3, KeptFrame DEF ReturnFromStart, Live
  <1>4. CASE Park(i, "Children") /\ UNCHANGED <<join_handle, handle>>
    BY <1>1, <1>4, KeptFrame DEF Park, Live
  <1>5. CASE ResumeSys1(i) \/ ResumeSys2(i)
    <2>1. \A s \in Slots : s # i => pc'[s] = pc[s]
      BY <1>1, <1>5 DEF ResumeSys1, ResumeSys2, ReadSyscallResult, Park
    <2>2. UNCHANGED <<join_handle, handle>>
      BY <1>5 DEF ResumeSys1, ResumeSys2
    <2> QED
      BY <1>1, <2>1, <2>2, KeptFrame DEF Live
  <1>6. CASE ReturnFromJoin(i) /\ pc[i] \in {"Join1", "Join2"}
    <2>0. target[i] \in Slots
      BY <1>6 DEF Joins, Joining
    <2>1. Release(target[i], [pc EXCEPT ![i] = "User"])
      BY <1>6 DEF ReturnFromJoin
    <2>2. [pc EXCEPT ![i] = "User"] \in [Slots -> Labels]
      BY <1>1 DEF Labels
    <2> QED
      BY <1>1, <2>0, <2>1, <2>2, KeptRelease DEF Live
  <1>7. CASE Park(i, "Join2") /\ UNCHANGED <<join_handle, handle>>
    BY <1>1, <1>7, KeptFrame DEF Park, Live
  <1>8. CASE Complete(i, b)
    BY <1>2, <1>3, <1>4, <1>8 DEF Complete
  <1>9. CASE ResumeJoin1(i) \/ ResumeJoin2(i)
    BY <1>6, <1>7, <1>9 DEF ResumeJoin1, ResumeJoin2, At
  <1>10. CASE ResumeChildren(i)
    BY <1>2, <1>3, <1>10 DEF ResumeChildren
  <1> QED
    BY <1>5, <1>8, <1>9, <1>10 DEF Resume

\* The steps of the server's functions other than their ends.
LEMMA KeptFunction ==
    ASSUME Kept, TypeOK, NEW i \in Slots, Function(i), ~Finish(i)
    PROVE  Kept'
  <1>1. pc \in [Slots -> Labels] /\ handle \in [Slots -> Slots \cup {NoFiber}]
    BY DEF TypeOK
  <1>2. ASSUME NEW h \in Slots, NEW c \in Slots, SpawnFiber(h, c) PROVE Kept'
    <2>1. /\ pc' = [pc EXCEPT ![c] = "User"] /\ join_handle' = join_handle
          /\ handle' = [j \in Slots |-> IF j = c THEN h ELSE handle[j]]
      BY <1>2 DEF SpawnFiber, Spawn
    <2> QED
      BY <1>1, <2>1, SlotsFacts DEF Kept, Live
  <1>3. ASSUME NEW h \in Slots, NEW c \in Slots, DropHandle(h, c) PROVE Kept'
    <2>1. Release(c, pc)
      BY <1>3 DEF DropHandle
    <2> QED
      BY <1>1, <2>1, KeptRelease DEF Live
  <1>4. CASE Syscall(i)
    BY <1>1, <1>4, KeptFrame DEF Syscall, Park, At, Live
  <1>5. CASE UNCHANGED <<handle, join_handle, pc>>
    BY <1>5, KeptFrame DEF Live
  <1>6. CASE Stop(i) \/ NoBuffer(i) \/ Responded(i) \/ Got(i)
    BY <1>5, <1>6 DEF Stop, CancelPropagating, CancelTree, NoBuffer, Responded, vars, fiberVars, Got
  <1>7. CASE Wait(i) \/ Parse(i)
    <2>1. \A s \in Slots : s # i => pc'[s] = pc[s]
      BY <1>1, <1>7 DEF Wait, Parse, Park, vars, fiberVars
    <2>2. UNCHANGED <<handle, join_handle>> /\ Live(i)
      BY <1>7 DEF Wait, Parse, vars, fiberVars, At, Live
    <2> QED
      BY <2>1, <2>2, KeptFrame DEF Live
  <1>8. CASE ControlWait(i) \/ Accept(i) \/ CloseListener(i) \/ Respond(i) \/ Read(i)
    BY <1>4, <1>5, <1>8
       DEF ControlWait, Accept, CloseListener, Call3, Respond, Read, vars, fiberVars
  <1>9. CASE Accepted(i)
    BY <1>2, <1>5, <1>9 DEF Accepted, vars, fiberVars
  <1>10. ASSUME NEW j \in Slots, SpawnControl(j) \/ SpawnReader(i, j) PROVE Kept'
    BY <1>2, <1>10, SlotsFacts DEF SpawnControl, SpawnReader
  <1>11. ASSUME NEW j \in Slots, DropControl(j) \/ DropHandler(i, j) \/ DropReader(i, j)
         PROVE  Kept'
    BY <1>3, <1>11, SlotsFacts DEF DropControl, DropHandler, DropReader
  <1> QED
    BY <1>6, <1>7, <1>8, <1>9, <1>10, <1>11 DEF Function

\* Every step of the server and the runtime.
LEMMA KeptNext == ASSUME HttpInv, Kept, [HttpNext]_allVars PROVE Kept'
  <1>1. TypeOK /\ Joins /\ pc \in [Slots -> Labels]
    BY DEF HttpInv, StateInv, StackInv, TypeOK
  <1>2. CASE UNCHANGED <<handle, join_handle, pc>>
    BY <1>2, KeptFrame DEF Live
  <1>3. ASSUME NEW i \in Slots, Function(i) PROVE Kept'
    BY <1>1, <1>3, KeptFunction, KeptEnd DEF Finish
  <1>4. CASE RuntimeStep
    <2>1. CASE Start
      BY <1>1, <2>1, KeptFrame DEF Start, Live
    <2>2. ASSUME NEW i \in Slots, Resume(i) PROVE Kept'
      BY <1>1, <2>2, KeptEnd
    <2>3. CASE \/ \E i \in Slots : Kernel(i)
               \/ ProcessIo
               \/ DropRuntime
               \/ Terminated
      BY <1>2, <2>3 DEF Kernel, ProcessIo, ProcessCompleted, PopReady, SubmitAndWait, DropRuntime,
                        Terminated, vars, fiberVars
    <2> QED
      BY <1>4, <2>1, <2>2, <2>3 DEF RuntimeStep
  <1>5. CASE UNCHANGED allVars
    BY <1>2, <1>5 DEF allVars, vars, fiberVars
  <1> QED
    BY <1>3, <1>4, <1>5 DEF HttpNext

\* A server that has gone down leaves nothing: every handle was dropped right after
\* its spawn, so every fiber of every connection has freed its entry and given back
\* its stack, whether its peer was answered, was cut off or made it panic.
THEOREM ServerLeavesNothing == HttpSpec => []NothingRemains
  <1>1. HttpInit => Kept
    BY DEF HttpInit, Init, Kept, Live
  <1>2. HttpInv /\ Kept /\ [HttpNext]_allVars => Kept'
    BY KeptNext
  <1>3. ASSUME HttpInv, Kept PROVE NothingRemains
    <2> SUFFICES ASSUME mode = "down"
                 PROVE  mapped = 0 /\ \A s \in Slots \ {Root} : ~Live(s)
      BY DEF NothingRemains
    <2>1. /\ Handles /\ \A s \in Slots : ~Active(s)
          /\ mapped = Cardinality(LiveSet \ {Root})
      BY <1>3 DEF HttpInv, StateInv, Phases
    <2>2. \A j \in Slots : handle[j] = NoFiber
      BY <1>3, NoHandles DEF HttpInv, Busy
    <2>3. \A s \in Slots \ {Root} : ~Live(s)
      BY <1>3, <2>1, <2>2 DEF Kept, Handles
    <2>4. LiveSet \ {Root} = {}
      BY <2>3 DEF LiveSet
    <2> QED
      BY <2>1, <2>3, <2>4, FS_EmptySet
  <1> QED
    BY <1>1, <1>2, <1>3, HttpInvAlways, PTL DEF HttpSpec

-----------------------------------------------------------------------------
(* The server's fibers as a tree. *)

\* A step that moves fiber i within its function, if any fiber.
LEMMA InnerStep ==
    ASSUME StateInv, NEW i \in Slots, running_fiber = i, Active(i), pc[i] # "Children",
           pc' = pc \/ (\E l \in {"User", "Parked"} : pc' = [pc EXCEPT ![i] = l]),
           UNCHANGED <<parent, is_cancelled, syscall_result, target, handle>>
    PROVE  Isolated /\ [Tree!TreeNext]_(Tree!treeVars)
  <1>1. pc \in [Slots -> Labels]
    BY DEF StateInv, StackInv, TypeOK
  <1>2. \A s \in Slots : s # i => pc'[s] = pc[s]
    BY <1>1
  <1>3. Active(i)' /\ pc'[i] # "Children"
    BY <1>1 DEF Active
  <1> QED
    BY <1>2, <1>3, IsolatedFrame, TreeFrame DEF Active

\* What the functions of the server do are calls of the runtime or inner steps.
LEMMA FunctionOfTree ==
    ASSUME StateInv, NEW i \in Slots, Function(i)
    PROVE  (Isolated \/ UNCHANGED vars) /\ [Tree!TreeNext]_(Tree!treeVars)
  <1>1. ASSUME NEW h \in Slots, AnyCall(h)
        PROVE  (Isolated \/ UNCHANGED vars) /\ [Tree!TreeNext]_(Tree!treeVars)
    BY <1>1, CallOfTree
  <1>2. ASSUME UNCHANGED vars
        PROVE  (Isolated \/ UNCHANGED vars) /\ [Tree!TreeNext]_(Tree!treeVars)
    BY <1>2, TreeFrame DEF vars, fiberVars, Active
  <1>3. ASSUME NEW h \in Slots, NEW c \in Slots, SpawnFiber(h, c) \/ DropHandle(h, c)
        PROVE  AnyCall(h)
    BY <1>3 DEF AnyCall, SpawnFiber
  <1>4. CASE Syscall(i) \/ Stop(i) \/ Finish(i)
    BY <1>1, <1>4 DEF AnyCall, Stop, Finish
  <1>5. CASE \/ ControlWait(i) \/ Accept(i) \/ CloseListener(i) \/ Respond(i) \/ Read(i)
             \/ NoBuffer(i) \/ Responded(i)
    BY <1>2, <1>4, <1>5
       DEF ControlWait, Accept, CloseListener, Call3, Respond, Read, NoBuffer, Responded
  <1>6. CASE Accepted(i)
    BY <1>1, <1>2, <1>3, <1>6 DEF Accepted
  <1>7. ASSUME NEW j \in Slots, SpawnControl(j) \/ SpawnReader(i, j)
        PROVE  (Isolated \/ UNCHANGED vars) /\ [Tree!TreeNext]_(Tree!treeVars)
    BY <1>1, <1>3, <1>7, SlotsFacts DEF SpawnControl, SpawnReader
  <1>8. ASSUME NEW j \in Slots, DropControl(j) \/ DropHandler(i, j) \/ DropReader(i, j)
        PROVE  (Isolated \/ UNCHANGED vars) /\ [Tree!TreeNext]_(Tree!treeVars)
    BY <1>1, <1>3, <1>8, SlotsFacts DEF DropControl, DropHandler, DropReader
  <1>9. CASE Wait(i) \/ Parse(i) \/ Got(i)
    <2>1. /\ running_fiber = i /\ pc[i] \in {"User", "Parked"}
          /\ \/ pc' = pc
             \/ \E l \in {"User", "Parked"} : pc' = [pc EXCEPT ![i] = l]
          /\ UNCHANGED <<parent, is_cancelled, syscall_result, target, handle>>
      BY <1>9 DEF Wait, Parse, Got, At, Park, vars, fiberVars
    <2> QED
      BY <2>1, InnerStep DEF Active
  <1> QED
    BY <1>4, <1>5, <1>6, <1>7, <1>8, <1>9 DEF Function

\* Every step of the server, its connections and the runtime.
LEMMA ServerOfTree ==
    ASSUME HttpInv, [HttpNext]_allVars
    PROVE  (Isolated \/ UNCHANGED vars) /\ [Tree!TreeNext]_(Tree!treeVars)
  <1>1. /\ StateInv
        /\ \A i \in Slots : At(i, "Children") => children[i] = {}
    BY DEF HttpInv, HttpQueue, Justified, At
  <1>2. CASE RuntimeStep \/ UNCHANGED allVars
    BY <1>1, <1>2, OwnOfTree DEF RuntimeStep, OwnStep, allVars
  <1> QED
    BY <1>1, <1>2, FunctionOfTree DEF HttpNext

\* The server is structured: handlers and readers, which are spawned and let go, form
\* a tree under serve in which only leaves end, whatever peers, panics and the order
\* of wake-ups do, and no step of one connection moves a fiber of another.
THEOREM ServerIsStructured == HttpSpec => IsFiberTree /\ FibersAreIsolated
  <1>1. HttpInit => Tree!TreeInit
    BY TreeEmpty DEF HttpInit
  <1>2. HttpInv /\ [HttpNext]_allVars
            => /\ [Tree!TreeNext]_(Tree!treeVars)
               /\ [\A s \in Slots : Live(s) /\ s # running_fiber => LeftToItself(s)]_vars
    BY ServerOfTree DEF Isolated
  <1> QED
    BY <1>1, <1>2, HttpInvAlways, PTL DEF HttpSpec, IsFiberTree, FibersAreIsolated, Tree!TreeSpec

=============================================================================
