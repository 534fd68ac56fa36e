--------------------------- MODULE HttpConnection ---------------------------
(***************************************************************************)
(* An HTTP server (src/ecosystem/http/server/mod.rs) on the runtime: the   *)
(* root fiber accepts connections (serve) and spawns a handler for each    *)
(* (handle_connection); a handler spawns a reader (reader) that fills a    *)
(* circular buffer while the handler waits, through a waker in a shared    *)
(* cell, for a request.  Another fiber, standing for the program around    *)
(* the server, cancels everything at some time.                            *)
(*                                                                         *)
(* Here the closures are not arbitrary: stage says where in its function   *)
(* a fiber stands.  Bytes are counted, not represented; a peer decides how *)
(* many it sends before it stops and what they mean to the parser.         *)
(***************************************************************************)
EXTENDS Runtime

CONSTANTS
    MaxConnections,  \* bound on the handlers at one time
    Capacity,        \* size of the circular buffer (4096 in the code)
    MaxBytes,        \* bound on the bytes a peer sends
    MaxBody,         \* bound on content-length
    LowestKeys,      \* bound on the slab: only the lowest vacant key is given out
    Kinds            \* what complete requests lead to, out of Outcomes

Outcomes == {"answer",   \* a handler that responds
             "invalid",  \* a parse error
             "panic"}    \* a panic in parse_partial_uri or in a handler

ASSUME MaxConnectionsAssumption == MaxConnections \in Nat /\ 2 + 2 * MaxConnections <= MaxFibers
ASSUME CapacityAssumption == Capacity \in Nat \ {0}
ASSUME MaxBytesAssumption == MaxBytes \in Nat /\ MaxBody \in 0 .. MaxBytes
ASSUME LowestKeysAssumption == LowestKeys \in BOOLEAN
ASSUME KindsAssumption == "answer" \in Kinds /\ Kinds \subseteq Outcomes

VARIABLES
    stage,  \* where each fiber's function stands
    conn    \* the connection of each handler

httpVars == <<stage, conn>>

Stages == {"spawn", "drop_control", "wait", "propagate",           \* the program
           "accept", "accepted", "drop_handler", "close",          \* serve
           "setup", "drop_reader", "loop", "respond", "responded", \* handler
           "read", "got",                                          \* reader
           "end", "panic"}

\* A request is complete with wire + body bytes; left bytes are still to come.
Connections ==
    [wire : 1 .. MaxBytes + 1, body : 0 .. MaxBody, kind : Kinds, left : 0 .. MaxBytes,
     len : 0 .. Capacity,                \* data.len()
     room : 0 .. Capacity,               \* length of the slice passed to read
     cell : Slots \cup {NoFiber},        \* waiting_for_data
     reply : {"none", "written", "failed"},  \* outcome of writing the response
     open : BOOLEAN]

\* (bound) Requests that complete, if the peer sends n bytes, and one that does
\* not: nothing tells apart those that are longer than that or than the buffer.
Completes(wire, body, n) == wire + body <= n /\ wire + body <= Capacity
Distinct(wire, body, kind, n) ==
    Completes(wire, body, n) \/ (wire = MaxBytes + 1 /\ body = 0 /\ kind = "answer")

\* A connection just accepted, to a peer that sends n bytes.
Accepting(wire, body, kind, n) ==
    [wire |-> wire, body |-> body, kind |-> kind, left |-> n, len |-> 0, room |-> 0,
     cell |-> NoFiber, reply |-> "none", open |-> TRUE]

NoConnection == [Accepting(1, 0, "answer", 0) EXCEPT !.open = FALSE]

HttpTypeOK ==
    /\ TypeOK
    /\ stage \in [Slots -> Stages]
    /\ conn \in [Slots -> Connections]

HttpInit ==
    /\ Init
    /\ stage = [s \in Slots |-> IF s = Root THEN "spawn" ELSE "end"]
    /\ conn = [s \in Slots |-> NoConnection]

\* Fiber i spawns c, whose key is the slab's choice.
SpawnFiber(i, c) ==
    /\ LowestKeys => \A s \in 0 .. c - 1 : Live(s)
    /\ Spawn(i, c, {})

\* What belongs to a fiber goes with it.
Forget ==
    /\ stage' = [s \in Slots |-> IF Live(s) /\ pc'[s] = "Vacant" THEN "end" ELSE stage[s]]
    /\ conn' = [s \in Slots |-> IF Live(s) /\ pc'[s] = "Vacant" THEN NoConnection ELSE conn[s]]

\* Fiber i's function goes from stage a to stage b.
Step(i, a, b) ==
    /\ stage[i] = a
    /\ stage' = [stage EXCEPT ![i] = b]

\* A system call of fiber i on the way from stage a to stage b; a cancelled
\* fiber goes to stage c instead.
Call3(i, a, b, c) ==
    \/ Step(i, a, b) /\ Syscall(i) /\ UNCHANGED conn
    \/ /\ Step(i, a, c)
       /\ At(i, "User")
       /\ i \in is_cancelled
       /\ UNCHANGED <<vars, conn>>

\* The fibers in handle_connection; conn says whose connection is whose.
Handlers == {h \in Slots : Live(h) /\ conn[h].open}

-----------------------------------------------------------------------------
(* The program: the root starts the fiber that will stop it, then serves. *)

SpawnControl(c) ==
    /\ stage[Root] = "spawn"
    /\ SpawnFiber(Root, c)
    /\ stage' = [stage EXCEPT ![Root] = "drop_control", ![c] = "wait"]
    /\ UNCHANGED conn

DropControl(c) ==
    /\ Step(Root, "drop_control", "accept")
    /\ DropHandle(Root, c)
    /\ UNCHANGED conn

\* Waiting for the reason to stop.
ControlWait(i) == Call3(i, "wait", "propagate", "propagate")

Stop(i) ==
    /\ Step(i, "propagate", "end")
    /\ CancelPropagating(i)
    /\ UNCHANGED conn

-----------------------------------------------------------------------------
(* serve, with Listener::accept and the drop of the Listener. *)

Accept(i) == Call3(i, "accept", "accepted", "close")

\* accept failed (possibly by cancellation), or a handler is spawned.
Accepted(i) ==
    \/ /\ At(i, "User")
       /\ Step(i, "accepted", "close")
       /\ UNCHANGED <<vars, conn>>
    \/ \E h \in Slots :
           /\ Cardinality(Handlers) < MaxConnections
           /\ stage[i] = "accepted"
           /\ SpawnFiber(i, h)
           /\ stage' = [stage EXCEPT ![i] = "drop_handler", ![h] = "setup"]
           /\ \E wire \in 1 .. MaxBytes + 1, kind \in Kinds, n \in 0 .. MaxBytes :
                  \E body \in 0 .. MaxBody :
                      /\ Distinct(wire, body, kind, n)
                      /\ conn' = [conn EXCEPT ![h] = Accepting(wire, body, kind, n)]

DropHandler(i, h) ==
    /\ Step(i, "drop_handler", "accept")
    /\ DropHandle(i, h)
    /\ UNCHANGED conn

CloseListener(i) == Call3(i, "close", "end", "end")

-----------------------------------------------------------------------------
(* handle_connection *)

\* There is no memory for the buffer: the unwrap in serve panics.
NoBuffer(h) ==
    /\ At(h, "User")
    /\ Step(h, "setup", "panic")
    /\ UNCHANGED <<vars, conn>>

SpawnReader(h, r) ==
    /\ stage[h] = "setup"
    /\ SpawnFiber(h, r)
    /\ stage' = [stage EXCEPT ![h] = "drop_reader", ![r] = "read"]
    /\ UNCHANGED conn

DropReader(h, r) ==
    /\ Step(h, "drop_reader", "loop")
    /\ DropHandle(h, r)
    /\ UNCHANGED conn

\* The head of the loop: a handler that is not cancelled leaves its waker in
\* the cell and parks.
Wait(h) ==
    /\ At(h, "User")
    /\ stage[h] = "loop"
    /\ \/ /\ h \in is_cancelled
          /\ Step(h, "loop", "end")
          /\ UNCHANGED <<vars, conn>>
       \/ /\ h \notin is_cancelled
          /\ conn' = [conn EXCEPT ![h].cell = h]
          /\ Park(h, "Parked")
          /\ UNCHANGED <<interfaceVars, mode, parent, children, join_handle, is_cancelled,
                         syscall_result, result_is_error, target, handle, ready_fibers,
                         stackVars, stage>>

\* Does the buffer of h hold a request that the parser can decide on?
HasRequest(h) == conn[h].len >= conn[h].wire + conn[h].body

\* The body of the loop after the park: another round, or out of it.
Parse(h) ==
    /\ At(h, "Parked")
    /\ pc' = [pc EXCEPT ![h] = "User"]
    /\ \/ ~HasRequest(h) /\ Step(h, "loop", "loop")
       \/ HasRequest(h) /\ conn[h].kind = "answer" /\ Step(h, "loop", "respond")
       \/ HasRequest(h) /\ conn[h].kind = "invalid" /\ Step(h, "loop", "end")
       \/ HasRequest(h) /\ conn[h].kind = "panic" /\ Step(h, "loop", "panic")
    /\ UNCHANGED <<interfaceVars, mode, parent, children, join_handle, is_cancelled,
                   syscall_result, result_is_error, target, handle, schedVars, stackVars, conn>>

\* The write of the response, at the latest when the BufWriter is dropped.  In a
\* cancelled fiber it fails at once.
Respond(h) ==
    /\ stage[h] = "respond"
    /\ stage' = [stage EXCEPT ![h] = "responded"]
    /\ \/ Syscall(h) /\ UNCHANGED conn
       \/ /\ At(h, "User")
          /\ h \in is_cancelled
          /\ conn' = [conn EXCEPT ![h].reply = "failed"]
          /\ UNCHANGED vars

\* The write went through, or it failed: unnoticed in the drop of the
\* BufWriter, or with a panic in serialize().unwrap().
Responded(h) ==
    /\ At(h, "User")
    /\ \E reply \in IF conn[h].reply = "none" THEN {"written", "failed"} ELSE {conn[h].reply} :
           \/ /\ Step(h, "responded", "end")
              /\ conn' = [conn EXCEPT ![h].reply = reply, ![h].len = @ - conn[h].wire]
           \/ /\ reply = "failed"
              /\ Step(h, "responded", "panic")
              /\ conn' = [conn EXCEPT ![h].reply = reply]
    /\ UNCHANGED vars

-----------------------------------------------------------------------------
(* reader, for the connection of its parent. *)

\* (mutant) the slice passed to read is the whole buffer.
MutRead(r) ==
    /\ stage[r] = "read"
    /\ \/ /\ Syscall(r)
          /\ Step(r, "read", "got")
          /\ conn' = [conn EXCEPT ![parent[r]].room = Capacity]
       \/ /\ At(r, "User")
          /\ r \in is_cancelled
          /\ Step(r, "read", "end")
          /\ UNCHANGED <<vars, conn>>

Read(r) ==
    /\ stage[r] = "read"
    /\ \/ /\ Syscall(r)
          /\ Step(r, "read", "got")
          /\ conn' = [conn EXCEPT ![parent[r]].room = Capacity - conn[parent[r]].len]
       \/ /\ At(r, "User")
          /\ r \in is_cancelled
          /\ Step(r, "read", "end")
          /\ UNCHANGED <<vars, conn>>

\* (mutant) the handler is woken only by the bytes that end an empty buffer.
MutWake(h) ==
    IF conn[h].len = 0 /\ conn[h].cell # NoFiber
    THEN ready_fibers' = Schedule(ready_fibers, conn[h].cell)
    ELSE UNCHANGED ready_fibers

\* The handler of connection h, if it left its waker, is woken.
Wake(h) ==
    IF conn[h].cell # NoFiber
    THEN ready_fibers' = Schedule(ready_fibers, conn[h].cell)
    ELSE UNCHANGED ready_fibers

\* (mutant) the waker is used and left in the cell.
MutCommitted(h, n) ==
    conn' = [conn EXCEPT ![h].len = @ + n, ![h].left = @ - n, ![h].room = 0]

\* n bytes of connection h are committed and the waker is taken.
Committed(h, n) ==
    conn' = [conn EXCEPT ![h].len = @ + n, ![h].left = @ - n, ![h].room = 0,
                             ![h].cell = NoFiber]

\* What the read returned: bytes, or an end (no more bytes, no room, an error).
Got(r) ==
    LET h == parent[r]
    IN  /\ At(r, "User")
        /\ stage[r] = "got"
        /\ \/ \E n \in 1 .. MaxBytes :
                  /\ n <= conn[h].left
                  /\ n <= conn[h].room
                  /\ Committed(h, n)
                  /\ Wake(h)
                  /\ Step(r, "got", "read")
           \/ /\ conn[h].left = 0 \/ conn[h].room = 0 \/ r \in is_cancelled
              /\ Step(r, "got", "end")
              /\ UNCHANGED <<conn, ready_fibers>>
        /\ UNCHANGED <<interfaceVars, mode, fiberVars, running_fiber, stackVars>>

-----------------------------------------------------------------------------

\* A function returns or panics, and the trampoline goes on.
Finish(i) ==
    /\ \/ stage[i] = "end" /\ Complete(i, FALSE)
       \/ stage[i] = "panic" /\ Complete(i, TRUE)
    /\ Forget

\* The steps of the fibers' functions.
Function(i) ==
    \/ i = Root /\ \E j \in Slots : SpawnControl(j) \/ DropControl(j)
    \/ ControlWait(i) \/ Stop(i)
    \/ Accept(i) \/ Accepted(i) \/ CloseListener(i)
    \/ \E j \in Slots : DropHandler(i, j) \/ SpawnReader(i, j) \/ DropReader(i, j)
    \/ NoBuffer(i) \/ Wait(i) \/ Parse(i) \/ Respond(i) \/ Responded(i)
    \/ Read(i) \/ Got(i)
    \/ Finish(i)

RuntimeStep ==
    /\ \/ Start
       \/ \E i \in Slots : Resume(i)
       \/ \E i \in Slots : Kernel(i)
       \/ ProcessIo
       \/ DropRuntime
       \/ Terminated
    /\ Forget

HttpNext == RuntimeStep \/ \E i \in Slots : Function(i)

allVars == <<vars, httpVars>>

HttpSpec == HttpInit /\ [][HttpNext]_allVars

\* The thread never pauses.
ThreadStep ==
    \/ \E i \in Slots : Function(i)
    \/ (Start \/ ProcessIo \/ DropRuntime \/ \E i \in Slots : Resume(i)) /\ Forget

\* The bytes that a peer sends arrive.
BytesArrive ==
    \E i \in Slots : stage[i] = "got" /\ conn[parent[i]].left > 0 /\ Kernel(i) /\ Forget

\* Operations end when an AsyncCancel has found them.
CancelledOperationsEnd == \E i \in cancelling : Kernel(i) /\ Forget

HttpLiveSpec ==
    /\ HttpSpec
    /\ WF_allVars(ThreadStep)
    /\ WF_allVars(BytesArrive)
    /\ WF_allVars(CancelledOperationsEnd)

-----------------------------------------------------------------------------

\* A handler never sleeps on a request: once the buffer holds a complete one,
\* the handler has been woken, however the bytes were cut into reads.
NoMissedRequest ==
    \A h \in Handlers : pc[h] = "Parked" /\ HasRequest(h) => Scheduled(h)

\* A waker in the cell is that of a handler that sleeps in its loop, or of one
\* that was cancelled there: a reader's commit wakes nobody out of a system call.
WakerIsCurrent ==
    \A h \in Handlers : conn[h].cell # NoFiber =>
        \/ conn[h].cell = h /\ pc[h] = "Parked" /\ stage[h] = "loop"
        \/ h \in is_cancelled

\* Peers take the responses that they are sent.
ResponsesTaken == \E i \in Slots : stage[i] = "responded" /\ Kernel(i) /\ Forget

\* A request is answered: if what the peer sends completes it and it fits into
\* the buffer, the write of the response ends (for peers that take it), unless
\* the server is cancelled while the handler runs.
RequestsAnswered ==
    WF_allVars(ResponsesTaken) =>
        \A h \in Slots :
            (/\ conn[h].kind = "answer"
             /\ stage[h] \in {"drop_reader", "loop", "respond"}
             /\ conn[h].len + conn[h].left >= conn[h].wire + conn[h].body
             /\ conn[h].wire + conn[h].body <= Capacity)
                ~> (conn[h].reply # "none" \/ (h \in is_cancelled /\ ~Completed(h)))

\* Cancelling the server stops everything: also the handlers whose reader is gone
\* and the readers whose peer is silent, so that start returns.
ServerStops == (mode = "run" /\ Root \in is_cancelled /\ ~Completed(Root)) ~> (mode = "down")

\* A server that has gone down leaves nothing behind: every stack is unmapped and
\* no fiber but the root has kept its slab entry, however its connections ended.
NothingRemains == mode = "down" => mapped = 0 /\ \A s \in Slots \ {Root} : ~Live(s)

=============================================================================
