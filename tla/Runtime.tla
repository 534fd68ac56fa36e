------------------------------ MODULE Runtime ------------------------------
(***************************************************************************)
(* The fiber runtime (src/runtime/mod.rs): fibers, their hierarchy, join   *)
(* handles, cancellation, parking and waking, system calls, stacks.        *)
(*                                                                         *)
(* One thread runs everything.  A fiber runs until it parks or ends; then  *)
(* process_io picks the next one.  The only concurrency inside the process *)
(* is therefore between parks, and with the kernel, which completes        *)
(* operations whenever it likes.                                           *)
(*                                                                         *)
(* The closures that fibers execute are arbitrary: a fiber at label "User" *)
(* may make any of the calls in Calls, return, or panic.                   *)
(***************************************************************************)
EXTENDS Interface, SequencesExt

CONSTANTS
    Calls,        \* the calls of the runtime's API that closures make
    OwnedParents  \* may a closure return before its children have ended while
                  \* somebody still owns the fiber's JoinHandle?

ApiCalls == {"spawn", "move", "give", "join", "cancel", "propagate", "cancel_self",
             "drop", "forget", "yield", "syscall", "panic"}

ASSUME CallsAssumption == Calls \subseteq ApiCalls
ASSUME OwnedParentsAssumption == OwnedParents \in BOOLEAN

Root == 0
NoFiber == -1

(* JoinHandleState: Waiting(Some(w)) is the slot of the waker's fiber. *)
Unused == -1
Dropped == -2
WaitingNone == -3

(* Where a fiber's own code stands. *)
Labels == {"Vacant",    \* no slab entry
           "User",      \* in the closure
           "Parked",    \* in a park of the closure (synchronization primitives)
           "Join1",     \* first park of JoinHandle::join
           "Join2",     \* second park of JoinHandle::join
           "Sys1",      \* first park of syscall
           "Sys2",      \* second park of syscall, the AsyncCancel was issued
           "Children",  \* closure ended, in the park that waits for children
           "Done"}      \* trampoline left, slab entry kept for the JoinHandle

VARIABLES
    mode,             \* "idle", "run", "exited" (start returns) or "down"
    pc,               \* label of each fiber
    parent,           \* FiberState::parent
    children,         \* FiberState::children
    join_handle,      \* FiberState::join_handle
    is_cancelled,     \* fibers whose FiberState::is_cancelled is set
    syscall_result,   \* fibers whose FiberState::syscall_result is Some
    result_is_error,  \* fibers waiting for children whose closure panicked
    target,           \* the fiber a fiber in join is joining
    handle,           \* the fiber that owns, or will use next, each fiber's JoinHandle
    ready_fibers,
    running_fiber,    \* NoFiber while process_io looks for the next fiber
    stack_pool,       \* number of pooled stacks
    mapped            \* number of stacks that are mapped

fiberVars == <<pc, parent, children, join_handle, is_cancelled, syscall_result,
               result_is_error, target, handle>>
stackVars == <<stack_pool, mapped>>
schedVars == <<ready_fibers, running_fiber>>
vars == <<interfaceVars, mode, fiberVars, schedVars, stackVars>>

TypeOK ==
    /\ InterfaceTypeOK
    /\ mode \in {"idle", "run", "exited", "down"}
    /\ pc \in [Slots -> Labels]
    /\ parent \in [Slots -> Slots \cup {NoFiber}]
    /\ children \in [Slots -> SUBSET Slots]
    /\ join_handle \in [Slots -> Slots \cup {Unused, Dropped, WaitingNone}]
    /\ is_cancelled \subseteq Slots
    /\ syscall_result \subseteq Slots
    /\ result_is_error \subseteq Slots
    /\ target \in [Slots -> Slots \cup {NoFiber}]
    /\ handle \in [Slots -> Slots \cup {NoFiber}]
    /\ ready_fibers \in Seq(Slots)
    /\ running_fiber \in Slots \cup {NoFiber}
    /\ stack_pool \in Nat
    /\ mapped \in Nat

Init ==
    /\ InterfaceInit
    /\ mode = "idle"
    /\ pc = [s \in Slots |-> "Vacant"]
    /\ parent = [s \in Slots |-> NoFiber]
    /\ children = [s \in Slots |-> {}]
    /\ join_handle = [s \in Slots |-> Unused]
    /\ is_cancelled = {}
    /\ syscall_result = {}
    /\ result_is_error = {}
    /\ target = [s \in Slots |-> NoFiber]
    /\ handle = [s \in Slots |-> NoFiber]
    /\ ready_fibers = <<>>
    /\ running_fiber = NoFiber
    /\ stack_pool = 0
    /\ mapped = 0

-----------------------------------------------------------------------------
(* Vocabulary. *)

Live(s) == pc[s] # "Vacant"
Completed(s) == pc[s] \in {"Children", "Done"}   \* FiberState::is_completed
Held(i) == {j \in Slots : handle[j] = i}         \* handles owned by i's closure

\* Waker::schedule_with
Schedule(q, i) == IF Contains(q, i) THEN q ELSE Append(q, i)

\* Fiber i is the running one, and its code stands at label l.
At(i, l) ==
    /\ mode = "run"
    /\ running_fiber = i
    /\ pc[i] = l

\* (mutant) the TODO of cancel: do not descend below a fiber whose flag is set.
MutSubtree(r) ==
    {s \in Slots :
        \A S \in SUBSET Slots :
            (r \in S /\ \A p \in S \ is_cancelled : children[p] \subseteq S) => s \in S}

\* The fibers RuntimeState::cancel visits: r and its descendants.
Subtree(r) ==
    {s \in Slots :
        \A S \in SUBSET Slots :
            (r \in S /\ \A p \in S : children[p] \subseteq S) => s \in S}

\* cancel visits a fiber before its descendants, and children by index.
Before(x, y) ==
    \/ x # y /\ y \in Subtree(x)
    \/ \E p \in Slots : \E c, d \in children[p] :
           c < d /\ x \in Subtree(c) /\ y \in Subtree(d)

\* (mutant) cancel sets the flag before it tests it, and schedules nobody.
MutWoken(r, i) == {}

\* The fibers cancel(r), called by fiber i, puts into the ready queue.
Woken(r, i) == Subtree(r) \ (is_cancelled \cup {i} \cup ToSet(ready_fibers))

\* A set in the order of the visit.
InVisitOrder(W) ==
    {w \in SetToSeqs(W) : \A k, l \in DOMAIN w : k < l => Before(w[k], w[l])}

-----------------------------------------------------------------------------
(* Stacks and slab entries. *)

\* (mutant) the pool is popped without looking whether it is empty.
MutTakeStack ==
    /\ stack_pool' = stack_pool - 1
    /\ UNCHANGED mapped

\* (mutant) unwrap_or in place of unwrap_or_else: a stack is mapped in any case.
MutTakeStackEager ==
    /\ stack_pool' = IF stack_pool > 0 THEN stack_pool - 1 ELSE stack_pool
    /\ mapped' = mapped + 1

\* The stack of create_fiber: from the pool, or a new mapping.
TakeStack ==
    /\ stack_pool' = IF stack_pool > 0 THEN stack_pool - 1 ELSE stack_pool
    /\ mapped' = IF stack_pool > 0 THEN mapped ELSE mapped + 1

\* The stack of j goes to the pool and its slab entry is removed, whoever may
\* still refer to it.  p, kids and c are the labels, children and cancelled
\* fibers that the caller's own step leaves.
Free(j, p, kids, c) ==
    /\ pc' = [p EXCEPT ![j] = "Vacant"]
    /\ children' = [kids EXCEPT ![j] = {}]
    /\ is_cancelled' = c \ {j}
    /\ parent' = [parent EXCEPT ![j] = NoFiber]
    /\ join_handle' = [join_handle EXCEPT ![j] = Unused]
    /\ syscall_result' = syscall_result \ {j}
    /\ result_is_error' = result_is_error \ {j}
    /\ stack_pool' = stack_pool + 1
    /\ UNCHANGED mapped

\* (mutant) the handle frees the fiber whether it is completed or not.
MutReleaseAlways(j, p) ==
    /\ handle' = [handle EXCEPT ![j] = NoFiber]
    /\ Free(j, p, children, is_cancelled)

\* (mutant) the handle leaves the freeing to the trampoline, which may be over.
MutReleaseNever(j, p) ==
    /\ handle' = [handle EXCEPT ![j] = NoFiber]
    /\ pc' = p
    /\ join_handle' = [join_handle EXCEPT ![j] = Dropped]
    /\ UNCHANGED <<parent, children, is_cancelled, syscall_result,
                   result_is_error, stackVars>>

\* JoinHandle::drop for the handle of j; p is as in Free.
Release(j, p) ==
    /\ handle' = [handle EXCEPT ![j] = NoFiber]
    /\ \/ /\ Completed(j)
          /\ Free(j, p, children, is_cancelled)
       \/ /\ ~Completed(j)
          /\ pc' = p
          /\ join_handle' = [join_handle EXCEPT ![j] = Dropped]
          /\ UNCHANGED <<parent, children, is_cancelled, syscall_result,
                         result_is_error, stackVars>>

\* park: fiber i stops at label l and process_io takes over.
Park(i, l) ==
    /\ pc' = [pc EXCEPT ![i] = l]
    /\ running_fiber' = NoFiber

-----------------------------------------------------------------------------
(* start and the end of the root fiber. *)

\* start: the root fiber is the slab's first entry and runs at once.
Start ==
    /\ mode = "idle"
    /\ mode' = "run"
    /\ TakeStack
    /\ pc' = [pc EXCEPT ![Root] = "User"]
    /\ running_fiber' = Root
    /\ UNCHANGED <<interfaceVars, parent, children, join_handle, is_cancelled,
                   syscall_result, result_is_error, target, handle, ready_fibers>>

\* start_trampoline after the wait for children: back to the original stack.
ReturnFromStart ==
    /\ pc' = [pc EXCEPT ![Root] = "Done"]
    /\ is_cancelled' = is_cancelled \cup {Root}
    /\ result_is_error' = result_is_error \ {Root}
    /\ stack_pool' = stack_pool + 1
    /\ mode' = "exited"
    /\ UNCHANGED <<interfaceVars, parent, children, join_handle, syscall_result,
                   target, handle, schedVars, mapped>>

\* exclusive_runtime drops the RuntimeState, which unmaps the pooled stacks.
DropRuntime ==
    /\ mode = "exited"
    /\ mode' = "down"
    /\ mapped' = mapped - stack_pool
    /\ stack_pool' = 0
    /\ UNCHANGED <<interfaceVars, fiberVars, schedVars>>

-----------------------------------------------------------------------------
(* The calls of a closure that runs in fiber i. *)

\* spawn: the child c inherits the cancellation; its closure may take with it
\* some of the handles that i's closure owns.
Spawn(i, c, moved) ==
    /\ At(i, "User")
    /\ pc[c] = "Vacant"
    /\ TakeStack
    /\ pc' = [pc EXCEPT ![c] = "User"]
    /\ is_cancelled' = IF i \in is_cancelled THEN is_cancelled \cup {c} ELSE is_cancelled
    /\ ready_fibers' = Append(ready_fibers, c)
    /\ children' = [children EXCEPT ![i] = @ \cup {c}]
    /\ parent' = [parent EXCEPT ![c] = i]
    /\ handle' = [j \in Slots |-> IF j = c THEN i ELSE IF j \in moved THEN c ELSE handle[j]]
    /\ UNCHANGED <<interfaceVars, mode, join_handle, syscall_result, result_is_error,
                   target, running_fiber>>

\* JoinHandle::join up to its first park.
Join(i, j) ==
    /\ At(i, "User")
    /\ handle[j] = i
    /\ \/ /\ Completed(j) \/ (i \in is_cancelled /\ j \notin is_cancelled)
          /\ Release(j, pc)
          /\ UNCHANGED <<target, running_fiber>>
       \/ /\ ~Completed(j)
          /\ i \in is_cancelled => j \in is_cancelled
          /\ join_handle' = [join_handle EXCEPT ![j] = i]
          /\ target' = [target EXCEPT ![i] = j]
          /\ Park(i, "Join1")
          /\ UNCHANGED <<parent, children, is_cancelled, syscall_result,
                         result_is_error, handle, stackVars>>
    /\ UNCHANGED <<interfaceVars, mode, ready_fibers>>

\* join returns to the closure, which drops the handle.
ReturnFromJoin(i) ==
    /\ Release(target[i], [pc EXCEPT ![i] = "User"])
    /\ target' = [target EXCEPT ![i] = NoFiber]
    /\ UNCHANGED running_fiber

\* join between its two parks.
ResumeJoin1(i) ==
    /\ At(i, "Join1")
    /\ \/ /\ Completed(target[i]) \/ target[i] \notin is_cancelled
          /\ ReturnFromJoin(i)
       \/ /\ ~Completed(target[i])
          /\ target[i] \in is_cancelled
          /\ Park(i, "Join2")
          /\ UNCHANGED <<parent, children, join_handle, is_cancelled, syscall_result,
                         result_is_error, target, handle, stackVars>>
    /\ UNCHANGED <<interfaceVars, mode, ready_fibers>>

\* join after its second park, which reads the output without a check.
ResumeJoin2(i) ==
    /\ At(i, "Join2")
    /\ ReturnFromJoin(i)
    /\ UNCHANGED <<interfaceVars, mode, ready_fibers>>

\* RuntimeState::cancel(r), called by the running fiber i.
CancelTree(r, i) ==
    /\ is_cancelled' = is_cancelled \cup Subtree(r)
    /\ \E w \in InVisitOrder(Woken(r, i)) : ready_fibers' = ready_fibers \o w
    /\ UNCHANGED <<interfaceVars, mode, pc, parent, children, join_handle,
                   syscall_result, result_is_error, target, handle, running_fiber,
                   stackVars>>

\* JoinHandle::cancel
CancelHandle(i, j) ==
    /\ At(i, "User")
    /\ handle[j] = i
    /\ CancelTree(j, i)

\* cancel
CancelSelf(i) ==
    /\ At(i, "User")
    /\ CancelTree(i, i)

\* cancel_propagating and JoinHandle::cancel_propagating: nearest_contained is
\* the root for every fiber.
CancelPropagating(i) ==
    /\ At(i, "User")
    /\ CancelTree(Root, i)

DropHandle(i, j) ==
    /\ At(i, "User")
    /\ handle[j] = i
    /\ Release(j, pc)
    /\ UNCHANGED <<interfaceVars, mode, target, schedVars>>

\* mem::forget of a handle, or its owner leaking it in an unread output.
ForgetHandle(i, j) ==
    /\ At(i, "User")
    /\ handle[j] = i
    /\ handle' = [handle EXCEPT ![j] = NoFiber]
    /\ UNCHANGED <<interfaceVars, mode, pc, parent, children, join_handle, is_cancelled,
                   syscall_result, result_is_error, target, schedVars, stackVars>>

\* A JoinHandle is a plain value: i hands the one of j to fiber k, which may be
\* j itself or an ancestor, through a shared cell, a channel or its output.  It
\* counts as k's from here on, whoever holds it until k has it.
GiveHandle(i, j, k) ==
    /\ At(i, "User")
    /\ handle[j] = i
    /\ Live(k) /\ ~Completed(k)
    /\ handle' = [handle EXCEPT ![j] = k]
    /\ UNCHANGED <<interfaceVars, mode, pc, parent, children, join_handle, is_cancelled,
                   syscall_result, result_is_error, target, schedVars, stackVars>>

YieldNow(i) ==
    /\ At(i, "User")
    /\ ready_fibers' = Schedule(ready_fibers, i)
    /\ Park(i, "User")
    /\ UNCHANGED <<interfaceVars, mode, parent, children, join_handle, is_cancelled,
                   syscall_result, result_is_error, target, handle, stackVars>>

\* syscall up to its first park; a cancelled fiber gets an error instead.
Syscall(i) ==
    /\ At(i, "User")
    /\ i \notin is_cancelled
    /\ Issue(Op(i))
    /\ Park(i, "Sys1")
    /\ UNCHANGED <<mode, parent, children, join_handle, is_cancelled, syscall_result,
                   result_is_error, target, handle, ready_fibers, stackVars>>

\* read_syscall_result: the result is taken and syscall returns.
ReadSyscallResult(i) ==
    /\ syscall_result' = syscall_result \ {i}
    /\ pc' = [pc EXCEPT ![i] = "User"]
    /\ UNCHANGED <<interfaceVars, running_fiber>>

\* (mutant) a cancelled system call returns without waiting for its completion.
MutResumeSys1(i) ==
    /\ At(i, "Sys1")
    /\ ReadSyscallResult(i)
    /\ UNCHANGED <<mode, parent, children, join_handle, is_cancelled, result_is_error,
                   target, handle, ready_fibers, stackVars>>

\* syscall between its two parks.
ResumeSys1(i) ==
    /\ At(i, "Sys1")
    /\ \/ /\ i \in syscall_result
          /\ ReadSyscallResult(i)
       \/ /\ i \notin syscall_result
          /\ Issue(AsyncCancel(i))
          /\ Park(i, "Sys2")
          /\ UNCHANGED syscall_result
    /\ UNCHANGED <<mode, parent, children, join_handle, is_cancelled, result_is_error,
                   target, handle, ready_fibers, stackVars>>

\* syscall after its second park.
ResumeSys2(i) ==
    /\ At(i, "Sys2")
    /\ ReadSyscallResult(i)
    /\ UNCHANGED <<mode, parent, children, join_handle, is_cancelled, result_is_error,
                   target, handle, ready_fibers, stackVars>>

-----------------------------------------------------------------------------
(* The end of a fiber: spawn_trampoline after the closure. *)

\* (mutant) every child wakes the completed parent, not only the last one.
MutLastChild(p, kids) == Completed(p)

\* (mutant) looks for other children before the child that ends is removed.
MutLastChildEarly(p, kids) == Completed(p) /\ children[p] = {}

\* Does parent p wait for its children, of which none is left in kids?
LastChild(p, kids) == Completed(p) /\ kids[p] = {}

\* The parent forgets the child and is woken by the last one; the slab entry
\* goes if the handle is gone.  q and c are what the notification left.
Leave(i, q, c) ==
    LET p == parent[i]
        kids == [children EXCEPT ![p] = @ \ {i}]
    IN  /\ ready_fibers' = IF LastChild(p, kids) THEN Schedule(q, p) ELSE q
        /\ running_fiber' = NoFiber
        /\ \/ /\ join_handle[i] = Dropped
              /\ Free(i, pc, kids, c)
           \/ /\ join_handle[i] # Dropped
              /\ pc' = [pc EXCEPT ![i] = "Done"]
              /\ children' = kids
              /\ is_cancelled' = c
              /\ join_handle' = [join_handle EXCEPT ![i] = IF @ \in Slots THEN WaitingNone ELSE @]
              /\ result_is_error' = result_is_error \ {i}
              /\ UNCHANGED <<parent, syscall_result, stackVars>>
        /\ UNCHANGED <<interfaceVars, mode, target, handle>>

\* The joining fiber is scheduled; without one a panic cancels the root.
Retire(i, panicked) ==
    LET c == is_cancelled \cup {i}
    IN  \/ /\ join_handle[i] \in Slots
           /\ Leave(i, Schedule(ready_fibers, join_handle[i]), c)
        \/ /\ join_handle[i] \notin Slots
           /\ panicked
           /\ \E w \in InVisitOrder(Woken(Root, i)) :
                  Leave(i, ready_fibers \o w, c \cup Subtree(Root))
        \/ /\ join_handle[i] \notin Slots
           /\ ~panicked
           /\ Leave(i, ready_fibers, c)

\* (mutant) completion does not set is_cancelled, which "prevent[s] cancel
\* scheduling while waiting for children".
MutCompleteFlag(i, panicked) ==
    /\ At(i, "User")
    /\ Held(i) = {}
    /\ \/ /\ children[i] # {}
          /\ OwnedParents \/ handle[i] = NoFiber
          /\ result_is_error' = IF panicked THEN result_is_error \cup {i} ELSE result_is_error
          /\ Park(i, "Children")
          /\ UNCHANGED <<interfaceVars, mode, parent, children, join_handle, is_cancelled,
                         syscall_result, target, handle, ready_fibers, stackVars>>
       \/ /\ children[i] = {}
          /\ i # Root
          /\ Retire(i, panicked)
       \/ /\ children[i] = {}
          /\ i = Root
          /\ ReturnFromStart

\* (mutant) the root returns without waiting for its children.
MutCompleteNoWait(i, panicked) ==
    /\ At(i, "User")
    /\ Held(i) = {}
    /\ \/ i # Root /\ Retire(i, panicked)
       \/ i = Root /\ ReturnFromStart

\* The closure of i returned or panicked, and dropped the handles it owned.
Complete(i, panicked) ==
    /\ At(i, "User")
    /\ Held(i) = {}
    /\ \/ /\ children[i] # {}
          /\ OwnedParents \/ handle[i] = NoFiber
          /\ is_cancelled' = is_cancelled \cup {i}
          /\ result_is_error' = IF panicked THEN result_is_error \cup {i} ELSE result_is_error
          /\ Park(i, "Children")
          /\ UNCHANGED <<interfaceVars, mode, parent, children, join_handle, syscall_result,
                         target, handle, ready_fibers, stackVars>>
       \/ /\ children[i] = {}
          /\ i # Root
          /\ Retire(i, panicked)
       \/ /\ children[i] = {}
          /\ i = Root
          /\ ReturnFromStart

\* The trampoline after the wait for children.
ResumeChildren(i) ==
    /\ At(i, "Children")
    /\ \/ /\ i # Root
          /\ Retire(i, i \in result_is_error)
       \/ /\ i = Root
          /\ ReturnFromStart

-----------------------------------------------------------------------------
(* process_io and the kernel. *)

InProcessIo == mode = "run" /\ running_fiber = NoFiber

ProcessCompleted ==
    /\ InProcessIo
    /\ ReadCompletion
    /\ \/ /\ Head(cq) = ASYNC_CANCELLATION_USER_DATA
          /\ UNCHANGED <<syscall_result, ready_fibers>>
       \/ /\ Head(cq) # ASYNC_CANCELLATION_USER_DATA
          /\ syscall_result' = syscall_result \cup {Head(cq)}
          /\ ready_fibers' = Schedule(ready_fibers, Head(cq))
    /\ UNCHANGED <<mode, pc, parent, children, join_handle, is_cancelled, result_is_error,
                   target, handle, running_fiber, stackVars>>

PopReady ==
    /\ InProcessIo
    /\ cq = <<>>
    /\ ready_fibers # <<>>
    /\ running_fiber' = Head(ready_fibers)
    /\ ready_fibers' = Tail(ready_fibers)
    /\ UNCHANGED <<interfaceVars, mode, fiberVars, stackVars>>

SubmitAndWait ==
    /\ InProcessIo
    /\ ready_fibers = <<>>
    /\ WaitForCompleted
    /\ UNCHANGED <<mode, fiberVars, schedVars, stackVars>>

Kernel(id) ==
    /\ mode = "run"
    /\ KernelComplete(id)
    /\ UNCHANGED <<mode, fiberVars, schedVars, stackVars>>

-----------------------------------------------------------------------------

\* The calls closures may make, one disjunct per call of the API.
Call(i) ==
    \/ /\ "spawn" \in Calls
       /\ \E c \in Slots :
              \E moved \in IF "move" \in Calls THEN SUBSET Held(i) ELSE {{}} :
                  Spawn(i, c, moved)
    \/ "join" \in Calls /\ \E j \in Slots : Join(i, j)
    \/ "cancel" \in Calls /\ \E j \in Slots : CancelHandle(i, j)
    \/ "cancel_self" \in Calls /\ CancelSelf(i)
    \/ "propagate" \in Calls /\ CancelPropagating(i)
    \/ "drop" \in Calls /\ \E j \in Slots : DropHandle(i, j)
    \/ "forget" \in Calls /\ \E j \in Slots : ForgetHandle(i, j)
    \/ "give" \in Calls /\ \E j, k \in Slots : GiveHandle(i, j, k)
    \/ "yield" \in Calls /\ YieldNow(i)
    \/ "syscall" \in Calls /\ Syscall(i)
    \/ Complete(i, FALSE)
    \/ "panic" \in Calls /\ Complete(i, TRUE)

\* A parked call of the runtime continues.
Resume(i) ==
    \/ ResumeJoin1(i)
    \/ ResumeJoin2(i)
    \/ ResumeSys1(i)
    \/ ResumeSys2(i)
    \/ ResumeChildren(i)

ProcessIo == ProcessCompleted \/ PopReady \/ SubmitAndWait

\* The process goes on without a runtime.
Terminated == mode = "down" /\ UNCHANGED vars

Next ==
    \/ Start
    \/ \E i \in Slots : Call(i)
    \/ \E i \in Slots : Resume(i)
    \/ \E i \in Slots : Kernel(i)
    \/ ProcessIo
    \/ DropRuntime
    \/ Terminated

Spec == Init /\ [][Next]_vars

-----------------------------------------------------------------------------
(* Safety properties.  They are stated for client code that waits for the  *)
(* children of a fiber before it lets go of the fiber's handle             *)
(* (OwnedParents = FALSE), unless a comment says otherwise.                *)

Operations(s) == {k \in DOMAIN sq : sq[k] = Op(s)}
Completions(s) == {k \in DOMAIN cq : cq[k] = s}

\* Fiber s will run without any further event.
Scheduled(s) == s \in ToSet(ready_fibers) \/ running_fiber = s

\* Every index that is stored anywhere (the ready queue, parent and children
\* links, wakers of join, join handles, user_data in the rings) names a slab
\* entry that exists: the runtime indexes its slab without checks.
NoDanglingIndex ==
    /\ \A s \in ToSet(ready_fibers) : Live(s)
    /\ \A s \in Slots : Live(s) =>
           /\ parent[s] # NoFiber => Live(parent[s]) \/ pc[s] = "Done"
           /\ \A c \in children[s] : Live(c)
           /\ target[s] # NoFiber => Live(target[s])
           /\ join_handle[s] \in Slots => Live(join_handle[s])
    /\ \A s \in Slots : handle[s] # NoFiber => Live(s) /\ Live(handle[s])
    /\ \A s \in Slots : Operations(s) # {} \/ s \in inflight \/ Completions(s) # {} => Live(s)

\* A parent fiber outlives its children: until a spawned fiber's trampoline has
\* ended, its parent lists it as a child and has not ended itself.
ParentOutlivesChildren ==
    \A s \in Slots \ {Root} : Live(s) /\ pc[s] # "Done" =>
        /\ parent[s] \in Slots
        /\ s \in children[parent[s]]
        /\ Live(parent[s]) /\ pc[parent[s]] # "Done"

\* A park returns only for the reasons its comment gives ("woken up by ...").
\* The code after the parks of join, syscall and the trampolines relies on it:
\* it asserts, unwraps or reads an output without looking again.
WakeupsJustified ==
    \A i \in Slots : mode = "run" /\ running_fiber = i =>
        CASE pc[i] = "Join1" -> Completed(target[i]) \/ i \in is_cancelled
          [] pc[i] = "Join2" -> Completed(target[i])
          [] pc[i] = "Sys1" -> i \in syscall_result \/ i \in is_cancelled
          [] pc[i] = "Sys2" -> i \in syscall_result
          [] pc[i] = "Children" -> children[i] = {}
          [] OTHER -> pc[i] \in {"User", "Parked"}

\* The descendants of r, along the parent links.
Descendants(r) ==
    {s \in Slots :
        \A S \in SUBSET Slots :
            (r \in S /\ \A c \in Slots : parent[c] \in S => c \in S) => s \in S}

\* Cancellation covers a whole hierarchy: below a cancelled fiber that is still
\* in its closure there is no fiber that is not cancelled, however late it was
\* spawned and whatever completed in between.
CancelPropagates ==
    \A s \in is_cancelled : ~Completed(s) => Descendants(s) \subseteq is_cancelled

\* Cancellation wakes whoever would otherwise wait: a cancelled fiber sleeps
\* neither in a system call that nobody asked the kernel to stop nor in a join
\* with a fiber that was not cancelled.
CancellationReaches ==
    \A s \in is_cancelled : ~Scheduled(s) =>
        /\ pc[s] # "Sys1"
        /\ pc[s] \in {"Join1", "Join2"} => target[s] \in is_cancelled

\* The converse of WakeupsJustified: whoever has a reason to go on will be run
\* without any further event.  Nothing in the code looks for sleepers, so the
\* step that gives the reason (a completion, the end of a fiber or of a last
\* child, cancel, yield_now, spawn) has to schedule.
NobodyOversleeps ==
    /\ CancellationReaches
    /\ \A s \in Slots : ~Scheduled(s) =>
           CASE pc[s] = "User" -> FALSE
             [] pc[s] \in {"Join1", "Join2"} -> ~Completed(target[s])
             [] pc[s] \in {"Sys1", "Sys2"} -> s \notin syscall_result
             [] pc[s] = "Children" -> children[s] # {}
             [] OTHER -> TRUE

\* A fiber in a system call has exactly one operation on its way through the
\* rings until the result arrives, and no other fiber has any: a completion is
\* neither lost nor delivered to a later system call or a later fiber of the
\* same slab index.
ExactlyOneCompletion ==
    \A s \in Slots :
        Cardinality(Operations(s)) + Cardinality(Completions(s))
            + (IF s \in inflight THEN 1 ELSE 0)
        = IF pc[s] \in {"Sys1", "Sys2"} /\ s \notin syscall_result THEN 1 ELSE 0

\* An AsyncCancel, which names its target by slab index only, never stops an
\* operation other than the one it was issued for, even when the index has
\* been given to a new fiber in the meantime.
AsyncCancelHitsOwner ==
    \A s \in cancelling : pc[s] = "Sys2" /\ s \in is_cancelled

\* Every mapped stack belongs to one slab entry or is in the pool; the root's is
\* in the pool while start still refers to its entry.
StacksConserved ==
    mode # "down" =>
        mapped + (IF mode = "exited" THEN 1 ELSE 0)
            = stack_pool + Cardinality({s \in Slots : Live(s)})

\* Leak-free: once the runtime is dropped, the only stacks still mapped are those
\* of fibers whose handle was forgotten.
LeakFree ==
    mode = "down" =>
        mapped = Cardinality({s \in Slots \ {Root} : Live(s) /\ handle[s] = NoFiber
                                                    /\ join_handle[s] = Unused})

\* start returns only when all fibers have completed: nothing is left to run and
\* the kernel works for nobody.
QuietExit ==
    mode \in {"exited", "down"} =>
        /\ \A s \in Slots : pc[s] \in {"Vacant", "Done"}
        /\ ready_fibers = <<>>
        /\ inflight = {}

\* Fiber s is parked until another fiber has ended: one it joins, or a child.
WaitsIn(s, x) ==
    \/ pc[s] \in {"Join1", "Join2"} /\ target[s] = x
    \/ pc[s] = "Children" /\ x \in children[s]

\* The runtime has nobody to run and expects nothing from the kernel.
Standstill ==
    InProcessIo /\ ready_fibers = <<>> /\ cq = <<>> /\ sq = <<>> /\ inflight = {}

\* The runtime stops for one reason only, and not because a wake-up, a
\* completion or an end was lost: every fiber that is left waits for another of
\* them.  (Handles may get to the fibers that have to end first, so closures can
\* bring this about; the code does not look for it.)
StandstillIsCircle ==
    Standstill =>
        \A s \in Slots : pc[s] \notin {"Vacant", "Done"} =>
            \E x \in Slots : WaitsIn(s, x) /\ pc[x] \notin {"Vacant", "Done"}

\* All that a step may do to a fiber that is not running: cancel it, give its
\* system call the result, and free it after its end.  Nobody takes back a
\* cancellation or a result, moves another fiber on, or drops its handles.
LeftToItself(s) ==
    /\ pc'[s] = pc[s] \/ (pc[s] = "Done" /\ pc'[s] = "Vacant")
    /\ s \in is_cancelled /\ pc[s] # "Done" => s \in is_cancelled'
    /\ s \in syscall_result => s \in syscall_result'
    /\ s \in syscall_result' \ syscall_result => pc[s] \in {"Sys1", "Sys2"}
    /\ target'[s] = target[s]
    /\ \A t \in Slots : handle[t] = s => handle'[t] = s

FibersAreIsolated ==
    [][\A s \in Slots : Live(s) /\ s # running_fiber => LeftToItself(s)]_vars

\* The tree that fibers see.  A flag that is set in a fiber whose closure is over
\* tells nobody to stop.
Alive == {s \in Slots : pc[s] \notin {"Vacant", "Done"}}
Finished == {s \in Slots : pc[s] = "Children"}

Tree == INSTANCE FiberTree WITH
    Fiber <- Slots, Main <- Root, Nobody <- NoFiber,
    alive <- Alive,
    finished <- Finished,
    cancelled <- (is_cancelled \cap Alive) \ Finished,
    up <- [s \in Slots |-> IF s \in Alive THEN parent[s] ELSE NoFiber]

\* The runtime keeps the promise of structured concurrency: with all its parks,
\* handles, system calls and indices, each of its steps is one of the tree or none.
IsFiberTree == Tree!TreeSpec

=============================================================================
