--------------------------- MODULE RuntimeSafety ---------------------------
(***************************************************************************)
(* The safety of the fiber runtime, for every number of fibers, every size *)
(* of the submission queue, every set of calls and all closures that wait  *)
(* for their children while somebody owns the fiber's JoinHandle.          *)
(*                                                                         *)
(* RuntimeInv, the inductive invariant, has one part per subject; the      *)
(* parts need each other.  One lemma per action shows that it keeps them.  *)
(* The fact about the closures is a hypothesis of the lemma about their    *)
(* end alone (CompleteKeeps), so that modules which compose the runtime    *)
(* with particular closures can use the lemmas.                            *)
(*                                                                         *)
(* The last sections follow from it: what a step leaves alone in fibers    *)
(* that are not running, and that every step is one of FiberTree or none.  *)
(***************************************************************************)
EXTENDS RuntimeProofs

Active(s) == pc[s] \notin {"Vacant", "Done"}
Joining(s) == pc[s] \in {"Join1", "Join2"}
InSyscall(s) == pc[s] \in {"Sys1", "Sys2"}
Pending(s) == InSyscall(s) /\ s \notin syscall_result
Ready == ToSet(ready_fibers)

\* The hierarchy: parent and children links agree and stay among the fibers
\* that have not ended.
Hierarchy ==
    /\ parent[Root] = NoFiber
    /\ \A s \in Slots : pc[s] = "Vacant" => parent[s] = NoFiber
    /\ \A s \in Slots \ {Root} : Active(s) =>
           \E p \in Slots : parent[s] = p /\ s \in children[p] /\ Active(p)
    /\ \A s \in Slots : \A c \in children[s] : Active(c) /\ parent[c] = s

\* It is one tree: whatever contains the root and the children of its members
\* contains all fibers.
Closed(S) == \A p \in S : children[p] \subseteq S
Rooted == \A S \in SUBSET Slots : Root \in S /\ Closed(S) => \A s \in Slots : Active(s) => s \in S

\* Handles: who owns one, and what the fiber it stands for may be doing.
Handles ==
    /\ handle[Root] = NoFiber /\ join_handle[Root] = Unused
    /\ \A s, h \in Slots : handle[s] = h =>
           /\ Live(s) /\ pc[s] # "Children"
           /\ Active(h) /\ pc[h] # "Children"
    /\ \A s \in Slots : join_handle[s] = Dropped => Active(s) /\ handle[s] = NoFiber

\* The agreement between a joining fiber and the fiber it joins.
Joins ==
    /\ \A s \in Slots : join_handle[s] = WaitingNone =>
           pc[s] = "Done" /\ \E h \in Slots : handle[s] = h /\ Joining(h) /\ target[h] = s
    /\ \A s, h \in Slots : join_handle[s] = h => Active(s) /\ Joining(h) /\ target[h] = s
    /\ \A s \in Slots : Joining(s) =>
           \E t \in Slots : /\ target[s] = t /\ handle[t] = s
                            /\ join_handle[t] = s \/ join_handle[t] = WaitingNone
    /\ \A s \in Slots : ~Joining(s) => target[s] = NoFiber

\* Why a fiber may run, by the park it is in.
Justified(s) ==
    /\ pc[s] = "Join1" => s \in is_cancelled \/ \A t \in Slots : target[s] = t => Completed(t)
    /\ pc[s] = "Join2" => \A t \in Slots : target[s] = t => Completed(t)
    /\ pc[s] = "Sys1" => s \in syscall_result \/ s \in is_cancelled
    /\ pc[s] = "Sys2" => s \in syscall_result
    /\ pc[s] = "Children" => children[s] = {}
    /\ Active(s)

\* The ready queue holds a fiber at most once, never the running one, and each
\* of them for a reason.
Queue ==
    /\ IsInjective(ready_fibers)
    /\ mode = "run" => running_fiber \notin Ready
    /\ \A s \in Ready : Justified(s)
    /\ \A s \in Slots : mode = "run" /\ running_fiber = s => Justified(s)

\* Cancelled fibers.
Cancellation ==
    /\ is_cancelled \subseteq LiveSet
    /\ \A s \in Slots : Completed(s) \/ pc[s] \in {"Sys2", "Join2"} => s \in is_cancelled
    /\ CancellationReaches

\* No operation is in two places of the rings.
OnePlace ==
    /\ Issued \cap inflight = {} /\ (Issued \cup inflight) \cap ToSet(cq) = {}
    /\ \A s \in Slots : \A k, l \in DOMAIN sq : sq[k] = Op(s) /\ sq[l] = Op(s) => k = l
    /\ \A s \in Slots : \A k, l \in DOMAIN cq : cq[k] = s /\ cq[l] = s => k = l

\* Each pending system call is in one place of the rings, and nothing else is.
InRings == Issued \cup inflight \cup ToSet(cq)
Rings ==
    /\ \A s \in syscall_result : InSyscall(s)
    /\ \A s \in Slots : Pending(s) <=> s \in InRings
    /\ OnePlace

\* An AsyncCancel that finds an operation finds the one it was issued for.
AsyncCancels == \A s \in cancelling \cup Found : pc[s] = "Sys2"

\* The root lives as long as the runtime runs, and everybody else ends before.
Phases ==
    /\ mode = "run" => Active(Root)
    /\ mode # "run" => \A s \in Slots : ~Active(s)
    /\ mode = "down" => mapped = Cardinality(LiveSet \ {Root})

\* Everything but the queue, and all of it.
StateInv ==
    /\ StackInv /\ Hierarchy /\ Rooted /\ Handles /\ Joins
    /\ Cancellation /\ CancelPropagates /\ Rings /\ AsyncCancels /\ Phases

RuntimeInv == StateInv /\ Queue

-----------------------------------------------------------------------------
(* The ready queue as a set. *)

\* Appending a fiber.
LEMMA AppendSet ==
    ASSUME NEW q \in Seq(Slots), NEW i \in Slots
    PROVE  /\ ToSet(Append(q, i)) = ToSet(q) \cup {i}
           /\ IsInjective(q) /\ i \notin ToSet(q) => IsInjective(Append(q, i))
  <1>1. /\ DOMAIN q = 1 .. Len(q) /\ Len(q) \in Nat
        /\ DOMAIN Append(q, i) = 1 .. Len(q) + 1
        /\ \A k \in 1 .. Len(q) : Append(q, i)[k] = q[k]
        /\ Append(q, i)[Len(q) + 1] = i
    OBVIOUS
  <1>2. ToSet(Append(q, i)) = ToSet(q) \cup {i}
    BY <1>1 DEF ToSet
  <1>3. ASSUME IsInjective(q), i \notin ToSet(q)
        PROVE  IsInjective(Append(q, i))
    BY <1>1, <1>3 DEF ToSet, IsInjective
  <1> QED
    BY <1>2, <1>3

\* Taking the first fiber out.
LEMMA TailSet ==
    ASSUME NEW q \in Seq(Slots), q # <<>>
    PROVE  /\ Head(q) \in ToSet(q)
           /\ ToSet(Tail(q)) \subseteq ToSet(q)
           /\ ToSet(q) = ToSet(Tail(q)) \cup {Head(q)}
           /\ IsInjective(q) => IsInjective(Tail(q)) /\ Head(q) \notin ToSet(Tail(q))
  <1>1. /\ DOMAIN q = 1 .. Len(q) /\ Len(q) \in Nat \ {0}
        /\ Head(q) = q[1]
        /\ DOMAIN Tail(q) = 1 .. Len(q) - 1
        /\ \A k \in 1 .. Len(q) - 1 : Tail(q)[k] = q[k + 1]
    OBVIOUS
  <1>2. Head(q) \in ToSet(q)
    BY <1>1 DEF ToSet
  <1>3. ToSet(Tail(q)) \subseteq ToSet(q)
    BY <1>1 DEF ToSet
  <1>4. ASSUME NEW x \in ToSet(q), x # Head(q)
        PROVE  x \in ToSet(Tail(q))
    <2>1. PICK k \in 1 .. Len(q) : q[k] = x
      BY <1>1 DEF ToSet
    <2>2. k - 1 \in 1 .. Len(q) - 1 /\ Tail(q)[k - 1] = x
      BY <1>1, <1>4, <2>1
    <2> QED
      BY <1>1, <2>2 DEF ToSet
  <1>5. ASSUME IsInjective(q)
        PROVE  IsInjective(Tail(q)) /\ Head(q) \notin ToSet(Tail(q))
    BY <1>1, <1>5 DEF ToSet, IsInjective
  <1> QED
    BY <1>2, <1>3, <1>4, <1>5

\* Appending the fibers of a set, each once, in some order.
LEMMA SetToSeqsSet ==
    ASSUME NEW q \in Seq(Slots), NEW W \in SUBSET Slots, NEW w \in SetToSeqs(W),
           W \cap ToSet(q) = {}
    PROVE  /\ q \o w \in Seq(Slots)
           /\ ToSet(q \o w) = ToSet(q) \cup W
           /\ IsInjective(q) => IsInjective(q \o w)
  <1> DEFINE n == Cardinality(W)
  <1>1. IsFiniteSet(W) /\ n \in Nat
    BY SlotsFinite, FS_CardinalityType
  <1>2. w \in [1 .. n -> W] /\ \A k, l \in 1 .. n : k # l => w[k] # w[l]
    BY DEF SetToSeqs
  <1>3. w \in Injection(1 .. n, W)
    BY <1>2 DEF Injection, IsInjective
  <1>4. Cardinality(1 .. n) = n
    BY <1>1, FS_Interval
  <1>5. w \in Surjection(1 .. n, W)
    BY <1>1, <1>3, <1>4, FS_Injection
  <1>6. \A x \in W : \E k \in 1 .. n : w[k] = x
    BY <1>5 DEF Surjection
  <1>7. w \in Seq(Slots) /\ Len(w) = n
    BY <1>1, <1>2
  <1> DEFINE m == Len(q)
  <1>8. /\ DOMAIN q = 1 .. m /\ m \in Nat
        /\ DOMAIN (q \o w) = 1 .. m + n
        /\ \A k \in 1 .. m : (q \o w)[k] = q[k]
        /\ \A k \in m + 1 .. m + n : (q \o w)[k] = w[k - m]
    BY <1>1, <1>7
  <1> HIDE DEF n, m
  <1>9. ToSet(q \o w) \subseteq ToSet(q) \cup W
    BY <1>1, <1>2, <1>8 DEF ToSet
  <1>10. ToSet(q) \subseteq ToSet(q \o w)
    BY <1>1, <1>8 DEF ToSet
  <1>11. ASSUME NEW x \in W PROVE x \in ToSet(q \o w)
    <2>1. PICK k \in 1 .. n : w[k] = x
      BY <1>6
    <2>2. m + k \in 1 .. m + n /\ (q \o w)[m + k] = x
      BY <1>1, <1>8, <2>1
    <2> QED
      BY <1>8, <2>2 DEF ToSet
  <1>12. ASSUME IsInjective(q) PROVE IsInjective(q \o w)
    <2>1. \A k, l \in 1 .. m : q[k] = q[l] => k = l
      BY <1>8, <1>12 DEF IsInjective
    <2>2. \A k \in 1 .. m : q[k] \notin W
      BY <1>8 DEF ToSet
    <2> SUFFICES ASSUME NEW k \in 1 .. m + n, NEW l \in 1 .. m + n, (q \o w)[k] = (q \o w)[l]
                 PROVE  k = l
      BY <1>8 DEF IsInjective
    <2>3. CASE k \in 1 .. m /\ l \in 1 .. m
      BY <1>8, <2>1, <2>3
    <2>4. CASE k \in m + 1 .. m + n /\ l \in m + 1 .. m + n
      <3>1. k - m \in 1 .. n /\ l - m \in 1 .. n /\ w[k - m] = w[l - m]
        BY <1>1, <1>8, <2>4
      <3> QED
        BY <1>1, <1>2, <1>8, <2>4, <3>1
    <2>5. CASE k \in 1 .. m /\ l \in m + 1 .. m + n
      <3>1. l - m \in 1 .. n /\ q[k] = w[l - m]
        BY <1>1, <1>8, <2>5
      <3> QED
        BY <1>2, <2>2, <2>5, <3>1
    <2>6. CASE l \in 1 .. m /\ k \in m + 1 .. m + n
      <3>1. k - m \in 1 .. n /\ q[l] = w[k - m]
        BY <1>1, <1>8, <2>6
      <3> QED
        BY <1>2, <2>2, <2>6, <3>1
    <2> QED
      BY <1>1, <1>8, <2>3, <2>4, <2>5, <2>6
  <1> QED
    BY <1>7, <1>9, <1>10, <1>11, <1>12

\* What cancel appends: every fiber of W, once.
LEMMA VisitOrderSet ==
    ASSUME NEW q \in Seq(Slots), NEW W \in SUBSET Slots, NEW w \in InVisitOrder(W),
           W \cap ToSet(q) = {}
    PROVE  /\ ToSet(q \o w) = ToSet(q) \cup W
           /\ IsInjective(q) => IsInjective(q \o w)
  BY SetToSeqsSet DEF InVisitOrder

\* Waker::schedule_with adds a fiber, once.
LEMMA ScheduleSet ==
    ASSUME NEW q \in Seq(Slots), NEW i \in Slots
    PROVE  /\ ToSet(Schedule(q, i)) = ToSet(q) \cup {i}
           /\ IsInjective(q) => IsInjective(Schedule(q, i))
  <1>1. CASE Contains(q, i)
    BY <1>1 DEF Schedule, Contains, ToSet
  <1>2. CASE ~Contains(q, i)
    <2>1. Schedule(q, i) = Append(q, i) /\ i \notin ToSet(q)
      BY <1>2 DEF Schedule, Contains, ToSet
    <2> QED
      BY <2>1, AppendSet
  <1> QED
    BY <1>1, <1>2

-----------------------------------------------------------------------------
(* What keeps a part of the invariant in general. *)

\* Nothing happens to the rings as long as no fiber enters or leaves a system
\* call.
LEMMA RingsFrame ==
    ASSUME TypeOK, Rings, AsyncCancels, UNCHANGED interfaceVars,
           \A s \in Slots : \/ pc'[s] = pc[s]
                            \/ pc[s] \notin {"Sys1", "Sys2"} /\ pc'[s] \notin {"Sys1", "Sys2"},
           syscall_result' = syscall_result
    PROVE  Rings' /\ AsyncCancels'
  <1>1. inflight \subseteq Slots /\ cancelling \subseteq Slots /\ syscall_result \subseteq Slots
    BY DEF TypeOK, InterfaceTypeOK
  <1>2. UNCHANGED <<sq, inflight, cancelling, cq>>
    BY DEF interfaceVars
  <1>3. Issued' = Issued /\ Found' = Found /\ Found \subseteq Slots
    BY <1>2 DEF Issued, Found
  <1>4. \A s \in Slots : (InSyscall(s)' <=> InSyscall(s)) /\ (Pending(s)' <=> Pending(s))
    BY DEF InSyscall, Pending
  <1>5. Rings'
    BY <1>1, <1>2, <1>3, <1>4 DEF Rings, InRings, OnePlace
  <1>6. AsyncCancels'
    BY <1>1, <1>2, <1>3 DEF AsyncCancels
  <1> QED
    BY <1>5, <1>6

\* The types of a fiber's fields.
LEMMA SlotTypes ==
    ASSUME TypeOK
    PROVE  \A s \in Slots : /\ pc[s] \in Labels
                            /\ parent[s] \in Slots \cup {NoFiber}
                            /\ children[s] \subseteq Slots
                            /\ join_handle[s] \in Slots \cup {Unused, Dropped, WaitingNone}
                            /\ target[s] \in Slots \cup {NoFiber}
                            /\ handle[s] \in Slots \cup {NoFiber}
  BY DEF TypeOK

\* Removing a slab entry that is in no system call does not change the results.
LEMMA FreeResult ==
    ASSUME Rings, NEW j \in Slots, pc[j] \notin {"Sys1", "Sys2"}
    PROVE  syscall_result \ {j} = syscall_result
  BY DEF Rings, InSyscall

\* The tree stays one tree when no link and no fiber is added.
LEMMA RootedFrame ==
    ASSUME Rooted, children' = children,
           \A s \in Slots : Active(s)' => Active(s)
    PROVE  Rooted'
  BY DEF Rooted, Closed

\* Fibers are queued.
LEMMA ReadySlots ==
    ASSUME TypeOK
    PROVE  Ready \subseteq Slots
  BY DEF TypeOK, Ready, ToSet

\* The parts of Queue after a step, fiber by fiber.
LEMMA QueueParts ==
    ASSUME TypeOK', IsInjective(ready_fibers'), mode' = "run" => running_fiber' \notin Ready',
           \A s \in Slots : s \in Ready' => Justified(s)',
           \A s \in Slots : mode' = "run" /\ running_fiber' = s => Justified(s)'
    PROVE  Queue'
  <1>1. Ready' \subseteq Slots
    BY DEF TypeOK, Ready, ToSet
  <1> QED
    BY <1>1 DEF Queue

\* The owner of a handle that is being joined is the fiber that joins.
LEMMA JoinOwner ==
    ASSUME TypeOK, Joins
    PROVE  \A s \in Slots : join_handle[s] \in Slots \cup {WaitingNone} =>
               handle[s] \in Slots /\ Joining(handle[s]) /\ target[handle[s]] = s
  BY DEF TypeOK, Joins

\* A completed fiber has no children.
LEMMA NoLinksFromEnded ==
    ASSUME TypeOK, Hierarchy
    PROVE  \A s \in Slots : ~Active(s) => children[s] = {}
  BY SlotsFacts DEF TypeOK, Hierarchy

\* cancel visits r and whatever is below it.
LEMMA SubtreeFacts ==
    ASSUME TypeOK, NEW r \in Slots
    PROVE  /\ Subtree(r) \subseteq Slots /\ r \in Subtree(r)
           /\ Closed(Subtree(r))
           /\ \A S \in SUBSET Slots : r \in S /\ Closed(S) => Subtree(r) \subseteq S
  BY DEF Subtree, Closed, TypeOK

\* Below r, along the parent links.
LEMMA DescendantsFacts ==
    ASSUME TypeOK, NEW r \in Slots
    PROVE  /\ Descendants(r) \subseteq Slots /\ r \in Descendants(r)
           /\ \A c \in Slots : parent[c] \in Descendants(r) => c \in Descendants(r)
           /\ \A S \in SUBSET Slots :
                  r \in S /\ (\A c \in Slots : parent[c] \in S => c \in S) => Descendants(r) \subseteq S
  BY DEF Descendants

\* Who runs is cancelled, or may be anything its label allows; the root and
\* the fibers in a tree that is cancelled stay so.
LEMMA PropagationFrame ==
    ASSUME TypeOK, CancelPropagates, parent' = parent,
           is_cancelled \subseteq is_cancelled',
           \A s \in is_cancelled' : s \in is_cancelled \/ Completed(s)',
           \A s \in Slots : Completed(s) => Completed(s)'
    PROVE  CancelPropagates'
  <1>1. \A s \in Slots : Descendants(s)' = Descendants(s)
    BY DEF Descendants
  <1> QED
    BY <1>1 DEF CancelPropagates, TypeOK

-----------------------------------------------------------------------------
(* The actions. *)

\* start: the root is the first fiber.
LEMMA StartKeeps ==
    ASSUME RuntimeInv, StackInv', Start
    PROVE  RuntimeInv'
  <1>1. /\ TypeOK /\ Hierarchy /\ Rooted /\ Handles /\ Joins /\ Queue /\ Cancellation
        /\ CancelPropagates /\ Rings /\ AsyncCancels /\ Phases
    BY DEF RuntimeInv, StateInv, StackInv
  <1>2. /\ mode = "idle" /\ \A s \in Slots : pc[s] = "Vacant"
        /\ mode' = "run" /\ running_fiber' = Root /\ pc' = [pc EXCEPT ![Root] = "User"]
        /\ UNCHANGED <<interfaceVars, parent, children, join_handle, is_cancelled, syscall_result,
                       target, handle, ready_fibers>>
        /\ Root \in Slots
    BY SlotsFacts DEF Start, RuntimeInv, StateInv, StackInv, ModeKnown
  <1>3. Ready = {}
    BY <1>1, <1>2 DEF Queue, Justified, Active, Ready, TypeOK, ToSet
  <1>4. Hierarchy'
    BY <1>1, <1>2 DEF TypeOK, Hierarchy, Active
  <1>5. Rooted'
    BY <1>1, <1>2 DEF TypeOK, Rooted, Closed, Active
  <1>6. Handles' /\ Joins'
    BY <1>1, <1>2 DEF TypeOK, Handles, Joins, Joining, Active, Live
  <1>7. Queue'
    BY <1>1, <1>2, <1>3 DEF TypeOK, Queue, Justified, Ready, Completed, Active
  <1>8. Cancellation'
    BY <1>1, <1>2 DEF TypeOK, Cancellation, CancellationReaches, Scheduled, LiveSet, Live, Completed
  <1>9. CancelPropagates'
    BY <1>1, <1>2, PropagationFrame DEF TypeOK, Completed
  <1>10. Rings' /\ AsyncCancels'
    BY <1>1, <1>2, RingsFrame DEF TypeOK
  <1>11. Phases'
    BY <1>1, <1>2 DEF TypeOK, Phases, Active
  <1> QED
    BY <1>4, <1>5, <1>6, <1>7, <1>8, <1>9, <1>10, <1>11 DEF RuntimeInv, StateInv

\* spawn: a new fiber below the running one.
LEMMA SpawnKeeps ==
    ASSUME RuntimeInv, StackInv', NEW i \in Slots, NEW c \in Slots, NEW moved \in SUBSET Held(i),
           Spawn(i, c, moved)
    PROVE  RuntimeInv'
  <1>1. /\ TypeOK /\ Hierarchy /\ Rooted /\ Handles /\ Joins /\ Queue /\ Cancellation
        /\ CancelPropagates /\ Rings /\ AsyncCancels /\ Phases
    BY DEF RuntimeInv, StateInv, StackInv
  <1>2. /\ mode = "run" /\ running_fiber = i /\ pc[i] = "User" /\ pc[c] = "Vacant" /\ c # i
        /\ pc' = [pc EXCEPT ![c] = "User"]
        /\ is_cancelled' = IF i \in is_cancelled THEN is_cancelled \cup {c} ELSE is_cancelled
        /\ ready_fibers' = Append(ready_fibers, c)
        /\ children' = [children EXCEPT ![i] = @ \cup {c}]
        /\ parent' = [parent EXCEPT ![c] = i]
        /\ handle' = [j \in Slots |-> IF j = c THEN i ELSE IF j \in moved THEN c ELSE handle[j]]
        /\ UNCHANGED <<interfaceVars, mode, join_handle, syscall_result, target, running_fiber>>
    BY DEF Spawn, At
  <1>14. c # Root /\ ~Active(c) /\ ~Live(c) /\ ~Joining(c)
    BY <1>1, <1>2 DEF Phases, Active, Live, Joining
  <1>15. c \notin Ready /\ c \notin is_cancelled
    BY <1>1, <1>14 DEF Queue, Justified, Cancellation, LiveSet
  <1>16. handle[c] = NoFiber
    BY <1>1, <1>14, SlotTypes DEF Handles
  <1>17. join_handle[c] = Unused
    <2>1. join_handle[c] # Dropped
      BY <1>1, <1>14 DEF Handles
    <2>2. join_handle[c] # WaitingNone
      BY <1>1, <1>2 DEF Joins
    <2>3. join_handle[c] \notin Slots
      BY <1>1, <1>14 DEF Joins
    <2> QED
      BY <1>1, <2>1, <2>2, <2>3, SlotTypes
  <1>18. target[c] = NoFiber
    BY <1>1, <1>14 DEF Joins
  <1>3. /\ c \notin Ready /\ c \notin is_cancelled /\ c # Root /\ handle[c] = NoFiber
        /\ join_handle[c] = Unused /\ target[c] = NoFiber
    BY <1>14, <1>15, <1>16, <1>17, <1>18
  <1>4. Ready' = Ready \cup {c} /\ IsInjective(ready_fibers')
    BY <1>1, <1>2, <1>3, AppendSet DEF Ready, TypeOK, Queue
  <1>5. Hierarchy'
    BY <1>1, <1>2, <1>3 DEF TypeOK, Hierarchy, Active
  <1>6. Rooted'
    <2>1. /\ \A s \in Slots : children[s] \subseteq children'[s]
          /\ c \in children'[i]
          /\ \A s \in Slots \ {c} : Active(s)' <=> Active(s)
          /\ Active(i)
      BY <1>1, <1>2 DEF TypeOK, Active
    <2>2. ASSUME NEW S \in SUBSET Slots, Root \in S, Closed(S)', NEW s \in Slots, Active(s)'
          PROVE  s \in S
      <3>1. \A p \in S : children'[p] \subseteq S
        BY <2>2 DEF Closed
      <3>2. Closed(S)
        BY <2>1, <3>1 DEF Closed
      <3>3. \A t \in Slots : Active(t) => t \in S
        BY <1>1, <2>2, <3>2 DEF Rooted
      <3> QED
        BY <2>1, <2>2, <3>1, <3>3
    <2> QED
      BY <2>2 DEF Rooted
  <1>7. Handles'
    BY <1>1, <1>2, <1>3, SlotsFacts DEF TypeOK, Handles, Active, Live, Held
  <1>10. Joins'
    <2>1. \A s \in Slots : join_handle[s] \in Slots \cup {WaitingNone} => handle[s] # i /\ s # c
      BY <1>1, <1>2, <1>3, JoinOwner, SlotsFacts DEF Joining
    <2>2. \A s \in Slots : join_handle[s] \in Slots \cup {WaitingNone} => handle'[s] = handle[s]
      BY <1>1, <1>2, <2>1 DEF Held
    <2>3. \A s \in Slots : Joining(s) => target[s] \in Slots /\ handle'[target[s]] = s
      BY <1>1, <1>2, <2>2 DEF Joins
    <2>4. \A s \in Slots : Joining(s)' <=> Joining(s)
      BY <1>1, <1>2 DEF TypeOK, Joining
    <2>5. \A s \in Slots : /\ Active(s) => Active(s)'
                           /\ pc[s] = "Done" => pc'[s] = "Done"
      BY <1>1, <1>2 DEF TypeOK, Active
    <2> QED
      BY <1>1, <1>2, <2>2, <2>3, <2>4, <2>5 DEF TypeOK, Joins
  <1>8. Queue'
    BY <1>1, <1>2, <1>3, <1>4 DEF TypeOK, Queue, Justified, Completed, Active
  <1>9. Cancellation'
    BY <1>1, <1>2, <1>3, <1>4
    DEF TypeOK, Cancellation, CancellationReaches, Scheduled, LiveSet, Live, Completed, Ready, Handles, Joins, Joining
  <1>11. Rings' /\ AsyncCancels'
    BY <1>1, <1>2, RingsFrame DEF TypeOK
  <1>12. Phases'
    BY <1>1, <1>2 DEF TypeOK, Phases, Active
  <1>13. CancelPropagates'
    <2> DEFINE Ended == {s \in Slots : pc[s] = "Done"}
    <2>1. Ended \subseteq is_cancelled /\ i \notin Ended /\ c \notin Ended
      BY <1>1, <1>2 DEF Cancellation, Completed
    <2>2. ASSUME NEW x \in Slots, parent[x] \in Ended \cup {c}
          PROVE  x \in Ended
      <3>1. parent[x] \in Slots /\ ~Active(parent[x])
        BY <1>14, <2>2 DEF Active
      <3>2. x # Root /\ pc[x] # "Vacant"
        BY <1>1, <3>1, SlotsFacts DEF Hierarchy
      <3>3. ~Active(x)
        BY <1>1, <3>1, <3>2 DEF Hierarchy
      <3> QED
        BY <3>2, <3>3 DEF Active
    <2>3. \A x \in Slots : parent'[x] = IF x = c THEN i ELSE parent[x]
      BY <1>1, <1>2 DEF TypeOK
    <2>4. ASSUME NEW S \in SUBSET Slots, NEW s \in S,
                 \A x \in Slots : parent'[x] \in S => x \in S, S \subseteq is_cancelled'
          PROVE  Descendants(s)' \subseteq is_cancelled'
      BY <2>4 DEF Descendants
    <2> SUFFICES ASSUME NEW s \in is_cancelled', ~Completed(s)'
                 PROVE  Descendants(s)' \subseteq is_cancelled'
      BY DEF CancelPropagates
    <2> DEFINE D == Descendants(s)
    <2>5. CASE s = c
      <3> DEFINE S == Ended \cup {c}
      <3>1. \A x \in Slots : parent'[x] \in S => x \in S
        BY <2>2, <2>3
      <3>2. S \subseteq Slots /\ s \in S /\ S \subseteq is_cancelled'
        BY <1>2, <2>1, <2>5
      <3> HIDE DEF S
      <3> QED
        BY <2>4, <3>1, <3>2
    <2>6. CASE s # c
      <3>1. s \in is_cancelled /\ ~Completed(s) /\ s \in Slots
        BY <1>1, <1>2, <2>6 DEF TypeOK, Completed
      <3>2. D \subseteq is_cancelled
        BY <1>1, <3>1 DEF CancelPropagates
      <3>3. /\ D \subseteq Slots /\ s \in D
            /\ \A x \in Slots : parent[x] \in D => x \in D
        BY <1>1, <3>1, DescendantsFacts
      <3> HIDE DEF D, Ended
      <3>4. CASE i \in D
        <4> DEFINE S == D \cup Ended \cup {c}
        <4>1. S \subseteq is_cancelled'
          BY <1>2, <2>1, <3>2, <3>4
        <4>2. \A x \in Slots : parent'[x] \in S => x \in S
          BY <2>2, <2>3, <3>3
        <4>3. S \subseteq Slots /\ s \in S
          BY <3>3 DEF Ended
        <4> HIDE DEF S
        <4> QED
          BY <2>4, <4>1, <4>2, <4>3
      <3>5. CASE i \notin D
        <4>1. \A x \in Slots : parent'[x] \in D \cup Ended => x \in D \cup Ended
          BY <2>1, <2>2, <2>3, <3>3, <3>5
        <4> QED
          BY <1>2, <2>1, <2>4, <3>2, <3>3, <4>1 DEF Ended
      <3> QED
        BY <3>4, <3>5
    <2> QED
      BY <2>5, <2>6
  <1> QED
    BY <1>4, <1>5, <1>6, <1>7, <1>8, <1>9, <1>10, <1>11, <1>12, <1>13 DEF RuntimeInv, StateInv

\* Removing slab entry j, when the cancelled fibers are those in C.
LEMMA PropagationFree ==
    ASSUME TypeOK, NEW C \in SUBSET Slots, NEW j \in Slots,
           \A s \in C \ {j} : ~Completed(s) => Descendants(s) \subseteq C,
           is_cancelled' = C \ {j}, parent' = [parent EXCEPT ![j] = NoFiber],
           \A s \in Slots \ {j} : Completed(s) => Completed(s)'
    PROVE  CancelPropagates'
  <1> SUFFICES ASSUME NEW s \in C \ {j}, ~Completed(s)'
               PROVE  Descendants(s)' \subseteq C \ {j}
    BY DEF CancelPropagates
  <1> DEFINE D == Descendants(s) \ {j}
  <1>1. ~Completed(s) /\ Descendants(s) \subseteq C /\ s \in Slots
    OBVIOUS
  <1>2. \A x \in Slots : parent'[x] = IF x = j THEN NoFiber ELSE parent[x]
    BY DEF TypeOK
  <1>3. D \subseteq Slots /\ s \in D /\ \A x \in Slots : parent'[x] \in D => x \in D
    BY <1>1, <1>2, DescendantsFacts, SlotsFacts
  <1> HIDE DEF D
  <1>4. Descendants(s)' \subseteq D
    BY <1>3 DEF Descendants
  <1> QED
    BY <1>1, <1>4 DEF D

\* Cancelling the fibers below r.
LEMMA PropagationSubtree ==
    ASSUME TypeOK, Hierarchy, Cancellation, CancelPropagates, NEW r \in Slots
    PROVE  \A s \in is_cancelled \cup Subtree(r) :
               ~Completed(s) => Descendants(s) \subseteq is_cancelled \cup Subtree(r)
  <1> DEFINE Ended == {x \in Slots : pc[x] = "Done"}
             T == Subtree(r) \cup Ended
  <1> SUFFICES ASSUME NEW s \in Subtree(r), s \notin is_cancelled, ~Completed(s)
               PROVE  Descendants(s) \subseteq is_cancelled \cup Subtree(r)
    BY DEF CancelPropagates
  <1>1. Ended \subseteq is_cancelled
    BY DEF Cancellation, Completed
  <1>2. Subtree(r) \subseteq Slots /\ \A p \in Subtree(r) : children[p] \subseteq Subtree(r)
    BY SubtreeFacts DEF Closed
  <1>3. ASSUME NEW x \in Slots, parent[x] \in T PROVE x \in T
    <2>1. parent[x] \in Slots /\ x # Root /\ pc[x] # "Vacant"
      BY <1>2, <1>3, SlotsFacts DEF Hierarchy
    <2>2. CASE pc[x] = "Done"
      BY <2>2
    <2>3. CASE pc[x] # "Done"
      BY <1>2, <1>3, <2>1, <2>3 DEF Hierarchy, Active
    <2> QED
      BY <2>2, <2>3
  <1>4. T \subseteq Slots /\ s \in T
    BY <1>2
  <1> HIDE DEF T
  <1>5. Descendants(s) \subseteq T
    BY <1>2, <1>3, <1>4, DescendantsFacts
  <1> QED
    BY <1>1, <1>5 DEF T

\* Dropping the handle of j, at the end of join or by itself.
LEMMA ReleaseKeeps ==
    ASSUME RuntimeInv, StackInv', NEW i \in Slots, NEW j \in Slots,
           mode = "run", running_fiber = i, handle[j] = i,
           \/ pc[i] = "User"
           \/ pc[i] \in {"Join1", "Join2"} /\ target[i] = j,
           Release(j, [pc EXCEPT ![i] = "User"]), target' = [target EXCEPT ![i] = NoFiber],
           UNCHANGED <<interfaceVars, mode, schedVars>>
    PROVE  RuntimeInv'
  <1> DEFINE user == [pc EXCEPT ![i] = "User"]
  <1>1. /\ TypeOK /\ Hierarchy /\ Rooted /\ Handles /\ Joins /\ Queue /\ Cancellation
        /\ CancelPropagates /\ Rings /\ AsyncCancels /\ Phases
    BY DEF RuntimeInv, StateInv, StackInv
  <1>2. /\ Live(j) /\ pc[j] # "Children" /\ j # Root
        /\ join_handle[j] # Dropped
        /\ pc[j] = "Done" => i # j
    BY <1>1, SlotsFacts DEF Handles
  <1>3. join_handle[j] = Unused \/ target[i] = j
    BY <1>1, <1>2, JoinOwner DEF TypeOK, Joining
  <1>4. UNCHANGED <<ready_fibers, running_fiber>> /\ Ready' = Ready
    BY DEF schedVars, Ready
  <1>5. handle' = [handle EXCEPT ![j] = NoFiber]
    BY DEF Release
  <1>6. \A s \in Slots : s # i /\ Joining(s) => target[s] # j
    BY <1>1 DEF Joins
  <1>12. Joining(i) => target[i] = j
    BY DEF Joining
  <1>13. TypeOK' /\ Ready \subseteq Slots
    BY <1>1 DEF StackInv, TypeOK, Ready, ToSet
  <1>7. \A s \in Slots : user[s] = IF s = i THEN "User" ELSE pc[s]
    BY <1>1 DEF TypeOK
  <1>8. \A s \in Slots : target'[s] = IF s = i THEN NoFiber ELSE target[s]
    BY <1>1 DEF TypeOK
  <1>9. \A s \in Slots : handle'[s] = IF s = j THEN NoFiber ELSE handle[s]
    BY <1>1, <1>5 DEF TypeOK
  <1>10. CASE pc[j] = "Done"
    <2>1. Free(j, user, children, is_cancelled)
      BY <1>10 DEF Release, Completed
    <2> HIDE DEF user
    <2>2. /\ \A s \in Slots : pc'[s] = IF s = j THEN "Vacant" ELSE IF s = i THEN "User" ELSE pc[s]
          /\ \A s \in Slots : parent'[s] = IF s = j THEN NoFiber ELSE parent[s]
          /\ \A s \in Slots : join_handle'[s] = IF s = j THEN Unused ELSE join_handle[s]
          /\ is_cancelled' = is_cancelled \ {j}
      BY <1>1, <1>7, <2>1 DEF Free, TypeOK, user
    <2>3. children' = children
      <3>1. children[j] = {}
        BY <1>1, <1>10, NoLinksFromEnded DEF Active
      <3> QED
        BY <1>1, <2>1, <3>1 DEF Free, TypeOK
    <2>4. syscall_result' = syscall_result
      BY <1>1, <1>10, <2>1, FreeResult DEF Free
    <2>5. j \notin Ready
      BY <1>1, <1>10 DEF Queue, Justified, Active
    <2>15. /\ \A s \in Slots : Active(s)' <=> Active(s)
           /\ \A s \in Slots : Joining(s)' <=> Joining(s) /\ s # i
           /\ \A s \in Slots : Completed(s)' <=> Completed(s) /\ s # j
           /\ \A s \in Slots : Live(s)' <=> Live(s) /\ s # j
      BY <1>2, <1>10, <2>2 DEF Active, Joining, Completed, Live
    <2>6. Hierarchy'
      <3>1. \A s \in Slots : pc'[s] = "Vacant" => parent'[s] = NoFiber
        BY <1>1, <2>2 DEF Hierarchy
      <3>2. \A s \in Slots : Active(s) => parent'[s] = parent[s]
        BY <1>10, <2>2 DEF Active
      <3>3. parent'[Root] = NoFiber
        BY <1>1, <1>2, <2>2, SlotsFacts DEF Hierarchy
      <3>4. \A s \in Slots \ {Root} : Active(s)' =>
                \E p \in Slots : parent'[s] = p /\ s \in children'[p] /\ Active(p)'
        BY <1>1, <2>3, <2>15, <3>2 DEF Hierarchy
      <3>5. \A s \in Slots : \A c \in children'[s] : Active(c)' /\ parent'[c] = s
        BY <1>13, <1>1, <2>3, <2>15, <3>2 DEF TypeOK, Hierarchy
      <3> QED
        BY <3>1, <3>3, <3>4, <3>5 DEF Hierarchy
    <2>7. Rooted'
      BY <1>1, <1>2, <2>2, <2>3, RootedFrame DEF Active
    <2>8. Handles'
      <3>1. handle'[Root] = NoFiber /\ join_handle'[Root] = Unused
        BY <1>1, <1>2, <1>9, <2>2, SlotsFacts DEF Handles
      <3>2. ASSUME NEW s \in Slots, NEW h \in Slots, handle'[s] = h
            PROVE  /\ Live(s)' /\ pc'[s] # "Children"
                   /\ Active(h)' /\ pc'[h] # "Children"
        <4>1. s # j /\ handle[s] = h
          BY <1>9, <3>2, SlotsFacts
        <4> QED
          BY <1>1, <2>2, <2>15, <4>1 DEF Handles
      <3>3. ASSUME NEW s \in Slots, join_handle'[s] = Dropped
            PROVE  Active(s)' /\ handle'[s] = NoFiber
        <4>1. join_handle[s] = Dropped
          BY <2>2, <3>3 DEF Unused, Dropped
        <4> QED
          BY <1>1, <1>9, <2>15, <4>1 DEF Handles
      <3> QED
        BY <3>1, <3>2, <3>3 DEF Handles
    <2>9. Joins'
      <3>1. ASSUME NEW s \in Slots, join_handle'[s] = WaitingNone
            PROVE  /\ pc'[s] = "Done"
                   /\ \E h \in Slots : handle'[s] = h /\ Joining(h)' /\ target'[h] = s
        <4>1. s # j /\ join_handle[s] = WaitingNone
          BY <2>2, <3>1 DEF Unused, WaitingNone
        <4>2. PICK h \in Slots : handle[s] = h /\ Joining(h) /\ target[h] = s
          BY <1>1, <4>1 DEF Joins
        <4>3. pc[s] = "Done" /\ h # i
          BY <1>1, <1>12, <4>1, <4>2 DEF Joins
        <4>4. handle'[s] = h /\ Joining(h)' /\ target'[h] = s
          BY <1>8, <1>9, <2>15, <4>1, <4>2, <4>3
        <4>5. pc'[s] = "Done"
          BY <1>1, <2>2, <4>1, <4>2, <4>3 DEF Joining
        <4> QED
          BY <4>4, <4>5
      <3>2. ASSUME NEW s \in Slots, NEW h \in Slots, join_handle'[s] = h
            PROVE  Active(s)' /\ Joining(h)' /\ target'[h] = s
        <4>1. s # j /\ join_handle[s] = h
          BY <2>2, <3>2, SlotsFacts
        <4> QED
          BY <1>1, <1>8, <1>12, <2>15, <4>1 DEF Joins
      <3>3. ASSUME NEW s \in Slots, Joining(s)'
            PROVE  \E t \in Slots : /\ target'[s] = t /\ handle'[t] = s
                                    /\ join_handle'[t] = s \/ join_handle'[t] = WaitingNone
        <4>1. Joining(s) /\ s # i
          BY <2>15, <3>3
        <4>2. PICK t \in Slots : /\ target[s] = t /\ handle[t] = s
                                 /\ join_handle[t] = s \/ join_handle[t] = WaitingNone
          BY <1>1, <4>1 DEF Joins
        <4>3. t # j
          BY <1>6, <4>1, <4>2
        <4> QED
          BY <1>8, <1>9, <2>2, <4>1, <4>2, <4>3
      <3>4. \A s \in Slots : ~Joining(s)' => target'[s] = NoFiber
        BY <1>1, <1>8, <2>15 DEF Joins
      <3> QED
        BY <3>1, <3>2, <3>3, <3>4 DEF Joins
    <2>10. Queue'
      <3>1. ASSUME NEW s \in Slots, s # i, s # j, Justified(s) PROVE Justified(s)'
        <4>1. pc[s] \in {"Join1", "Join2"} => target'[s] = target[s] /\ target[s] \in Slots \ {j}
          BY <1>1, <1>6, <1>8, <3>1 DEF Joins, Joining
        <4> QED
          BY <2>2, <2>3, <2>4, <2>15, <3>1, <4>1 DEF Justified
      <3>2. Justified(i)'
        BY <1>2, <1>10, <2>2 DEF Justified, Active
      <3> QED
        BY <1>1, <1>4, <1>13, <2>5, <3>1, <3>2, QueueParts DEF Queue
    <2>11. Cancellation'
      BY <1>1, <1>2, <1>4, <1>6, <1>8, <2>2, <2>5, <2>15
      DEF TypeOK, Cancellation, CancellationReaches, Scheduled, LiveSet, Joining, Ready
    <2>12. CancelPropagates'
      <3>1. parent' = [parent EXCEPT ![j] = NoFiber]
        BY <2>1 DEF Free
      <3>2. \A s \in is_cancelled : ~Completed(s) => Descendants(s) \subseteq is_cancelled
        BY <1>1 DEF CancelPropagates
      <3>3. is_cancelled \in SUBSET Slots
        BY <1>1 DEF TypeOK
      <3> QED
        BY <1>1, <2>2, <2>15, <3>1, <3>2, <3>3, PropagationFree
    <2>13. Rings' /\ AsyncCancels'
      BY <1>1, <1>10, <2>2, <2>4, RingsFrame
    <2>14. Phases'
      BY <1>1, <2>15, SlotsFacts DEF Phases
    <2> QED
      BY <2>6, <2>7, <2>8, <2>9, <2>10, <2>11, <2>12, <2>13, <2>14 DEF RuntimeInv, StateInv
  <1>11. CASE pc[j] # "Done"
    <2>1. /\ pc' = user /\ join_handle' = [join_handle EXCEPT ![j] = Dropped]
          /\ UNCHANGED <<parent, children, is_cancelled, syscall_result>>
      BY <1>2, <1>11 DEF Release, Completed
    <2> HIDE DEF user
    <2>2. /\ \A s \in Slots : pc'[s] = IF s = i THEN "User" ELSE pc[s]
          /\ \A s \in Slots : join_handle'[s] = IF s = j THEN Dropped ELSE join_handle[s]
      BY <1>1, <1>7, <2>1 DEF TypeOK
    <2>12. /\ \A s \in Slots : Active(s)' <=> Active(s)
           /\ \A s \in Slots : Joining(s)' <=> Joining(s) /\ s # i
           /\ \A s \in Slots : Completed(s)' <=> Completed(s)
           /\ \A s \in Slots : Live(s)' <=> Live(s)
      BY <1>2, <2>2 DEF Active, Joining, Completed, Live
    <2>3. Hierarchy'
      <3>1. \A s \in Slots : pc'[s] = "Vacant" => pc[s] = "Vacant"
        BY <2>2
      <3> QED
        BY <1>1, <2>1, <2>12, <3>1 DEF Hierarchy, TypeOK
    <2>4. Rooted'
      BY <1>1, <2>1, <2>2, RootedFrame DEF Active
    <2>5. Handles'
      <3>1. Active(j)
        BY <1>2, <1>11 DEF Live, Active
      <3> QED
        BY <1>1, <1>2, <1>9, <1>11, <2>2, <2>12, <3>1, SlotsFacts DEF TypeOK, Handles
    <2>6. Joins'
      <3>1. ASSUME NEW s \in Slots, join_handle'[s] = WaitingNone
            PROVE  /\ pc'[s] = "Done"
                   /\ \E h \in Slots : handle'[s] = h /\ Joining(h)' /\ target'[h] = s
        <4>1. s # j /\ join_handle[s] = WaitingNone
          BY <2>2, <3>1 DEF Dropped, WaitingNone
        <4>2. PICK h \in Slots : handle[s] = h /\ Joining(h) /\ target[h] = s
          BY <1>1, <4>1 DEF Joins
        <4>3. pc[s] = "Done" /\ h # i
          BY <1>1, <1>12, <4>1, <4>2 DEF Joins
        <4>4. handle'[s] = h /\ Joining(h)' /\ target'[h] = s
          BY <1>8, <1>9, <2>12, <4>1, <4>2, <4>3
        <4>5. pc'[s] = "Done"
          BY <1>1, <2>2, <4>1, <4>2, <4>3 DEF Joining
        <4> QED
          BY <4>4, <4>5
      <3>2. ASSUME NEW s \in Slots, NEW h \in Slots, join_handle'[s] = h
            PROVE  Active(s)' /\ Joining(h)' /\ target'[h] = s
        <4>1. s # j /\ join_handle[s] = h
          BY <2>2, <3>2, SlotsFacts
        <4> QED
          BY <1>1, <1>8, <1>12, <2>12, <4>1 DEF Joins
      <3>3. ASSUME NEW s \in Slots, Joining(s)'
            PROVE  \E t \in Slots : /\ target'[s] = t /\ handle'[t] = s
                                    /\ join_handle'[t] = s \/ join_handle'[t] = WaitingNone
        <4>1. Joining(s) /\ s # i
          BY <2>12, <3>3
        <4>2. PICK t \in Slots : /\ target[s] = t /\ handle[t] = s
                                 /\ join_handle[t] = s \/ join_handle[t] = WaitingNone
          BY <1>1, <4>1 DEF Joins
        <4>3. t # j
          BY <1>6, <4>1, <4>2
        <4> QED
          BY <1>8, <1>9, <2>2, <4>1, <4>2, <4>3
      <3>4. \A s \in Slots : ~Joining(s)' => target'[s] = NoFiber
        BY <1>1, <1>8, <2>12 DEF Joins
      <3> QED
        BY <3>1, <3>2, <3>3, <3>4 DEF Joins
    <2>7. Queue'
      <3>1. ASSUME NEW s \in Slots, s # i, Justified(s) PROVE Justified(s)'
        <4>1. pc[s] \in {"Join1", "Join2"} => target'[s] = target[s] /\ target[s] \in Slots
          BY <1>1, <1>6, <1>8, <3>1 DEF Joins, Joining
        <4> QED
          BY <2>1, <2>2, <2>12, <3>1, <4>1 DEF Justified
      <3>2. Justified(i)'
        BY <1>2, <2>2 DEF Justified, Active
      <3> QED
        BY <1>1, <1>4, <1>13, <3>1, <3>2, QueueParts DEF Queue
    <2>8. Cancellation'
      BY <1>1, <1>2, <1>4, <1>8, <2>1, <2>2, <2>12
      DEF TypeOK, Cancellation, CancellationReaches, Scheduled, LiveSet, Joining, Ready
    <2>9. CancelPropagates'
      BY <1>1, <2>1, <2>2, PropagationFrame DEF Completed, TypeOK
    <2>10. Rings' /\ AsyncCancels'
      BY <1>1, <2>1, <2>2, RingsFrame
    <2>11. Phases'
      BY <1>1, <2>12, SlotsFacts DEF Phases
    <2> QED
      BY <2>3, <2>4, <2>5, <2>6, <2>7, <2>8, <2>9, <2>10, <2>11 DEF RuntimeInv, StateInv
  <1> QED
    BY <1>10, <1>11

\* A step in which fibers only change their label, and neither end nor enter or
\* leave a join, keeps the structure.
LEMMA StructureFrame ==
    ASSUME StateInv, TypeOK', mode = "run",
           UNCHANGED <<mode, parent, children, handle, join_handle, target>>,
           \A s \in Slots : \/ pc'[s] = pc[s]
                            \/ /\ pc[s] \in {"User", "Parked", "Sys1", "Sys2"}
                               /\ pc'[s] \in {"User", "Parked", "Sys1", "Sys2"}
                            \/ pc[s] = "Join1" /\ pc'[s] = "Join2"
    PROVE  /\ Hierarchy' /\ Rooted' /\ Handles' /\ Joins' /\ Phases'
           /\ \A s \in Slots : /\ Active(s)' <=> Active(s)
                               /\ Joining(s)' <=> Joining(s)
                               /\ Completed(s)' <=> Completed(s)
                               /\ Live(s)' <=> Live(s)
                               /\ pc'[s] = "Done" <=> pc[s] = "Done"
                               /\ pc'[s] = "Children" <=> pc[s] = "Children"
                               /\ pc'[s] = "Vacant" <=> pc[s] = "Vacant"
  <1>1. Hierarchy /\ Rooted /\ Handles /\ Joins /\ Phases /\ TypeOK
    BY DEF StateInv, StackInv
  <1>2. \A s \in Slots : /\ Active(s)' <=> Active(s)
                         /\ Joining(s)' <=> Joining(s)
                         /\ Completed(s)' <=> Completed(s)
                         /\ Live(s)' <=> Live(s)
                         /\ pc'[s] = "Done" <=> pc[s] = "Done"
                         /\ pc'[s] = "Children" <=> pc[s] = "Children"
                         /\ pc'[s] = "Vacant" <=> pc[s] = "Vacant"
    BY DEF Active, Joining, Completed, Live
  <1>3. Hierarchy'
    <2>1. \A s \in Slots : \A c \in children[s] : c \in Slots
      BY <1>1, SlotTypes
    <2> QED
      BY <1>1, <1>2, <2>1 DEF Hierarchy
  <1>4. Rooted'
    BY <1>1, <1>2, RootedFrame
  <1>5. Handles'
    BY <1>1, <1>2 DEF Handles
  <1>6. Joins'
    BY <1>1, <1>2 DEF Joins
  <1>7. Phases'
    BY <1>1, <1>2, SlotsFacts DEF Phases
  <1> QED
    BY <1>2, <1>3, <1>4, <1>5, <1>6, <1>7

\* yield_now: the fiber goes to the end of the queue.
LEMMA YieldKeeps ==
    ASSUME RuntimeInv, StackInv', NEW i \in Slots, YieldNow(i)
    PROVE  RuntimeInv'
  <1>1. /\ TypeOK /\ TypeOK' /\ Queue /\ Cancellation /\ CancelPropagates
        /\ Rings /\ AsyncCancels
    BY DEF RuntimeInv, StateInv, StackInv
  <1>2. /\ mode = "run" /\ running_fiber = i /\ pc[i] = "User"
        /\ ready_fibers' = Schedule(ready_fibers, i)
        /\ running_fiber' = NoFiber
        /\ UNCHANGED <<interfaceVars, mode, parent, children, join_handle, is_cancelled,
                       syscall_result, target, handle>>
    BY DEF YieldNow, At, Park
  <1>3. pc' = pc
    BY <1>1, <1>2 DEF YieldNow, At, Park, TypeOK
  <1>4. Hierarchy' /\ Rooted' /\ Handles' /\ Joins' /\ Phases'
    BY <1>1, <1>2, <1>3, StructureFrame DEF RuntimeInv
  <1>5. Ready' = Ready \cup {i} /\ IsInjective(ready_fibers')
    BY <1>1, <1>2, ScheduleSet DEF Ready, TypeOK, Queue
  <1>6. Queue'
    <2>1. \A s \in Slots : Justified(s)' <=> Justified(s)
      BY <1>2, <1>3 DEF Justified, Active, Completed
    <2> QED
      BY <1>1, <1>2, <1>5, <2>1, QueueParts, ReadySlots, SlotsFacts DEF Queue
  <1>7. Cancellation'
    BY <1>1, <1>2, <1>3, <1>5
    DEF Cancellation, CancellationReaches, Scheduled, LiveSet, Live, Completed, Ready
  <1>8. CancelPropagates'
    BY <1>1, <1>2, <1>3, PropagationFrame DEF Completed
  <1>9. Rings' /\ AsyncCancels'
    BY <1>1, <1>2, <1>3, RingsFrame
  <1> QED
    BY <1>4, <1>6, <1>7, <1>8, <1>9 DEF RuntimeInv, StateInv

\* Forgetting the handle of j, or handing it to a fiber in its closure.
LEMMA ForgetKeeps ==
    ASSUME RuntimeInv, StackInv', NEW i \in Slots, NEW j \in Slots,
           ForgetHandle(i, j) \/ \E k \in Slots : GiveHandle(i, j, k)
    PROVE  RuntimeInv'
  <1>1. /\ TypeOK /\ TypeOK' /\ Hierarchy /\ Rooted /\ Handles /\ Joins /\ Queue /\ Cancellation
        /\ CancelPropagates /\ Rings /\ AsyncCancels /\ Phases
    BY DEF RuntimeInv, StateInv, StackInv
  <1>0. PICK k \in Slots \cup {NoFiber} :
            /\ handle' = [handle EXCEPT ![j] = k]
            /\ k # NoFiber => Live(k) /\ ~Completed(k)
    BY DEF ForgetHandle, GiveHandle
  <1>2. /\ mode = "run" /\ running_fiber = i /\ pc[i] = "User" /\ handle[j] = i
        /\ UNCHANGED <<interfaceVars, mode, pc, parent, children, join_handle, is_cancelled,
                       syscall_result, target, schedVars>>
    BY DEF ForgetHandle, GiveHandle, At
  <1>3. /\ \A s \in Slots : handle'[s] = IF s = j THEN k ELSE handle[s]
        /\ k \in Slots => Active(k) /\ pc[k] # "Children"
    BY <1>0, <1>1, SlotsFacts DEF TypeOK, Live, Active, Completed
  <1>4. UNCHANGED <<ready_fibers, running_fiber>>
    BY <1>2 DEF schedVars
  <1>5. \A s \in Slots : /\ Active(s)' <=> Active(s)
                         /\ Joining(s)' <=> Joining(s)
                         /\ Completed(s)' <=> Completed(s)
                         /\ Live(s)' <=> Live(s)
    BY <1>2 DEF Active, Joining, Completed, Live
  <1>6. Hierarchy'
    BY <1>1, <1>2, <1>5, SlotTypes DEF Hierarchy
  <1>7. Rooted'
    BY <1>1, <1>2, <1>5, RootedFrame
  <1>8. Handles'
    BY <1>1, <1>2, <1>3, <1>5, SlotsFacts DEF Handles
  <1>9. Joins'
    <2>1. \A s \in Slots : join_handle[s] \in Slots \cup {WaitingNone} => s # j
      BY <1>1, <1>2, JoinOwner DEF Joining
    <2>2. \A s \in Slots : join_handle[s] \in Slots \cup {WaitingNone} => handle'[s] = handle[s]
      BY <1>3, <2>1
    <2> QED
      BY <1>1, <1>2, <1>5, <2>2 DEF Joins
  <1>10. Queue'
    <2>1. \A s \in Slots : Justified(s)' <=> Justified(s)
      BY <1>2, <1>5 DEF Justified
    <2>2. Ready' = Ready
      BY <1>4 DEF Ready
    <2> QED
      BY <1>1, <1>2, <1>4, <2>1, <2>2, QueueParts DEF Queue
  <1>11. Cancellation'
    BY <1>1, <1>2, <1>4, <1>5 DEF Cancellation, CancellationReaches, Scheduled, LiveSet
  <1>12. CancelPropagates'
    BY <1>1, <1>2, <1>5, PropagationFrame
  <1>13. Rings' /\ AsyncCancels'
    BY <1>1, <1>2, RingsFrame
  <1>14. Phases'
    BY <1>1, <1>2, <1>5, SlotsFacts DEF Phases
  <1> QED
    BY <1>6, <1>7, <1>8, <1>9, <1>10, <1>11, <1>12, <1>13, <1>14 DEF RuntimeInv, StateInv

\* JoinHandle::join parks for the first time.
LEMMA JoinParks ==
    ASSUME RuntimeInv, StackInv', NEW i \in Slots, NEW j \in Slots,
           At(i, "User"), handle[j] = i, ~Completed(j), i \in is_cancelled => j \in is_cancelled,
           join_handle' = [join_handle EXCEPT ![j] = i], target' = [target EXCEPT ![i] = j],
           Park(i, "Join1"),
           UNCHANGED <<interfaceVars, mode, parent, children, is_cancelled, syscall_result,
                       handle, ready_fibers>>
    PROVE  RuntimeInv'
  <1>1. /\ TypeOK /\ TypeOK' /\ Hierarchy /\ Rooted /\ Handles /\ Joins /\ Queue /\ Cancellation
        /\ CancelPropagates /\ Rings /\ AsyncCancels /\ Phases
    BY DEF RuntimeInv, StateInv, StackInv
  <1>2. /\ mode = "run" /\ running_fiber = i /\ pc[i] = "User" /\ running_fiber' = NoFiber
        /\ Ready' = Ready
    BY DEF At, Park, Ready
  <1>3. /\ \A s \in Slots : pc'[s] = IF s = i THEN "Join1" ELSE pc[s]
        /\ \A s \in Slots : target'[s] = IF s = i THEN j ELSE target[s]
        /\ \A s \in Slots : join_handle'[s] = IF s = j THEN i ELSE join_handle[s]
    BY <1>1 DEF TypeOK, Park
  <1>4. Active(j) /\ j # Root
    BY <1>1, SlotsFacts DEF Handles, Live, Active, Completed
  <1>5. \A s \in Slots : /\ Active(s)' <=> Active(s)
                         /\ Joining(s)' <=> Joining(s) \/ s = i
                         /\ Completed(s)' <=> Completed(s)
                         /\ Live(s)' <=> Live(s)
                         /\ pc'[s] = "Done" <=> pc[s] = "Done"
                         /\ pc'[s] = "Children" <=> pc[s] = "Children"
                         /\ pc'[s] = "Vacant" <=> pc[s] = "Vacant"
    BY <1>2, <1>3 DEF Active, Joining, Completed, Live
  <1>6. Hierarchy'
    BY <1>1, <1>5, SlotTypes DEF Hierarchy
  <1>7. Rooted'
    BY <1>1, <1>5, RootedFrame
  <1>8. Handles'
    BY <1>1, <1>3, <1>4, <1>5, SlotsFacts DEF Handles
  <1>9. ~Joining(i)
    BY <1>2 DEF Joining
  <1>10. Joins'
    <2>1. ASSUME NEW s \in Slots, join_handle'[s] = WaitingNone
          PROVE  /\ pc'[s] = "Done"
                 /\ \E h \in Slots : handle'[s] = h /\ Joining(h)' /\ target'[h] = s
      <3>1. s # j /\ join_handle[s] = WaitingNone
        BY <1>3, <2>1, SlotsFacts
      <3> QED
        BY <1>1, <1>3, <1>5, <1>9, <3>1 DEF Joins
    <2>2. ASSUME NEW s \in Slots, NEW h \in Slots, join_handle'[s] = h
          PROVE  Active(s)' /\ Joining(h)' /\ target'[h] = s
      BY <1>1, <1>3, <1>4, <1>5, <1>9, <2>2 DEF Joins
    <2>3. ASSUME NEW s \in Slots, Joining(s)'
          PROVE  \E t \in Slots : /\ target'[s] = t /\ handle'[t] = s
                                  /\ join_handle'[t] = s \/ join_handle'[t] = WaitingNone
      <3>1. CASE s = i
        BY <1>3, <3>1
      <3>2. CASE s # i
        BY <1>1, <1>3, <1>5, <2>3, <3>2 DEF Joins
      <3> QED
        BY <3>1, <3>2
    <2>4. \A s \in Slots : ~Joining(s)' => target'[s] = NoFiber
      BY <1>1, <1>3, <1>5 DEF Joins
    <2> QED
      BY <2>1, <2>2, <2>3, <2>4 DEF Joins
  <1>11. Queue'
    <2>1. ASSUME NEW s \in Slots, s # i, Justified(s) PROVE Justified(s)'
      BY <1>3, <1>5, <2>1 DEF Justified
    <2> QED
      BY <1>1, <1>2, <2>1, QueueParts, ReadySlots, SlotsFacts DEF Queue
  <1>12. Cancellation'
    BY <1>1, <1>2, <1>3, <1>5
    DEF Cancellation, CancellationReaches, Scheduled, LiveSet, Ready
  <1>13. CancelPropagates'
    BY <1>1, <1>5, PropagationFrame
  <1>14. Rings' /\ AsyncCancels'
    BY <1>1, <1>2, <1>3, RingsFrame
  <1>15. Phases'
    BY <1>1, <1>2, <1>5, SlotsFacts DEF Phases
  <1> QED
    BY <1>6, <1>7, <1>8, <1>10, <1>11, <1>12, <1>13, <1>14, <1>15 DEF RuntimeInv, StateInv

\* JoinHandle::join parks for the second time: only a cancelled fiber does.
LEMMA JoinParksAgain ==
    ASSUME RuntimeInv, StackInv', NEW i \in Slots, NEW j \in Slots,
           At(i, "Join1"), target[i] = j, ~Completed(j), j \in is_cancelled, Park(i, "Join2"),
           UNCHANGED <<interfaceVars, mode, parent, children, join_handle, is_cancelled,
                       syscall_result, target, handle, ready_fibers>>
    PROVE  RuntimeInv'
  <1>1. /\ TypeOK /\ TypeOK' /\ Queue /\ Cancellation /\ CancelPropagates
        /\ Rings /\ AsyncCancels
    BY DEF RuntimeInv, StateInv, StackInv
  <1>2. /\ mode = "run" /\ running_fiber = i /\ pc[i] = "Join1" /\ running_fiber' = NoFiber
        /\ Ready' = Ready
    BY DEF At, Park, Ready
  <1>3. \A s \in Slots : pc'[s] = IF s = i THEN "Join2" ELSE pc[s]
    BY <1>1 DEF TypeOK, Park
  <1>4. /\ Hierarchy' /\ Rooted' /\ Handles' /\ Joins' /\ Phases'
        /\ \A s \in Slots : /\ Active(s)' <=> Active(s)
                            /\ Completed(s)' <=> Completed(s)
                            /\ Live(s)' <=> Live(s)
    BY <1>1, <1>2, <1>3, StructureFrame DEF RuntimeInv
  <1>5. i \in is_cancelled
    BY <1>1, <1>2 DEF Queue, Justified
  <1>6. Queue'
    <2>1. ASSUME NEW s \in Slots, s # i, Justified(s) PROVE Justified(s)'
      BY <1>3, <1>4, <2>1 DEF Justified
    <2> QED
      BY <1>1, <1>2, <2>1, QueueParts, ReadySlots, SlotsFacts DEF Queue
  <1>7. Cancellation'
    BY <1>1, <1>2, <1>3, <1>4, <1>5
    DEF Cancellation, CancellationReaches, Scheduled, LiveSet, Ready
  <1>8. CancelPropagates'
    BY <1>1, <1>4, PropagationFrame
  <1>9. Rings' /\ AsyncCancels'
    BY <1>1, <1>2, <1>3, RingsFrame
  <1> QED
    BY <1>4, <1>6, <1>7, <1>8, <1>9 DEF RuntimeInv, StateInv

\* JoinHandle::join and JoinHandle::drop.
LEMMA JoinKeeps ==
    ASSUME RuntimeInv, StackInv', NEW i \in Slots,
           \/ \E j \in Slots : Join(i, j) \/ DropHandle(i, j)
           \/ ResumeJoin1(i)
           \/ ResumeJoin2(i)
    PROVE  RuntimeInv'
  <1>1. TypeOK /\ Joins
    BY DEF RuntimeInv, StateInv, StackInv
  <1>2. ASSUME NEW j \in Slots, At(i, "User"), handle[j] = i, Release(j, pc),
               UNCHANGED <<interfaceVars, mode, target, schedVars>>
        PROVE  RuntimeInv'
    <2>1. mode = "run" /\ running_fiber = i /\ pc[i] = "User" /\ [pc EXCEPT ![i] = "User"] = pc
      BY <1>1, <1>2 DEF At, TypeOK
    <2>2. target[i] = NoFiber
      BY <1>1, <2>1 DEF Joins, Joining
    <2>3. target' = [target EXCEPT ![i] = NoFiber]
      BY <1>1, <1>2, <2>2 DEF TypeOK
    <2>4. Release(j, [pc EXCEPT ![i] = "User"])
      BY <1>2, <2>1
    <2> QED
      BY <1>2, <2>1, <2>3, <2>4, ReleaseKeeps
  <1>3. ASSUME NEW l \in {"Join1", "Join2"}, At(i, l), ReturnFromJoin(i),
               UNCHANGED <<interfaceVars, mode, ready_fibers>>
        PROVE  RuntimeInv'
    <2>1. mode = "run" /\ running_fiber = i /\ pc[i] \in {"Join1", "Join2"}
      BY <1>3 DEF At
    <2>2. PICK j \in Slots : target[i] = j /\ handle[j] = i
      BY <1>1, <2>1 DEF Joins, Joining
    <2>3. /\ Release(j, [pc EXCEPT ![i] = "User"]) /\ target' = [target EXCEPT ![i] = NoFiber]
          /\ UNCHANGED <<interfaceVars, mode, schedVars>>
      BY <1>3, <2>2 DEF ReturnFromJoin, schedVars
    <2> QED
      BY <2>1, <2>2, <2>3, ReleaseKeeps
  <1>4. ASSUME NEW j \in Slots, Join(i, j) PROVE RuntimeInv'
    <2>1. At(i, "User") /\ handle[j] = i /\ UNCHANGED <<interfaceVars, mode, ready_fibers>>
      BY <1>4 DEF Join
    <2>2. CASE Release(j, pc) /\ UNCHANGED <<target, running_fiber>>
      BY <1>2, <2>1, <2>2 DEF schedVars
    <2>3. CASE /\ ~Completed(j)
               /\ i \in is_cancelled => j \in is_cancelled
               /\ join_handle' = [join_handle EXCEPT ![j] = i]
               /\ target' = [target EXCEPT ![i] = j]
               /\ Park(i, "Join1")
               /\ UNCHANGED <<parent, children, is_cancelled, syscall_result, handle>>
      BY <2>1, <2>3, JoinParks
    <2> QED
      BY <1>4, <2>2, <2>3 DEF Join
  <1>5. ASSUME NEW j \in Slots, DropHandle(i, j) PROVE RuntimeInv'
    BY <1>2, <1>5 DEF DropHandle
  <1>6. CASE ResumeJoin2(i)
    BY <1>3, <1>6 DEF ResumeJoin2
  <1>7. CASE ResumeJoin1(i)
    <2>1. At(i, "Join1") /\ UNCHANGED <<interfaceVars, mode, ready_fibers>>
      BY <1>7 DEF ResumeJoin1
    <2>2. CASE ReturnFromJoin(i)
      BY <1>3, <2>1, <2>2
    <2>3. CASE /\ ~Completed(target[i]) /\ target[i] \in is_cancelled /\ Park(i, "Join2")
               /\ UNCHANGED <<parent, children, join_handle, is_cancelled, syscall_result,
                              target, handle>>
      <3>1. PICK j \in Slots : target[i] = j
        BY <1>1, <2>1 DEF Joins, Joining, At
      <3> QED
        BY <2>1, <2>3, <3>1, JoinParksAgain
    <2> QED
      BY <1>7, <2>2, <2>3 DEF ResumeJoin1
  <1> QED
    BY <1>4, <1>5, <1>6, <1>7

\* Whom RuntimeState::cancel(r) may schedule, and what it leaves: i is the fiber
\* that calls it.
LEMMA CancelVisit ==
    ASSUME RuntimeInv, NEW i \in Slots, NEW r \in Slots, Live(r)
    PROVE  /\ Subtree(r) \subseteq LiveSet
           /\ Woken(r, i) \subseteq Slots
           /\ Woken(r, i) \cap Ready = {} /\ i \notin Woken(r, i)
           /\ \A s \in Woken(r, i) : Active(s) /\ pc[s] \notin {"Sys2", "Join2", "Children"}
           /\ Subtree(r) \subseteq is_cancelled \cup Woken(r, i) \cup Ready \cup {i}
           /\ Woken(r, i) \subseteq Subtree(r)
  <1>1. TypeOK /\ Hierarchy /\ Cancellation
    BY DEF RuntimeInv, StateInv, StackInv
  <1>2. Subtree(r) \subseteq LiveSet
    <2>1. r \in LiveSet /\ LiveSet \in SUBSET Slots
      BY DEF LiveSet
    <2>2. Closed(LiveSet)
      BY <1>1, SlotTypes DEF Closed, LiveSet, Hierarchy, Active, Live
    <2> QED
      BY <1>1, <2>1, <2>2, SubtreeFacts
  <1>3. /\ Woken(r, i) \cap Ready = {} /\ i \notin Woken(r, i)
        /\ Woken(r, i) \subseteq Subtree(r) \ is_cancelled
        /\ Subtree(r) \subseteq is_cancelled \cup Woken(r, i) \cup Ready \cup {i}
    BY DEF Woken, Ready
  <1>4. ASSUME NEW s \in Woken(r, i)
        PROVE  Active(s) /\ pc[s] \notin {"Sys2", "Join2", "Children"}
    <2>1. s \in Slots /\ Live(s) /\ s \notin is_cancelled
      BY <1>2, <1>3 DEF LiveSet
    <2>2. ~Completed(s) /\ pc[s] \notin {"Sys2", "Join2"}
      BY <1>1, <2>1 DEF Cancellation
    <2> QED
      BY <2>1, <2>2 DEF Active, Live, Completed
  <1> QED
    BY <1>2, <1>3, <1>4 DEF LiveSet

\* JoinHandle::cancel, cancel and cancel_propagating.
LEMMA CancelKeeps ==
    ASSUME RuntimeInv, StackInv', NEW i \in Slots, NEW r \in Slots, Live(r), At(i, "User"),
           CancelTree(r, i)
    PROVE  RuntimeInv'
  <1>1. /\ TypeOK /\ TypeOK' /\ Hierarchy /\ Queue /\ Cancellation /\ CancelPropagates
        /\ Rings /\ AsyncCancels
    BY DEF RuntimeInv, StateInv, StackInv
  <1>2. /\ mode = "run" /\ running_fiber = i /\ pc[i] = "User"
        /\ is_cancelled' = is_cancelled \cup Subtree(r)
        /\ UNCHANGED <<interfaceVars, mode, pc, parent, children, join_handle, syscall_result,
                       target, handle, running_fiber>>
    BY DEF CancelTree, At
  <1>3. PICK w \in InVisitOrder(Woken(r, i)) : ready_fibers' = ready_fibers \o w
    BY DEF CancelTree
  <1>4. Ready' = Ready \cup Woken(r, i) /\ IsInjective(ready_fibers')
    <2>1. Woken(r, i) \in SUBSET Slots /\ Woken(r, i) \cap ToSet(ready_fibers) = {}
      BY CancelVisit DEF Ready
    <2>2. ready_fibers \in Seq(Slots) /\ IsInjective(ready_fibers)
      BY <1>1 DEF TypeOK, Queue
    <2> QED
      BY <1>3, <2>1, <2>2, VisitOrderSet DEF Ready
  <1>5. /\ Hierarchy' /\ Rooted' /\ Handles' /\ Joins' /\ Phases'
        /\ \A s \in Slots : /\ Active(s)' <=> Active(s)
                            /\ Completed(s)' <=> Completed(s)
                            /\ Live(s)' <=> Live(s)
    BY <1>1, <1>2, StructureFrame DEF RuntimeInv
  <1>6. Queue'
    <2>1. ASSUME NEW s \in Slots, Justified(s) PROVE Justified(s)'
      BY <1>2, <1>5, <2>1 DEF Justified
    <2>2. ASSUME NEW s \in Slots, s \in Woken(r, i) PROVE Justified(s)'
      <3>1. Active(s) /\ pc[s] \notin {"Sys2", "Join2", "Children"} /\ s \in is_cancelled'
        BY <1>2, <2>2, CancelVisit
      <3> QED
        BY <1>2, <1>5, <3>1 DEF Justified
    <2> QED
      BY <1>1, <1>2, <1>4, <2>1, <2>2, CancelVisit, QueueParts DEF Queue
  <1>7. Cancellation'
    <2>1. is_cancelled' \subseteq LiveSet'
      BY <1>1, <1>2, <1>5, CancelVisit DEF LiveSet, Cancellation
    <2>2. \A s \in Slots : Completed(s)' \/ pc'[s] \in {"Sys2", "Join2"} => s \in is_cancelled'
      BY <1>1, <1>2, <1>5 DEF Cancellation
    <2>3. \A s \in is_cancelled' : ~Scheduled(s)' => s \in is_cancelled /\ ~Scheduled(s)
      BY <1>2, <1>4, CancelVisit DEF Scheduled, Ready
    <2>4. CancellationReaches'
      BY <1>1, <1>2, <2>3 DEF CancellationReaches, Cancellation
    <2> QED
      BY <2>1, <2>2, <2>4 DEF Cancellation
  <1>8. CancelPropagates'
    <2>1. \A s \in Slots : Descendants(s)' = Descendants(s)
      BY <1>2 DEF Descendants
    <2>2. is_cancelled \cup Subtree(r) \subseteq Slots
      BY <1>1, CancelVisit DEF TypeOK, LiveSet
    <2> QED
      BY <1>1, <1>2, <1>5, <2>1, <2>2, PropagationSubtree DEF CancelPropagates
  <1>9. Rings' /\ AsyncCancels'
    BY <1>1, <1>2, RingsFrame
  <1> QED
    BY <1>5, <1>6, <1>7, <1>8, <1>9 DEF RuntimeInv, StateInv

\* The closure ended before its children did.
LEMMA WaitKeeps ==
    ASSUME RuntimeInv, StackInv', NEW i \in Slots, At(i, "User"), Held(i) = {},
           handle[i] = NoFiber, Park(i, "Children"), is_cancelled' = is_cancelled \cup {i},
           UNCHANGED <<interfaceVars, mode, parent, children, join_handle, syscall_result,
                       target, handle, ready_fibers>>
    PROVE  RuntimeInv'
  <1>1. /\ TypeOK /\ TypeOK' /\ Hierarchy /\ Rooted /\ Handles /\ Joins /\ Queue /\ Cancellation
        /\ CancelPropagates /\ Rings /\ AsyncCancels /\ Phases
    BY DEF RuntimeInv, StateInv, StackInv
  <1>2. /\ mode = "run" /\ running_fiber = i /\ pc[i] = "User" /\ running_fiber' = NoFiber
        /\ Ready' = Ready
    BY DEF At, Park, Ready
  <1>3. \A s \in Slots : pc'[s] = IF s = i THEN "Children" ELSE pc[s]
    BY <1>1 DEF TypeOK, Park
  <1>4. \A s \in Slots : /\ Active(s)' <=> Active(s)
                         /\ Joining(s)' <=> Joining(s)
                         /\ Completed(s)' <=> Completed(s) \/ s = i
                         /\ Live(s)' <=> Live(s)
                         /\ pc'[s] = "Done" <=> pc[s] = "Done"
                         /\ pc'[s] = "Vacant" <=> pc[s] = "Vacant"
    BY <1>2, <1>3 DEF Active, Joining, Completed, Live
  <1>5. Hierarchy'
    BY <1>1, <1>4, SlotTypes DEF Hierarchy
  <1>6. Rooted'
    BY <1>1, <1>4, RootedFrame
  <1>7. Handles'
    <2>1. \A s \in Slots : handle[s] # i
      BY DEF Held
    <2> QED
      BY <1>1, <1>3, <1>4, <2>1, SlotsFacts DEF Handles
  <1>8. Joins'
    BY <1>1, <1>4 DEF Joins
  <1>9. Queue'
    <2>1. ASSUME NEW s \in Slots, s # i, Justified(s) PROVE Justified(s)'
      BY <1>3, <1>4, <2>1 DEF Justified
    <2> QED
      BY <1>1, <1>2, <2>1, QueueParts, ReadySlots, SlotsFacts DEF Queue
  <1>10. Cancellation'
    <2>1. is_cancelled' \subseteq LiveSet'
      BY <1>1, <1>2, <1>4 DEF Cancellation, LiveSet, Live
    <2>2. \A s \in Slots : Completed(s)' \/ pc'[s] \in {"Sys2", "Join2"} => s \in is_cancelled'
      BY <1>1, <1>3, <1>4 DEF Cancellation
    <2>3. CancellationReaches'
      <3>1. is_cancelled \subseteq Slots
        BY <1>1 DEF TypeOK
      <3>2. \A s \in is_cancelled' : ~Scheduled(s)' /\ s # i => s \in is_cancelled /\ ~Scheduled(s)
        BY <1>2 DEF Scheduled, Ready
      <3> QED
        BY <1>1, <1>3, <3>1, <3>2 DEF Cancellation, CancellationReaches
    <2> QED
      BY <2>1, <2>2, <2>3 DEF Cancellation
  <1>11. CancelPropagates'
    BY <1>1, <1>4, PropagationFrame
  <1>12. Rings' /\ AsyncCancels'
    BY <1>1, <1>2, <1>3, RingsFrame
  <1>13. Phases'
    BY <1>1, <1>2, <1>4, SlotsFacts DEF Phases
  <1> QED
    BY <1>5, <1>6, <1>7, <1>8, <1>9, <1>10, <1>11, <1>12, <1>13 DEF RuntimeInv, StateInv

-----------------------------------------------------------------------------
(* The rings. *)

\* Interface::issue without a submission: one more entry.
LEMMA PushRings ==
    ASSUME InterfaceTypeOK, NEW e \in Entries, sq' = Append(sq, e), UNCHANGED inflight
    PROVE  /\ \A s \in Slots : s \in Issued' <=> s \in Issued \/ e = Op(s)
           /\ \A s \in Slots : s \in Found' => s \in Found \/ e = AsyncCancel(s)
           /\ \A s \in Slots : s \notin Issued => \A k, l \in DOMAIN sq' :
                  sq'[k] = Op(s) /\ sq'[l] = Op(s) => k = l
           /\ \A s \in Slots : e # Op(s) => \A k, l \in DOMAIN sq' :
                  sq'[k] = Op(s) /\ sq'[l] = Op(s)
                      => k \in DOMAIN sq /\ l \in DOMAIN sq /\ sq[k] = Op(s) /\ sq[l] = Op(s)
  <1>1. /\ Len(sq) \in Nat /\ DOMAIN sq = 1 .. Len(sq) /\ DOMAIN sq' = 1 .. Len(sq) + 1
        /\ \A k \in 1 .. Len(sq) : sq'[k] = sq[k]
        /\ sq'[Len(sq) + 1] = e
    BY DEF InterfaceTypeOK
  <1>2. \A s \in Slots : s \in Issued' <=> s \in Issued \/ e = Op(s)
    BY <1>1 DEF Issued
  <1>3. ASSUME NEW s \in Slots, s \in Found', e # AsyncCancel(s) PROVE s \in Found
    <2>1. PICK k \in DOMAIN sq' : /\ sq'[k] = AsyncCancel(s)
                                  /\ s \in inflight' \/ \E l \in 1 .. k - 1 : sq'[l] = Op(s)
      BY <1>3 DEF Found
    <2>2. k \in DOMAIN sq /\ sq[k] = AsyncCancel(s) /\ 1 .. k - 1 \subseteq DOMAIN sq
      BY <1>1, <1>3, <2>1
    <2>3. s \in inflight \/ \E l \in 1 .. k - 1 : sq[l] = Op(s)
      BY <1>1, <2>1, <2>2
    <2> QED
      BY <2>2, <2>3 DEF Found
  <1>4. ASSUME NEW s \in Slots, s \notin Issued, NEW k \in DOMAIN sq', NEW l \in DOMAIN sq',
               sq'[k] = Op(s), sq'[l] = Op(s)
        PROVE  k = l
    BY <1>1, <1>4 DEF Issued
  <1>5. ASSUME NEW s \in Slots, e # Op(s), NEW k \in DOMAIN sq', sq'[k] = Op(s)
        PROVE  k \in DOMAIN sq /\ sq[k] = Op(s)
    BY <1>1, <1>5
  <1> QED
    BY <1>2, <1>3, <1>4, <1>5

\* Entering the kernel: the operations that were queued are in flight, and an
\* AsyncCancel marks those it finds.
LEMMA ConsumeRings ==
    ASSUME InterfaceTypeOK, Consume
    PROVE  /\ inflight' = inflight \cup Issued /\ cancelling' = cancelling \cup Found
           /\ \A s \in Slots : s \in ToSet(cq') <=> s \in ToSet(cq)
           /\ \A s \in Slots : \A k \in DOMAIN cq' : cq'[k] = s => k \in DOMAIN cq /\ cq[k] = s
  <1> DEFINE n == Cardinality(Cancels)
             ignored == [k \in 1 .. n |-> ASYNC_CANCELLATION_USER_DATA]
             m == Len(cq)
             A == Slots \cup {ASYNC_CANCELLATION_USER_DATA}
  <1>1. n \in Nat
    <2>1. IsFiniteSet(1 .. Len(sq))
      BY FS_Interval DEF InterfaceTypeOK
    <2>2. Cancels \subseteq 1 .. Len(sq)
      BY DEF Cancels, InterfaceTypeOK
    <2> QED
      BY <2>1, <2>2, FS_Subset, FS_CardinalityType
  <1> HIDE DEF n
  <1>2. cq' = cq \o ignored
    BY DEF Consume, n
  <1>8. ignored \in Seq(A) /\ Len(ignored) = n /\ cq \in Seq(A)
    BY <1>1 DEF InterfaceTypeOK
  <1>3. /\ m \in Nat /\ DOMAIN cq = 1 .. m /\ DOMAIN cq' = 1 .. m + n
        /\ \A k \in 1 .. m : cq'[k] = cq[k]
        /\ \A k \in m + 1 .. m + n : cq'[k] = ignored[k - m]
    BY <1>1, <1>2, <1>8
  <1>4. \A k \in m + 1 .. m + n : cq'[k] = ASYNC_CANCELLATION_USER_DATA
    BY <1>1, <1>3
  <1> HIDE DEF m, ignored
  <1>5. \A s \in Slots : \A k \in DOMAIN cq' : cq'[k] = s => k \in DOMAIN cq /\ cq[k] = s
    BY <1>1, <1>3, <1>4, SlotsFacts
  <1>6. \A s \in Slots : s \in ToSet(cq') => s \in ToSet(cq)
    BY <1>5 DEF ToSet
  <1>7. \A s \in Slots : s \in ToSet(cq) => s \in ToSet(cq')
    BY <1>1, <1>3 DEF ToSet
  <1> QED
    BY <1>5, <1>6, <1>7 DEF Consume

\* Interface::issue, for an operation that is not yet in the rings or an
\* AsyncCancel.
LEMMA IssueRings ==
    ASSUME InterfaceTypeOK, OnePlace, NEW e \in Entries, Issue(e),
           \A s \in Slots : e = Op(s) => s \notin InRings
    PROVE  /\ OnePlace'
           /\ \A s \in Slots : s \in InRings' <=> s \in InRings \/ e = Op(s)
           /\ \A s \in Slots : s \in cancelling' \cup Found' =>
                  s \in cancelling \cup Found \/ e = AsyncCancel(s)
  <1>1. Issued \subseteq Slots /\ Issued' \subseteq Slots /\ inflight \subseteq Slots
    BY DEF Issued, InterfaceTypeOK
  <1>2. CASE sq' = Append(sq, e) /\ UNCHANGED <<inflight, cancelling, cq>>
    <2>1. OnePlace'
      <3>1. Issued' \cap inflight' = {} /\ (Issued' \cup inflight') \cap ToSet(cq') = {}
        BY <1>1, <1>2, PushRings DEF OnePlace, InRings
      <3>2. ASSUME NEW s \in Slots, NEW k \in DOMAIN sq', NEW l \in DOMAIN sq',
                   sq'[k] = Op(s), sq'[l] = Op(s)
            PROVE  k = l
        <4>1. CASE e = Op(s)
          BY <1>2, <3>2, <4>1, PushRings DEF InRings
        <4>2. CASE e # Op(s)
          BY <1>2, <3>2, <4>2, PushRings DEF OnePlace
        <4> QED
          BY <4>1, <4>2
      <3> QED
        BY <1>2, <3>1, <3>2 DEF OnePlace
    <2>2. \A s \in Slots : s \in InRings' <=> s \in InRings \/ e = Op(s)
      BY <1>1, <1>2, PushRings DEF InRings
    <2> QED
      BY <1>2, <2>1, <2>2, PushRings
  <1>3. CASE Consume /\ sq' = <<e>>
    <2>1. DOMAIN sq' = {1} /\ sq'[1] = e
      BY <1>3
    <2>2. \A s \in Slots : s \in Issued' <=> e = Op(s)
      BY <2>1 DEF Issued
    <2>3. \A s \in Slots : s \in Found' => e = AsyncCancel(s)
      BY <2>1 DEF Found
    <2>4. OnePlace'
      <3>1. Issued' \cap inflight' = {}
        BY <1>1, <1>3, <2>2, ConsumeRings DEF InRings
      <3>2. (Issued' \cup inflight') \cap ToSet(cq') = {}
        BY <1>1, <1>3, <2>2, ConsumeRings DEF OnePlace, InRings
      <3>3. \A s \in Slots : \A k, l \in DOMAIN cq' : cq'[k] = s /\ cq'[l] = s => k = l
        BY <1>3, ConsumeRings DEF OnePlace
      <3> QED
        BY <2>1, <3>1, <3>2, <3>3 DEF OnePlace
    <2>5. \A s \in Slots : s \in InRings' <=> s \in InRings \/ e = Op(s)
      BY <1>3, <2>2, ConsumeRings DEF InRings
    <2> QED
      BY <1>3, <2>3, <2>4, <2>5, ConsumeRings
  <1> QED
    BY <1>2, <1>3 DEF Issue

\* Interface::wait_for_completed.
LEMMA WaitRings ==
    ASSUME InterfaceTypeOK, OnePlace, Consume, sq' = <<>>
    PROVE  /\ OnePlace'
           /\ \A s \in Slots : s \in InRings' <=> s \in InRings
           /\ cancelling' \cup Found' = cancelling \cup Found
  <1>1. Issued \subseteq Slots /\ inflight \subseteq Slots
    BY DEF Issued, InterfaceTypeOK
  <1>2. DOMAIN sq' = {} /\ Issued' = {} /\ Found' = {}
    BY DEF Issued, Found
  <1>3. OnePlace'
    <2>1. (Issued' \cup inflight') \cap ToSet(cq') = {}
      BY <1>1, <1>2, ConsumeRings DEF OnePlace
    <2>2. \A s \in Slots : \A k, l \in DOMAIN cq' : cq'[k] = s /\ cq'[l] = s => k = l
      BY ConsumeRings DEF OnePlace
    <2> QED
      BY <1>2, <2>1, <2>2 DEF OnePlace
  <1> QED
    BY <1>2, <1>3, ConsumeRings DEF InRings

\* The kernel completes an operation.
LEMMA KernelRings ==
    ASSUME InterfaceTypeOK, OnePlace, NEW id \in Slots, KernelComplete(id)
    PROVE  /\ OnePlace'
           /\ \A s \in Slots : s \in InRings' <=> s \in InRings
           /\ cancelling' \cup Found' \subseteq cancelling \cup Found
  <1>1. /\ id \in inflight /\ inflight' = inflight \ {id} /\ cancelling' = cancelling \ {id}
        /\ cq' = Append(cq, id) /\ sq' = sq
    BY DEF KernelComplete
  <1>2. Issued' = Issued /\ Found' \subseteq Found
    BY <1>1 DEF Issued, Found
  <1>3. /\ Len(cq) \in Nat /\ DOMAIN cq = 1 .. Len(cq) /\ DOMAIN cq' = 1 .. Len(cq) + 1
        /\ \A k \in 1 .. Len(cq) : cq'[k] = cq[k]
        /\ cq'[Len(cq) + 1] = id
    BY <1>1 DEF InterfaceTypeOK
  <1>4. ToSet(cq') = ToSet(cq) \cup {id}
    BY <1>3 DEF ToSet
  <1>5. id \notin ToSet(cq) /\ id \notin Issued
    BY <1>1 DEF OnePlace
  <1>6. OnePlace'
    <2>1. Issued' \cap inflight' = {} /\ (Issued' \cup inflight') \cap ToSet(cq') = {}
      BY <1>1, <1>2, <1>4, <1>5 DEF OnePlace
    <2>2. ASSUME NEW s \in Slots, NEW k \in DOMAIN cq', NEW l \in DOMAIN cq', cq'[k] = s, cq'[l] = s
          PROVE  k = l
      BY <1>3, <1>5, <2>2 DEF OnePlace, ToSet
    <2> QED
      BY <1>1, <2>1, <2>2 DEF OnePlace
  <1> QED
    BY <1>1, <1>2, <1>4, <1>6 DEF InRings

\* One step of the loop of process_completed.
LEMMA ReadRings ==
    ASSUME InterfaceTypeOK, OnePlace, ReadCompletion
    PROVE  /\ OnePlace'
           /\ \A s \in Slots : s \in InRings' <=> s \in InRings /\ s # Head(cq)
           /\ cancelling' \cup Found' = cancelling \cup Found
           /\ Head(cq) \in Slots => Head(cq) \in InRings
           /\ Head(cq) \in Slots \cup {ASYNC_CANCELLATION_USER_DATA}
  <1>1. cq # <<>> /\ cq' = Tail(cq) /\ sq' = sq /\ inflight' = inflight /\ cancelling' = cancelling
    BY DEF ReadCompletion
  <1>2. Issued' = Issued /\ Found' = Found
    BY <1>1 DEF Issued, Found
  <1>3. /\ Len(cq) \in Nat \ {0} /\ DOMAIN cq = 1 .. Len(cq) /\ DOMAIN cq' = 1 .. Len(cq) - 1
        /\ \A k \in 1 .. Len(cq) - 1 : cq'[k] = cq[k + 1]
        /\ Head(cq) = cq[1] /\ Head(cq) \in Slots \cup {ASYNC_CANCELLATION_USER_DATA}
    BY <1>1 DEF InterfaceTypeOK
  <1>4. \A s \in Slots : s \in ToSet(cq') <=> s \in ToSet(cq) /\ s # Head(cq)
    <2>1. ASSUME NEW s \in Slots, s \in ToSet(cq') PROVE s \in ToSet(cq) /\ s # Head(cq)
      <3>1. PICK k \in DOMAIN cq' : cq'[k] = s
        BY <2>1 DEF ToSet
      <3>2. k + 1 \in DOMAIN cq /\ cq[k + 1] = s /\ k + 1 # 1
        BY <1>3, <3>1
      <3>3. s # Head(cq)
        BY <1>3, <3>2 DEF OnePlace
      <3> QED
        BY <3>2, <3>3 DEF ToSet
    <2>2. ASSUME NEW s \in Slots, s \in ToSet(cq), s # Head(cq) PROVE s \in ToSet(cq')
      <3>1. PICK k \in DOMAIN cq : cq[k] = s
        BY <2>2 DEF ToSet
      <3>2. k - 1 \in DOMAIN cq' /\ cq'[k - 1] = s
        BY <1>3, <2>2, <3>1
      <3> QED
        BY <3>2 DEF ToSet
    <2> QED
      BY <2>1, <2>2
  <1>5. Head(cq) \in ToSet(cq)
    BY <1>3 DEF ToSet
  <1>6. Issued \subseteq Slots /\ inflight \subseteq Slots
    BY DEF Issued, InterfaceTypeOK
  <1>7. OnePlace'
    <2>1. Issued' \cap inflight' = {} /\ (Issued' \cup inflight') \cap ToSet(cq') = {}
      BY <1>1, <1>2, <1>4, <1>6 DEF OnePlace
    <2>2. ASSUME NEW s \in Slots, NEW k \in DOMAIN cq', NEW l \in DOMAIN cq', cq'[k] = s, cq'[l] = s
          PROVE  k = l
      <3>1. k + 1 \in DOMAIN cq /\ l + 1 \in DOMAIN cq /\ cq[k + 1] = s /\ cq[l + 1] = s
        BY <1>3, <2>2
      <3>2. k + 1 = l + 1
        BY <3>1 DEF OnePlace
      <3> QED
        BY <1>3, <3>2
    <2> QED
      BY <1>1, <2>1, <2>2 DEF OnePlace
  <1>8. \A s \in Slots : s \in InRings' <=> s \in InRings /\ s # Head(cq)
    BY <1>1, <1>2, <1>4, <1>5 DEF InRings, OnePlace
  <1> QED
    BY <1>1, <1>2, <1>3, <1>5, <1>7, <1>8 DEF InRings

-----------------------------------------------------------------------------
(* The actions that touch the rings. *)

\* syscall up to its first park.
LEMMA SyscallKeeps ==
    ASSUME RuntimeInv, StackInv', NEW i \in Slots, Syscall(i)
    PROVE  RuntimeInv'
  <1>1. /\ TypeOK /\ TypeOK' /\ InterfaceTypeOK /\ Queue /\ Cancellation /\ CancelPropagates
        /\ Rings /\ AsyncCancels
    BY DEF RuntimeInv, StateInv, StackInv, TypeOK
  <1>2. /\ mode = "run" /\ running_fiber = i /\ pc[i] = "User" /\ i \notin is_cancelled
        /\ Issue(Op(i)) /\ running_fiber' = NoFiber
        /\ UNCHANGED <<mode, parent, children, join_handle, is_cancelled, syscall_result,
                       target, handle, ready_fibers>>
        /\ Ready' = Ready
    BY DEF Syscall, At, Park, Ready
  <1>3. \A s \in Slots : pc'[s] = IF s = i THEN "Sys1" ELSE pc[s]
    BY <1>1 DEF Syscall, Park, TypeOK
  <1>4. /\ Hierarchy' /\ Rooted' /\ Handles' /\ Joins' /\ Phases'
        /\ \A s \in Slots : /\ Active(s)' <=> Active(s)
                            /\ Completed(s)' <=> Completed(s)
                            /\ Live(s)' <=> Live(s)
    BY <1>1, <1>2, <1>3, StructureFrame DEF RuntimeInv
  <1>5. Queue'
    <2>1. ASSUME NEW s \in Slots, s # i, Justified(s) PROVE Justified(s)'
      BY <1>2, <1>3, <1>4, <2>1 DEF Justified
    <2> QED
      BY <1>1, <1>2, <2>1, QueueParts, ReadySlots, SlotsFacts DEF Queue
  <1>6. Cancellation'
    BY <1>1, <1>2, <1>3, <1>4
    DEF Cancellation, CancellationReaches, Scheduled, LiveSet, Ready
  <1>7. CancelPropagates'
    BY <1>1, <1>2, <1>4, PropagationFrame
  <1>8. ~InSyscall(i) /\ i \notin syscall_result /\ ~Pending(i) /\ i \notin InRings
    BY <1>1, <1>2 DEF InSyscall, Pending, Rings
  <1>9. /\ \A s \in Slots : s \in InRings' <=> s \in InRings \/ s = i
        /\ \A s \in Slots : s \in cancelling' \cup Found' => s \in cancelling \cup Found
        /\ OnePlace'
    <2>1. \A s \in Slots : (Op(i) = Op(s) <=> s = i) /\ Op(i) # AsyncCancel(s)
      BY DEF Op, AsyncCancel
    <2>2. Op(i) \in Entries /\ OnePlace
      BY <1>1, EntryType DEF Rings
    <2>3. \A s \in Slots : Op(i) = Op(s) => s \notin InRings
      BY <1>8, <2>1
    <2>4. /\ OnePlace'
          /\ \A s \in Slots : s \in InRings' <=> s \in InRings \/ Op(i) = Op(s)
          /\ \A s \in Slots : s \in cancelling' \cup Found' =>
                 s \in cancelling \cup Found \/ Op(i) = AsyncCancel(s)
      <3> HIDE DEF Op, AsyncCancel
      <3> QED
        BY <1>1, <1>2, <2>2, <2>3, IssueRings
    <2> QED
      BY <2>1, <2>4
  <1>10. Rings'
    <2>1. \A s \in Slots : /\ InSyscall(s)' <=> InSyscall(s) \/ s = i
                           /\ Pending(s)' <=> Pending(s) \/ s = i
      BY <1>2, <1>3, <1>8 DEF InSyscall, Pending
    <2>2. syscall_result \subseteq Slots
      BY <1>1 DEF TypeOK
    <2> QED
      BY <1>1, <1>2, <1>9, <2>1, <2>2 DEF Rings
  <1>11. AsyncCancels'
    <2>1. cancelling' \cup Found' \subseteq Slots
      BY <1>1 DEF TypeOK, InterfaceTypeOK, Found
    <2> QED
      BY <1>1, <1>2, <1>3, <1>9, <2>1 DEF AsyncCancels
  <1> QED
    BY <1>4, <1>5, <1>6, <1>7, <1>10, <1>11 DEF RuntimeInv, StateInv

\* syscall parks again, with an AsyncCancel on its way.
LEMMA SyscallParksAgain ==
    ASSUME RuntimeInv, StackInv', NEW i \in Slots, At(i, "Sys1"), i \notin syscall_result,
           Issue(AsyncCancel(i)), Park(i, "Sys2"),
           UNCHANGED <<mode, parent, children, join_handle, is_cancelled, syscall_result,
                       target, handle, ready_fibers>>
    PROVE  RuntimeInv'
  <1>1. /\ TypeOK /\ TypeOK' /\ InterfaceTypeOK /\ Queue /\ Cancellation /\ CancelPropagates
        /\ Rings /\ AsyncCancels
    BY DEF RuntimeInv, StateInv, StackInv, TypeOK
  <1>2. /\ mode = "run" /\ running_fiber = i /\ pc[i] = "Sys1" /\ running_fiber' = NoFiber
        /\ Ready' = Ready
    BY DEF At, Park, Ready
  <1>3. \A s \in Slots : pc'[s] = IF s = i THEN "Sys2" ELSE pc[s]
    BY <1>1 DEF Park, TypeOK
  <1>4. /\ Hierarchy' /\ Rooted' /\ Handles' /\ Joins' /\ Phases'
        /\ \A s \in Slots : /\ Active(s)' <=> Active(s)
                            /\ Completed(s)' <=> Completed(s)
                            /\ Live(s)' <=> Live(s)
    BY <1>1, <1>2, <1>3, StructureFrame DEF RuntimeInv
  <1>5. i \in is_cancelled
    BY <1>1, <1>2 DEF Queue, Justified
  <1>6. Queue'
    <2>1. ASSUME NEW s \in Slots, s # i, Justified(s) PROVE Justified(s)'
      BY <1>3, <1>4, <2>1 DEF Justified
    <2> QED
      BY <1>1, <1>2, <2>1, QueueParts, ReadySlots, SlotsFacts DEF Queue
  <1>7. Cancellation'
    BY <1>1, <1>2, <1>3, <1>4, <1>5
    DEF Cancellation, CancellationReaches, Scheduled, LiveSet, Ready
  <1>8. CancelPropagates'
    BY <1>1, <1>4, PropagationFrame
  <1>9. /\ \A s \in Slots : s \in InRings' <=> s \in InRings
        /\ \A s \in Slots : s \in cancelling' \cup Found' => s \in cancelling \cup Found \/ s = i
        /\ OnePlace'
    <2>1. \A s \in Slots : (AsyncCancel(i) = AsyncCancel(s) <=> s = i) /\ AsyncCancel(i) # Op(s)
      BY DEF Op, AsyncCancel
    <2>2. AsyncCancel(i) \in Entries /\ OnePlace
      BY <1>1, EntryType DEF Rings
    <2>3. /\ OnePlace'
          /\ \A s \in Slots : s \in InRings' <=> s \in InRings \/ AsyncCancel(i) = Op(s)
          /\ \A s \in Slots : s \in cancelling' \cup Found' =>
                 s \in cancelling \cup Found \/ AsyncCancel(i) = AsyncCancel(s)
      BY <1>1, <1>2, <2>1, <2>2, IssueRings
    <2> QED
      BY <2>1, <2>3
  <1>10. Rings'
    <2>1. \A s \in Slots : /\ InSyscall(s)' <=> InSyscall(s)
                           /\ Pending(s)' <=> Pending(s)
      BY <1>2, <1>3 DEF InSyscall, Pending
    <2>2. syscall_result \subseteq Slots
      BY <1>1 DEF TypeOK
    <2> QED
      BY <1>1, <1>2, <1>9, <2>1, <2>2 DEF Rings
  <1>11. AsyncCancels'
    <2>1. cancelling' \cup Found' \subseteq Slots
      BY <1>1 DEF TypeOK, InterfaceTypeOK, Found
    <2> QED
      BY <1>1, <1>2, <1>3, <1>9, <2>1 DEF AsyncCancels
  <1> QED
    BY <1>4, <1>6, <1>7, <1>8, <1>10, <1>11 DEF RuntimeInv, StateInv

\* syscall takes its result and returns: nothing of it is left in the rings, not
\* even an AsyncCancel that could find something.
LEMMA SyscallReturns ==
    ASSUME RuntimeInv, StackInv', NEW i \in Slots, NEW l \in {"Sys1", "Sys2"}, At(i, l),
           i \in syscall_result, ReadSyscallResult(i),
           UNCHANGED <<mode, parent, children, join_handle, is_cancelled, target, handle,
                       ready_fibers>>
    PROVE  RuntimeInv'
  <1>1. /\ TypeOK /\ TypeOK' /\ InterfaceTypeOK /\ Queue /\ Cancellation /\ CancelPropagates
        /\ Rings /\ AsyncCancels
    BY DEF RuntimeInv, StateInv, StackInv, TypeOK
  <1>2. /\ mode = "run" /\ running_fiber = i /\ pc[i] \in {"Sys1", "Sys2"}
        /\ UNCHANGED <<interfaceVars, running_fiber>>
        /\ syscall_result' = syscall_result \ {i}
        /\ Ready' = Ready
    BY DEF ReadSyscallResult, At, Ready
  <1>3. \A s \in Slots : pc'[s] = IF s = i THEN "User" ELSE pc[s]
    BY <1>1 DEF ReadSyscallResult, TypeOK
  <1>4. /\ Hierarchy' /\ Rooted' /\ Handles' /\ Joins' /\ Phases'
        /\ \A s \in Slots : /\ Active(s)' <=> Active(s)
                            /\ Completed(s)' <=> Completed(s)
                            /\ Live(s)' <=> Live(s)
    BY <1>1, <1>2, <1>3, StructureFrame DEF RuntimeInv
  <1>5. Queue'
    <2>1. ASSUME NEW s \in Slots, s # i, Justified(s) PROVE Justified(s)'
      BY <1>2, <1>3, <1>4, <2>1 DEF Justified
    <2>2. Justified(i)'
      BY <1>3 DEF Justified, Active
    <2> QED
      BY <1>1, <1>2, <2>1, <2>2, QueueParts, ReadySlots, SlotsFacts DEF Queue
  <1>6. Cancellation'
    BY <1>1, <1>2, <1>3, <1>4
    DEF Cancellation, CancellationReaches, Scheduled, LiveSet, Ready
  <1>7. CancelPropagates'
    BY <1>1, <1>4, PropagationFrame
  <1>8. UNCHANGED <<sq, inflight, cancelling, cq>>
    BY <1>2 DEF interfaceVars
  <1>9. InRings' = InRings /\ Found' = Found /\ (OnePlace' <=> OnePlace)
    BY <1>8 DEF InRings, Issued, Found, OnePlace
  <1>10. ~Pending(i) /\ i \notin InRings
    BY <1>1 DEF Pending, Rings
  <1>11. Rings'
    <2>1. \A s \in Slots : /\ InSyscall(s)' <=> InSyscall(s) /\ s # i
                           /\ Pending(s)' <=> Pending(s)
      BY <1>2, <1>3 DEF InSyscall, Pending
    <2>2. syscall_result \subseteq Slots
      BY <1>1 DEF TypeOK
    <2> QED
      BY <1>1, <1>2, <1>9, <2>1, <2>2 DEF Rings
  <1>12. AsyncCancels'
    <2>1. i \notin cancelling \cup Found
      BY <1>1, <1>10 DEF InRings, Found, Issued, InterfaceTypeOK
    <2>2. cancelling \cup Found \subseteq Slots
      BY <1>1 DEF InterfaceTypeOK, Found
    <2> QED
      BY <1>1, <1>3, <1>8, <1>9, <2>1, <2>2 DEF AsyncCancels
  <1> QED
    BY <1>4, <1>5, <1>6, <1>7, <1>11, <1>12 DEF RuntimeInv, StateInv

\* syscall.
LEMMA ResumeSyscallKeeps ==
    ASSUME RuntimeInv, StackInv', NEW i \in Slots, ResumeSys1(i) \/ ResumeSys2(i)
    PROVE  RuntimeInv'
  <1>1. UNCHANGED <<mode, parent, children, join_handle, is_cancelled, target, handle,
                    ready_fibers>>
    BY DEF ResumeSys1, ResumeSys2
  <1>2. CASE ResumeSys2(i)
    <2>1. At(i, "Sys2") /\ ReadSyscallResult(i)
      BY <1>2 DEF ResumeSys2
    <2>2. i \in syscall_result
      BY <2>1 DEF At, RuntimeInv, StateInv, Queue, Justified
    <2> QED
      BY <1>1, <2>1, <2>2, SyscallReturns
  <1>3. CASE At(i, "Sys1") /\ i \in syscall_result /\ ReadSyscallResult(i)
    BY <1>1, <1>3, SyscallReturns
  <1>4. CASE /\ At(i, "Sys1") /\ i \notin syscall_result /\ Issue(AsyncCancel(i))
             /\ Park(i, "Sys2") /\ UNCHANGED syscall_result
    BY <1>1, <1>4, SyscallParksAgain
  <1> QED
    BY <1>2, <1>3, <1>4 DEF ResumeSys1

\* A step of process_io or of the kernel that leaves the fibers alone, and after
\* which the operations of the pending system calls are where they belong.
LEMMA IoFrame ==
    ASSUME StateInv, StackInv', mode = "run",
           UNCHANGED <<mode, pc, parent, children, join_handle, is_cancelled, target, handle>>,
           syscall_result \subseteq syscall_result',
           \A s \in syscall_result' : s \in syscall_result \/ s \in InRings \cap Slots,
           OnePlace',
           \A s \in Slots : s \in InRings' <=> s \in InRings /\ s \notin syscall_result',
           cancelling' \cup Found' \subseteq cancelling \cup Found,
           \A s \in Slots : Scheduled(s) => Scheduled(s)'
    PROVE  StateInv'
  <1>1. /\ TypeOK /\ TypeOK' /\ Cancellation /\ CancelPropagates /\ Rings /\ AsyncCancels
    BY DEF StateInv, StackInv
  <1>2. /\ Hierarchy' /\ Rooted' /\ Handles' /\ Joins' /\ Phases'
        /\ \A s \in Slots : /\ Completed(s)' <=> Completed(s)
                            /\ Live(s)' <=> Live(s)
    BY <1>1, StructureFrame
  <1>3. Cancellation'
    <2>1. is_cancelled \subseteq Slots
      BY <1>1 DEF TypeOK
    <2>2. CancellationReaches'
      BY <1>1, <2>1 DEF Cancellation, CancellationReaches
    <2> QED
      BY <1>1, <1>2, <2>2 DEF Cancellation, LiveSet
  <1>4. CancelPropagates'
    BY <1>1, <1>2, PropagationFrame
  <1>5. Rings'
    <2>1. \A s \in Slots : /\ InSyscall(s)' <=> InSyscall(s)
                           /\ Pending(s)' <=> Pending(s) /\ s \notin syscall_result'
      BY DEF InSyscall, Pending
    <2>2. \A s \in Slots : s \in InRings => InSyscall(s)
      BY <1>1 DEF Rings, Pending
    <2>3. syscall_result \subseteq Slots
      BY <1>1 DEF TypeOK
    <2> QED
      BY <1>1, <2>1, <2>2, <2>3 DEF Rings
  <1>6. AsyncCancels'
    BY <1>1 DEF AsyncCancels
  <1> QED
    BY <1>2, <1>3, <1>4, <1>5, <1>6 DEF StateInv

\* process_completed, the choice of the next fiber, submit_and_wait.
LEMMA ProcessIoKeeps ==
    ASSUME RuntimeInv, StackInv', ProcessIo
    PROVE  RuntimeInv'
  <1>1. /\ TypeOK /\ TypeOK' /\ InterfaceTypeOK /\ Queue /\ Rings /\ OnePlace
        /\ mode = "run" /\ running_fiber = NoFiber
        /\ ready_fibers \in Seq(Slots) /\ IsInjective(ready_fibers)
        /\ Ready \subseteq Slots
    BY ReadySlots
    DEF RuntimeInv, StateInv, StackInv, TypeOK, Rings, Queue, ProcessIo, ProcessCompleted, PopReady,
        SubmitAndWait, InProcessIo
  <1>2. \A s \in Slots : s \in InRings => s \notin syscall_result
    BY <1>1 DEF Rings, Pending
  <1>3. CASE ProcessCompleted
    <2>1. /\ UNCHANGED <<mode, pc, parent, children, join_handle, is_cancelled, target, handle,
                         running_fiber>>
          /\ ReadCompletion
      BY <1>3 DEF ProcessCompleted
    <2>2. CASE Head(cq) = ASYNC_CANCELLATION_USER_DATA
      <3>1. UNCHANGED <<syscall_result, ready_fibers>>
        BY <1>3, <2>2, SlotsFacts DEF ProcessCompleted
      <3>2. \A s \in Slots : s # Head(cq)
        BY <2>2, SlotsFacts
      <3>3. Queue'
        BY <1>1, <2>1, <3>1 DEF Queue, Justified, Ready, Active, Completed
      <3>4. \A s \in Slots : Scheduled(s) => Scheduled(s)'
        BY <2>1, <3>1 DEF Scheduled
      <3>5. /\ OnePlace' /\ cancelling' \cup Found' \subseteq cancelling \cup Found
            /\ \A s \in Slots : s \in InRings' <=> s \in InRings /\ s \notin syscall_result'
        BY <1>1, <1>2, <2>1, <3>1, <3>2, ReadRings
      <3> QED
        BY <1>1, <2>1, <3>1, <3>3, <3>4, <3>5, IoFrame DEF RuntimeInv
    <2>3. CASE Head(cq) # ASYNC_CANCELLATION_USER_DATA
      <3>1. PICK h \in Slots : h = Head(cq) /\ h \in InRings
        BY <1>1, <2>1, <2>3, ReadRings
      <3>2. syscall_result' = syscall_result \cup {h} /\ ready_fibers' = Schedule(ready_fibers, h)
        BY <1>3, <2>3, <3>1 DEF ProcessCompleted
      <3>3. Ready' = Ready \cup {h} /\ IsInjective(ready_fibers')
        BY <1>1, <3>2, ScheduleSet DEF Ready
      <3>4. Queue'
        <4>1. ASSUME NEW s \in Slots, Justified(s) PROVE Justified(s)'
          BY <2>1, <3>2, <4>1 DEF Justified, Active, Completed
        <4>2. Justified(h)'
          <5>1. pc[h] \in {"Sys1", "Sys2"}
            BY <1>1, <3>1 DEF Rings, Pending, InSyscall
          <5> QED
            BY <2>1, <3>2, <5>1 DEF Justified, Active
        <4> QED
          BY <1>1, <2>1, <3>3, <4>1, <4>2, QueueParts, SlotsFacts DEF Queue
      <3>5. \A s \in Slots : Scheduled(s) => Scheduled(s)'
        BY <2>1, <3>3 DEF Scheduled, Ready
      <3>6. /\ OnePlace' /\ cancelling' \cup Found' \subseteq cancelling \cup Found
            /\ \A s \in Slots : s \in InRings' <=> s \in InRings /\ s # h
        BY <1>1, <2>1, <3>1, ReadRings
      <3>7. \A s \in Slots : s \in InRings' <=> s \in InRings /\ s \notin syscall_result'
        BY <1>2, <3>2, <3>6
      <3> QED
        BY <1>1, <2>1, <3>1, <3>2, <3>4, <3>5, <3>6, <3>7, IoFrame DEF RuntimeInv
    <2> QED
      BY <2>2, <2>3
  <1>4. CASE PopReady
    <2>1. /\ ready_fibers # <<>> /\ running_fiber' = Head(ready_fibers)
          /\ ready_fibers' = Tail(ready_fibers)
          /\ UNCHANGED <<sq, inflight, cancelling, cq, mode, pc, parent, children, join_handle,
                         is_cancelled, syscall_result, target, handle>>
      BY <1>4 DEF PopReady, fiberVars, interfaceVars
    <2>2. /\ running_fiber' \in Ready /\ Ready = Ready' \cup {running_fiber'}
          /\ IsInjective(ready_fibers') /\ running_fiber' \notin Ready'
      BY <1>1, <2>1, TailSet DEF Ready
    <2>3. Queue'
      <3>1. \A s \in Slots : Justified(s)' <=> Justified(s)
        BY <2>1 DEF Justified, Active, Completed
      <3> QED
        BY <1>1, <2>1, <2>2, <3>1, QueueParts DEF Queue
    <2>4. \A s \in Slots : Scheduled(s) => Scheduled(s)'
      BY <1>1, <2>2, SlotsFacts DEF Scheduled, Ready
    <2>5. InRings' = InRings /\ Found' = Found /\ OnePlace'
      BY <1>1, <2>1 DEF InRings, Issued, Found, OnePlace
    <2> QED
      BY <1>1, <1>2, <2>1, <2>3, <2>4, <2>5, IoFrame DEF RuntimeInv
  <1>5. CASE SubmitAndWait
    <2>1. /\ Consume /\ sq' = <<>>
          /\ UNCHANGED <<mode, pc, parent, children, join_handle, is_cancelled, syscall_result,
                         target, handle, ready_fibers, running_fiber>>
      BY <1>5 DEF SubmitAndWait, WaitForCompleted, fiberVars, schedVars
    <2>2. Queue' /\ \A s \in Slots : Scheduled(s) => Scheduled(s)'
      BY <1>1, <2>1 DEF Queue, Justified, Ready, Active, Completed, Scheduled
    <2>3. /\ OnePlace' /\ cancelling' \cup Found' \subseteq cancelling \cup Found
          /\ \A s \in Slots : s \in InRings' <=> s \in InRings
      BY <1>1, <2>1, WaitRings
    <2> QED
      BY <1>1, <1>2, <2>1, <2>2, <2>3, IoFrame DEF RuntimeInv
  <1> QED
    BY <1>3, <1>4, <1>5 DEF ProcessIo

\* The kernel.
LEMMA KernelKeeps ==
    ASSUME StateInv, StackInv', NEW id \in Slots, Kernel(id)
    PROVE  StateInv' /\ (Queue => Queue')
  <1>1. TypeOK /\ InterfaceTypeOK /\ Rings /\ OnePlace
    BY DEF StateInv, StackInv, TypeOK, Rings
  <1>2. \A s \in Slots : s \in InRings => s \notin syscall_result
    BY <1>1 DEF Rings, Pending
  <1>3. /\ mode = "run" /\ KernelComplete(id)
        /\ UNCHANGED <<mode, pc, parent, children, join_handle, is_cancelled, syscall_result,
                       target, handle, ready_fibers, running_fiber>>
    BY DEF Kernel, fiberVars, schedVars
  <1>4. (Queue => Queue') /\ \A s \in Slots : Scheduled(s) => Scheduled(s)'
    BY <1>3 DEF Queue, Justified, Ready, Active, Completed, Scheduled
  <1>5. /\ OnePlace' /\ cancelling' \cup Found' \subseteq cancelling \cup Found
        /\ \A s \in Slots : s \in InRings' <=> s \in InRings
    BY <1>1, <1>3, KernelRings
  <1> QED
    BY <1>1, <1>2, <1>3, <1>4, <1>5, IoFrame

-----------------------------------------------------------------------------
(* The end of fibers and of the runtime. *)

\* start_trampoline returns: when the root has no children, nobody else is left.
LEMMA ReturnKeeps ==
    ASSUME RuntimeInv, StackInv', mode = "run", running_fiber = Root, children[Root] = {},
           pc[Root] = "Children" \/ (pc[Root] = "User" /\ Held(Root) = {}), ReturnFromStart
    PROVE  RuntimeInv'
  <1>1. /\ TypeOK /\ TypeOK' /\ Hierarchy /\ Rooted /\ Handles /\ Joins /\ Queue /\ Cancellation
        /\ CancelPropagates /\ Rings /\ AsyncCancels /\ Phases /\ Root \in Slots
    BY SlotsFacts DEF RuntimeInv, StateInv, StackInv
  <1>2. /\ \A s \in Slots : pc'[s] = IF s = Root THEN "Done" ELSE pc[s]
        /\ is_cancelled' = is_cancelled \cup {Root} /\ mode' = "exited"
        /\ UNCHANGED <<interfaceVars, parent, children, join_handle, syscall_result, target, handle,
                       ready_fibers, running_fiber>>
    BY <1>1 DEF ReturnFromStart, TypeOK, schedVars
  <1>3. \A s \in Slots : Active(s) => s = Root
    <2>1. {Root} \in SUBSET Slots /\ Root \in {Root} /\ Closed({Root})
      BY <1>1 DEF Closed
    <2> QED
      BY <1>1, <2>1 DEF Rooted
  <1>4. \A s \in Slots : ~Active(s)' /\ ~Joining(s) /\ ~Joining(s)' /\ ~InSyscall(s)'
    BY <1>2, <1>3 DEF Active, Joining, InSyscall
  <1>5. Ready' = Ready /\ Ready = {}
    <2>1. \A s \in Ready : Active(s) /\ s # Root
      BY <1>1 DEF Queue, Justified
    <2> QED
      BY <1>1, <1>2, <1>3, <2>1, ReadySlots DEF Ready
  <1>6. \A s \in Slots : children[s] = {}
    <2>1. \A s \in Slots : \A c \in children[s] : Active(c) /\ parent[c] = s /\ c \in Slots
      BY <1>1, SlotTypes DEF Hierarchy
    <2>2. parent[Root] \notin Slots
      BY <1>1, SlotsFacts DEF Hierarchy
    <2> QED
      BY <1>1, <1>3, <2>1, <2>2, SlotTypes
  <1>7. Hierarchy'
    BY <1>1, <1>2, <1>4, <1>6 DEF Hierarchy
  <1>8. Rooted'
    BY <1>4 DEF Rooted
  <1>9. \A s \in Slots : /\ handle[s] \notin Slots /\ join_handle[s] \notin Slots
                         /\ join_handle[s] # Dropped /\ join_handle[s] # WaitingNone
                         /\ target[s] = NoFiber
    <2>1. \A s \in Slots : handle[s] # Root
      BY <1>1 DEF Handles, Held
    <2>2. \A s \in Slots : handle[s] \notin Slots
      BY <1>1, <1>3, <2>1 DEF Handles
    <2>3. \A s \in Slots : join_handle[s] # Dropped
      BY <1>1, <1>3 DEF Handles, Unused, Dropped
    <2>4. \A s \in Slots : join_handle[s] \notin Slots /\ join_handle[s] # WaitingNone
      BY <1>1, <2>2, JoinOwner
    <2> QED
      BY <1>1, <1>4, <2>2, <2>3, <2>4 DEF Joins
  <1>10. Handles'
    BY <1>1, <1>2, <1>9 DEF Handles
  <1>11. Joins'
    BY <1>2, <1>4, <1>9 DEF Joins
  <1>12. Queue'
    BY <1>1, <1>2, <1>5, QueueParts DEF Queue
  <1>13. Cancellation'
    <2>1. is_cancelled' \subseteq LiveSet' /\ is_cancelled' \subseteq Slots
      BY <1>1, <1>2 DEF Cancellation, LiveSet, Live
    <2>2. \A s \in Slots : Completed(s)' \/ pc'[s] \in {"Sys2", "Join2"} => s \in is_cancelled'
      BY <1>1, <1>2 DEF Cancellation, Completed
    <2>3. CancellationReaches'
      BY <1>4, <2>1 DEF CancellationReaches, InSyscall, Joining
    <2> QED
      BY <2>1, <2>2, <2>3 DEF Cancellation
  <1>14. CancelPropagates'
    BY <1>1, <1>2, PropagationFrame DEF Completed
  <1>15. Rings' /\ AsyncCancels'
    BY <1>1, <1>2, RingsFrame
  <1>16. Phases'
    BY <1>2, <1>4 DEF Phases
  <1> QED
    BY <1>7, <1>8, <1>10, <1>11, <1>12, <1>13, <1>14, <1>15, <1>16 DEF RuntimeInv, StateInv

\* The runtime is dropped.
LEMMA DropKeeps ==
    ASSUME RuntimeInv, StackInv', DropRuntime
    PROVE  RuntimeInv'
  <1>1. /\ TypeOK /\ TypeOK' /\ Hierarchy /\ Rooted /\ Handles /\ Joins /\ Queue /\ Cancellation
        /\ CancelPropagates /\ Rings /\ AsyncCancels /\ Phases
    BY DEF RuntimeInv, StateInv, StackInv
  <1>2. /\ mode = "exited" /\ mode' = "down" /\ mapped' = mapped - stack_pool
        /\ UNCHANGED <<interfaceVars, pc, parent, children, join_handle, is_cancelled,
                       syscall_result, target, handle, ready_fibers, running_fiber>>
    BY DEF DropRuntime, fiberVars, schedVars
  <1>3. \A s \in Slots : /\ Active(s)' <=> Active(s)
                         /\ Joining(s)' <=> Joining(s)
                         /\ Completed(s)' <=> Completed(s)
                         /\ Live(s)' <=> Live(s)
    BY <1>2 DEF Active, Joining, Completed, Live
  <1>4. Hierarchy' /\ Handles' /\ Joins'
    BY <1>1, <1>2, <1>3, SlotTypes DEF Hierarchy, Handles, Joins
  <1>5. Rooted'
    BY <1>1, <1>2, <1>3, RootedFrame
  <1>6. Queue'
    <2>1. \A s \in Slots : Justified(s)' <=> Justified(s)
      BY <1>2, <1>3 DEF Justified
    <2>2. Ready' = Ready
      BY <1>2 DEF Ready
    <2> QED
      BY <1>1, <1>2, <2>1, <2>2, QueueParts DEF Queue
  <1>7. Cancellation'
    BY <1>1, <1>2, <1>3 DEF Cancellation, CancellationReaches, Scheduled, LiveSet
  <1>8. CancelPropagates'
    BY <1>1, <1>2, <1>3, PropagationFrame
  <1>9. Rings' /\ AsyncCancels'
    BY <1>1, <1>2, RingsFrame
  <1>10. mapped' = Cardinality(LiveSet' \ {Root})
    <2>1. Root \in LiveSet /\ LiveSet' = LiveSet
      BY <1>2, <1>3, SlotsFacts DEF RuntimeInv, StateInv, StackInv, ModeKnown, LiveSet, Live
    <2>2. mapped + 1 = stack_pool + Cardinality(LiveSet)
      BY <1>2 DEF RuntimeInv, StateInv, StackInv, StacksConserved, LiveSet
    <2>3. Cardinality(LiveSet \ {Root}) = Cardinality(LiveSet) - 1
      BY <2>1, LiveSetFinite, FS_RemoveElement
    <2>4. mapped \in Nat /\ stack_pool \in Nat /\ Cardinality(LiveSet) \in Nat
      BY <1>1, LiveSetFinite DEF TypeOK
    <2> QED
      BY <1>2, <2>1, <2>2, <2>3, <2>4
  <1>11. Phases'
    BY <1>1, <1>2, <1>3, <1>10 DEF Phases
  <1> QED
    BY <1>4, <1>5, <1>6, <1>7, <1>8, <1>9, <1>11 DEF RuntimeInv, StateInv

\* What the end of spawn_trampoline does, slab entry by slab entry.
LEMMA LeaveFacts ==
    ASSUME StateInv, NEW i \in Slots \ {Root}, children[i] = {}, pc[i] \in {"User", "Children"},
           NEW q \in Seq(Slots), NEW C \in SUBSET Slots, Leave(i, q, C)
    PROVE  \E p \in Slots \ {i} :
             /\ parent[i] = p /\ i \in children[p] /\ Active(p)
             /\ UNCHANGED <<interfaceVars, mode, target, handle, syscall_result>>
             /\ running_fiber' = NoFiber
             /\ \/ ready_fibers' = q
                \/ ready_fibers' = Schedule(q, p) /\ Completed(p) /\ children'[p] = {}
             /\ \A s \in Slots \ {i} : /\ pc'[s] = pc[s] /\ parent'[s] = parent[s]
                                       /\ join_handle'[s] = join_handle[s]
             /\ \A s \in Slots : children'[s] = IF s = p THEN children[s] \ {i} ELSE children[s]
             /\ \/ /\ join_handle[i] = Dropped /\ pc'[i] = "Vacant"
                   /\ parent' = [parent EXCEPT ![i] = NoFiber] /\ parent'[i] = NoFiber
                   /\ join_handle'[i] = Unused /\ is_cancelled' = C \ {i}
                \/ /\ join_handle[i] # Dropped /\ pc'[i] = "Done" /\ parent' = parent
                   /\ join_handle'[i] = IF join_handle[i] \in Slots THEN WaitingNone
                                        ELSE join_handle[i]
                   /\ is_cancelled' = C
  <1> DEFINE p == parent[i]
             kids == [children EXCEPT ![p] = @ \ {i}]
  <1>1. TypeOK /\ Hierarchy /\ Rings
    BY DEF StateInv, StackInv
  <1>2. p \in Slots \ {i} /\ i \in children[p] /\ Active(p)
    <2>1. Active(i)
      BY DEF Active
    <2> QED
      BY <1>1, <2>1 DEF Hierarchy
  <1>3. /\ ready_fibers' = IF LastChild(p, kids) THEN Schedule(q, p) ELSE q
        /\ running_fiber' = NoFiber
        /\ UNCHANGED <<interfaceVars, mode, target, handle>>
        /\ \/ /\ join_handle[i] = Dropped
              /\ Free(i, pc, kids, C)
           \/ /\ join_handle[i] # Dropped
              /\ pc' = [pc EXCEPT ![i] = "Done"]
              /\ children' = kids
              /\ is_cancelled' = C
              /\ join_handle' = [join_handle EXCEPT ![i] = IF @ \in Slots THEN WaitingNone ELSE @]
              /\ UNCHANGED <<parent, syscall_result>>
    BY DEF Leave
  <1> HIDE DEF p
  <1>4. /\ kids \in [Slots -> SUBSET Slots]
        /\ \A s \in Slots : kids[s] = IF s = p THEN children[s] \ {i} ELSE children[s]
        /\ kids[i] = {}
    BY <1>1, <1>2 DEF TypeOK
  <1> HIDE DEF kids
  <1>5. LastChild(p, kids) => Completed(p) /\ kids[p] = {}
    BY DEF LastChild
  <1>6. CASE join_handle[i] = Dropped
    <2>1. Free(i, pc, kids, C)
      BY <1>3, <1>6
    <2>2. /\ \A s \in Slots \ {i} : /\ pc'[s] = pc[s] /\ parent'[s] = parent[s]
                                    /\ join_handle'[s] = join_handle[s]
          /\ pc'[i] = "Vacant" /\ parent' = [parent EXCEPT ![i] = NoFiber]
          /\ parent'[i] = NoFiber /\ join_handle'[i] = Unused /\ is_cancelled' = C \ {i}
      BY <1>1, <2>1 DEF Free, TypeOK
    <2>3. \A s \in Slots : children'[s] = kids[s]
      BY <1>4, <2>1 DEF Free
    <2>4. syscall_result' = syscall_result
      BY <1>1, <2>1, FreeResult DEF Free
    <2> QED
      <3>1. \/ ready_fibers' = q
            \/ ready_fibers' = Schedule(q, p) /\ Completed(p) /\ children'[p] = {}
        BY <1>2, <1>3, <1>5, <2>3
      <3>2. \A s \in Slots : children'[s] = IF s = p THEN children[s] \ {i} ELSE children[s]
        BY <1>4, <2>3
      <3>3. /\ UNCHANGED <<interfaceVars, mode, target, handle, syscall_result>>
            /\ running_fiber' = NoFiber
        BY <1>3, <2>4
      <3>4. parent[i] = p
        BY DEF p
      <3> QED
        BY <1>2, <1>6, <2>2, <3>1, <3>2, <3>3, <3>4
  <1>7. CASE join_handle[i] # Dropped
    <2>1. /\ pc' = [pc EXCEPT ![i] = "Done"] /\ children' = kids /\ is_cancelled' = C
          /\ join_handle' = [join_handle EXCEPT ![i] = IF @ \in Slots THEN WaitingNone ELSE @]
          /\ UNCHANGED <<parent, syscall_result>>
      BY <1>3, <1>7
    <2>2. /\ \A s \in Slots \ {i} : /\ pc'[s] = pc[s] /\ join_handle'[s] = join_handle[s]
          /\ pc'[i] = "Done"
          /\ join_handle'[i] = IF join_handle[i] \in Slots THEN WaitingNone ELSE join_handle[i]
      BY <1>1, <2>1 DEF TypeOK
    <2> QED
      BY <1>2, <1>3, <1>4, <1>5, <1>7, <2>1, <2>2 DEF p
  <1> QED
    BY <1>6, <1>7

\* The end of spawn_trampoline, given the queue q and the cancelled fibers C that
\* the notification left.
LEMMA LeaveKeeps ==
    ASSUME StateInv, StackInv', NEW i \in Slots \ {Root}, mode = "run", running_fiber = i,
           children[i] = {}, pc[i] = "Children" \/ (pc[i] = "User" /\ Held(i) = {}),
           NEW q \in Seq(Slots), NEW C \in SUBSET Slots, Leave(i, q, C),
           IsInjective(q), Ready \subseteq ToSet(q), i \notin ToSet(q),
           is_cancelled \cup {i} \subseteq C, C \subseteq LiveSet,
           C \subseteq is_cancelled \cup {i} \cup ToSet(q),
           \A s \in C \ {i} : ~Completed(s) => Descendants(s) \subseteq C,
           \A s \in ToSet(q) :
               \/ Justified(s)
               \/ pc[s] = "Children" /\ children[s] = {i}
               \/ s = join_handle[i]
               \/ s \in C /\ Active(s) /\ pc[s] \notin {"Sys2", "Join2", "Children"}
    PROVE  RuntimeInv'
  <1>1. /\ TypeOK /\ TypeOK' /\ Hierarchy /\ Rooted /\ Handles /\ Joins /\ Cancellation
        /\ CancelPropagates /\ Rings /\ AsyncCancels /\ Phases
    BY DEF StateInv, StackInv
  <1>2. PICK p \in Slots \ {i} :
             /\ parent[i] = p /\ i \in children[p] /\ Active(p)
             /\ UNCHANGED <<interfaceVars, mode, target, handle, syscall_result>>
             /\ running_fiber' = NoFiber
             /\ \/ ready_fibers' = q
                \/ ready_fibers' = Schedule(q, p) /\ Completed(p) /\ children'[p] = {}
             /\ \A s \in Slots \ {i} : /\ pc'[s] = pc[s] /\ parent'[s] = parent[s]
                                       /\ join_handle'[s] = join_handle[s]
             /\ \A s \in Slots : children'[s] = IF s = p THEN children[s] \ {i} ELSE children[s]
             /\ \/ /\ join_handle[i] = Dropped /\ pc'[i] = "Vacant"
                   /\ parent' = [parent EXCEPT ![i] = NoFiber] /\ parent'[i] = NoFiber
                   /\ join_handle'[i] = Unused /\ is_cancelled' = C \ {i}
                \/ /\ join_handle[i] # Dropped /\ pc'[i] = "Done" /\ parent' = parent
                   /\ join_handle'[i] = IF join_handle[i] \in Slots THEN WaitingNone
                                        ELSE join_handle[i]
                   /\ is_cancelled' = C
    BY LeaveFacts
  <1>3. /\ ~Joining(i) /\ Active(i) /\ ~Active(i)' /\ ~Joining(i)'
        /\ pc'[i] \in {"Vacant", "Done"} /\ (pc'[i] = "Vacant" <=> join_handle[i] = Dropped)
        /\ (Completed(i)' <=> pc'[i] = "Done") /\ (Live(i)' <=> pc'[i] = "Done")
    BY <1>2 DEF Joining, Active, Completed, Live
  <1>4. \A s \in Slots \ {i} : /\ Active(s)' <=> Active(s)
                               /\ Joining(s)' <=> Joining(s)
                               /\ Completed(s)' <=> Completed(s)
                               /\ Live(s)' <=> Live(s)
    BY <1>2 DEF Joining, Active, Completed, Live
  <1>5. \A s \in Slots : handle[s] # i
    BY <1>1 DEF Handles, Held
  <1>6. join_handle[i] = Dropped => \A s \in Slots : target[s] # i
    <2>1. ASSUME NEW s \in Slots, target[s] = i PROVE join_handle[i] # Dropped
      <3>1. Joining(s)
        BY <1>1, <2>1, SlotsFacts DEF Joins
      <3> QED
        BY <1>1, <2>1, <3>1, SlotsFacts DEF Joins, Dropped, WaitingNone
    <2> QED
      BY <2>1
  <1>7. Hierarchy'
    <2>1. parent'[Root] = NoFiber
      BY <1>1, <1>2, SlotsFacts DEF Hierarchy
    <2>2. \A s \in Slots : pc'[s] = "Vacant" => parent'[s] = NoFiber
      BY <1>1, <1>2 DEF Hierarchy
    <2>links. /\ \A s \in Slots \ {i} : parent'[s] = parent[s] /\ pc'[s] = pc[s]
              /\ \A s, c \in Slots : c # i => (c \in children'[s] <=> c \in children[s])
              /\ \A s \in Slots : children'[s] \subseteq children[s]
      <3>1. \A s \in Slots : children'[s] = IF s = p THEN children[s] \ {i} ELSE children[s]
        BY <1>2, Zenon
      <3>2. /\ \A s \in Slots \ {i} : pc'[s] = pc[s]
            /\ \A s \in Slots \ {i} : parent'[s] = parent[s]
        BY <1>2, Zenon
      <3> QED
        BY <3>1, <3>2
    <2>3. ASSUME NEW s \in Slots \ {Root}, Active(s)'
          PROVE  \E d \in Slots : parent'[s] = d /\ s \in children'[d] /\ Active(d)'
      <3>1. s # i /\ Active(s)
        BY <1>3, <1>4, <2>3
      <3>2. PICK d \in Slots : parent[s] = d /\ s \in children[d] /\ Active(d)
        BY <1>1, <3>1 DEF Hierarchy
      <3>3. d # i
        BY <3>2
      <3> QED
        BY <1>4, <2>links, <3>1, <3>2, <3>3
    <2>4. ASSUME NEW s \in Slots, NEW c \in children'[s]
          PROVE  Active(c)' /\ parent'[c] = s
      <3>1. c \in children[s] /\ c \in Slots
        BY <1>1, <2>links, SlotTypes
      <3>2. Active(c) /\ parent[c] = s
        BY <1>1, <3>1 DEF Hierarchy
      <3>3. c # i
        BY <1>2, <2>4, <3>2
      <3> QED
        BY <1>2, <1>4, <3>1, <3>2, <3>3
    <2> QED
      BY <2>1, <2>2, <2>3, <2>4 DEF Hierarchy
  <1>8. Rooted'
    <2> SUFFICES ASSUME NEW S \in SUBSET Slots, Root \in S,
                        \A d \in S : children'[d] \subseteq S,
                        NEW s \in Slots, Active(s)'
                 PROVE  s \in S
      BY DEF Rooted, Closed
    <2> DEFINE T == S \cup {i}
    <2>1. T \in SUBSET Slots /\ Root \in T
      OBVIOUS
    <2>2. \A d \in T : children[d] \subseteq T
      BY <1>2
    <2>3. Active(s) /\ s # i
      BY <1>3, <1>4
    <2> HIDE DEF T
    <2>4. s \in T
      BY <1>1, <2>1, <2>2, <2>3 DEF Rooted, Closed
    <2> QED
      BY <2>3, <2>4 DEF T
  <1>9. Handles'
    <2>1. handle'[Root] = NoFiber /\ join_handle'[Root] = Unused
      BY <1>1, <1>2, SlotsFacts DEF Handles
    <2>2. ASSUME NEW s \in Slots, NEW h \in Slots, handle'[s] = h
          PROVE  /\ Live(s)' /\ pc'[s] # "Children"
                 /\ Active(h)' /\ pc'[h] # "Children"
      <3>1. /\ handle[s] = h /\ h # i /\ Live(s) /\ pc[s] # "Children"
            /\ Active(h) /\ pc[h] # "Children"
        BY <1>1, <1>2, <1>5, <2>2 DEF Handles
      <3>2. s = i => pc'[i] = "Done"
        BY <1>1, <1>3, <3>1, SlotsFacts DEF Handles
      <3> QED
        BY <1>2, <1>3, <1>4, <3>1, <3>2
    <2>3. ASSUME NEW s \in Slots, join_handle'[s] = Dropped
          PROVE  Active(s)' /\ handle'[s] = NoFiber
      <3>1. s # i /\ join_handle[s] = Dropped
        BY <1>2, <2>3 DEF Unused, Dropped, WaitingNone
      <3> QED
        BY <1>1, <1>2, <1>4, <3>1 DEF Handles
    <2> QED
      BY <2>1, <2>2, <2>3 DEF Handles
  <1>10. Joins'
    <2>1. ASSUME NEW s \in Slots, join_handle'[s] = WaitingNone
          PROVE  /\ pc'[s] = "Done"
                 /\ \E h \in Slots : handle'[s] = h /\ Joining(h)' /\ target'[h] = s
      <3>1. join_handle[s] \in Slots \cup {WaitingNone}
        BY <1>2, <2>1 DEF Unused, WaitingNone
      <3>2. PICK h \in Slots : handle[s] = h /\ Joining(h) /\ target[h] = s
        BY <1>1, <3>1, JoinOwner
      <3>3. h # i
        BY <1>3, <3>2
      <3>4. pc'[s] = "Done"
        <4>1. CASE s = i
          BY <1>3, <3>1, <4>1, SlotsFacts DEF Dropped, WaitingNone
        <4>2. CASE s # i
          BY <1>1, <1>2, <2>1, <4>2 DEF Joins
        <4> QED
          BY <4>1, <4>2
      <3> QED
        BY <1>2, <1>4, <3>2, <3>3, <3>4
    <2>2. ASSUME NEW s \in Slots, NEW h \in Slots, join_handle'[s] = h
          PROVE  Active(s)' /\ Joining(h)' /\ target'[h] = s
      <3>1. s # i /\ join_handle[s] = h
        BY <1>2, <2>2, SlotsFacts
      <3>2. Active(s) /\ Joining(h) /\ target[h] = s
        BY <1>1, <3>1 DEF Joins
      <3> QED
        BY <1>2, <1>3, <1>4, <3>1, <3>2
    <2>3. ASSUME NEW s \in Slots, Joining(s)'
          PROVE  \E t \in Slots : /\ target'[s] = t /\ handle'[t] = s
                                  /\ join_handle'[t] = s \/ join_handle'[t] = WaitingNone
      <3>1. Joining(s) /\ s # i
        BY <1>3, <1>4, <2>3
      <3>2. PICK t \in Slots : /\ target[s] = t /\ handle[t] = s
                               /\ join_handle[t] = s \/ join_handle[t] = WaitingNone
        BY <1>1, <3>1 DEF Joins
      <3>3. t = i => join_handle'[t] = WaitingNone
        BY <1>2, <1>6, <3>2, SlotsFacts DEF Unused, WaitingNone
      <3> QED
        BY <1>2, <3>2, <3>3
    <2>4. \A s \in Slots : ~Joining(s)' => target'[s] = NoFiber
      BY <1>1, <1>2, <1>3, <1>4 DEF Joins
    <2> QED
      BY <2>1, <2>2, <2>3, <2>4 DEF Joins
  <1>11. /\ ToSet(q) \subseteq Ready' /\ IsInjective(ready_fibers')
         /\ \A s \in Slots : s \in Ready' =>
                s \in ToSet(q) \/ (s = p /\ Completed(p) /\ children'[p] = {})
    BY <1>2, ScheduleSet DEF Ready
  <1>12. \A s \in is_cancelled : s # i => s \in is_cancelled'
    BY <1>2
  <1>13. Queue'
    <2>1. ASSUME NEW s \in Slots, s # i, Justified(s) PROVE Justified(s)'
      <3>1. \A t \in Slots : target[s] = t /\ Completed(t) => Completed(t)'
        BY <1>3, <1>4, <1>6
      <3>2. children[s] = {} => children'[s] = {}
        BY <1>2
      <3> QED
        BY <1>2, <1>4, <1>12, <2>1, <3>1, <3>2 DEF Justified
    <2>2. ASSUME NEW s \in Slots, s = join_handle[i], s # i PROVE Justified(s)'
      <3>1. Joining(s) /\ target[s] = i
        BY <1>1, <2>2 DEF Joins
      <3>2. Completed(i)' /\ pc'[s] \in {"Join1", "Join2"}
        BY <1>2, <1>3, <1>6, <2>2, <3>1 DEF Joining
      <3> QED
        BY <1>2, <3>1, <3>2 DEF Justified, Active
    <2>3. ASSUME NEW s \in Slots, s # i, s \in C, Active(s),
                 pc[s] \notin {"Sys2", "Join2", "Children"}
          PROVE  Justified(s)'
      BY <1>2, <1>4, <2>3 DEF Justified
    <2>4. Completed(p) /\ children'[p] = {} => Justified(p)'
      <3>1. Completed(p) => pc'[p] = "Children"
        BY <1>2 DEF Active, Completed
      <3> QED
        BY <3>1 DEF Justified, Active
    <2>5. ASSUME NEW s \in Slots, pc[s] = "Children", children[s] = {i} PROVE Justified(s)'
      <3>1. s = p /\ Completed(p)
        BY <1>1, <1>2, <2>5 DEF Hierarchy, Completed
      <3>2. children'[p] = {}
        BY <1>2, <2>5, <3>1
      <3> QED
        BY <2>4, <3>1, <3>2
    <2>6. ASSUME NEW s \in Slots, s \in Ready' PROVE Justified(s)'
      BY <1>11, <2>1, <2>2, <2>3, <2>4, <2>5, <2>6
    <2>7. running_fiber' \notin Ready' /\ \A s \in Slots : running_fiber' # s
      BY <1>1, <1>2, SlotsFacts DEF Ready, ToSet, TypeOK
    <2> QED
      BY <1>1, <1>11, <2>6, <2>7, QueueParts
  <1>14. Cancellation'
    <2>1. is_cancelled' \subseteq LiveSet' /\ is_cancelled' \subseteq C
      BY <1>2, <1>3, <1>4 DEF LiveSet
    <2>2. \A s \in Slots : Completed(s)' \/ pc'[s] \in {"Sys2", "Join2"} => s \in is_cancelled'
      <3>1. \A s \in Slots : Completed(s) \/ pc[s] \in {"Sys2", "Join2"} => s \in C
        BY <1>1 DEF Cancellation
      <3> QED
        BY <1>2, <1>3, <1>4, <3>1
    <2>3. ASSUME NEW s \in is_cancelled', ~Scheduled(s)', s # i
          PROVE  s \in is_cancelled /\ ~Scheduled(s) /\ s \in Slots
      <3>1. s \notin ToSet(q)
        BY <1>11, <2>3 DEF Scheduled, Ready
      <3> QED
        BY <2>1, <2>3, <3>1 DEF Scheduled, Ready
    <2>4. ASSUME NEW s \in is_cancelled', ~Scheduled(s)'
          PROVE  pc'[s] # "Sys1" /\ (pc'[s] \in {"Join1", "Join2"} => target'[s] \in is_cancelled')
      <3>1. CASE s = i
        BY <1>3, <3>1
      <3>2. CASE s # i
        <4>1. /\ s \in Slots /\ pc[s] # "Sys1"
              /\ pc[s] \in {"Join1", "Join2"} => target[s] \in is_cancelled
          BY <1>1, <2>3, <2>4, <3>2 DEF Cancellation, CancellationReaches
        <4>2. pc[s] \in {"Join1", "Join2"} => target[s] \in is_cancelled'
          BY <1>2, <1>6, <4>1
        <4> QED
          BY <1>2, <3>2, <4>1, <4>2
      <3> QED
        BY <3>1, <3>2
    <2> QED
      BY <2>1, <2>2, <2>4 DEF Cancellation, CancellationReaches
  <1>15. CancelPropagates'
    <2>1. CASE pc'[i] = "Vacant"
      BY <1>1, <1>2, <1>4, <2>1, PropagationFree
    <2>2. CASE pc'[i] = "Done"
      <3>1. \A s \in Slots : Descendants(s)' = Descendants(s)
        BY <1>2, <2>2 DEF Descendants
      <3>2. is_cancelled' = C /\ Completed(i)'
        BY <1>2, <1>3, <2>2
      <3> QED
        BY <1>4, <3>1, <3>2 DEF CancelPropagates
    <2> QED
      BY <1>3, <2>1, <2>2
  <1>16. Rings' /\ AsyncCancels'
    BY <1>1, <1>2, <1>3, RingsFrame
  <1>17. Phases'
    BY <1>1, <1>2, <1>4, SlotsFacts DEF Phases
  <1> QED
    BY <1>7, <1>8, <1>9, <1>10, <1>13, <1>14, <1>15, <1>16, <1>17 DEF RuntimeInv, StateInv

\* The end of a fiber other than the root: whom it notifies.
LEMMA RetireKeeps ==
    ASSUME RuntimeInv, StackInv', NEW i \in Slots \ {Root}, mode = "run", running_fiber = i,
           children[i] = {}, pc[i] = "Children" \/ (pc[i] = "User" /\ Held(i) = {}),
           NEW panicked \in BOOLEAN, Retire(i, panicked)
    PROVE  RuntimeInv'
  <1> DEFINE c == is_cancelled \cup {i}
  <1>1. TypeOK /\ Hierarchy /\ Joins /\ Queue /\ Cancellation /\ CancelPropagates /\ Phases
    BY DEF RuntimeInv, StateInv, StackInv
  <1>2. /\ ready_fibers \in Seq(Slots) /\ IsInjective(ready_fibers) /\ i \notin Ready
        /\ Ready = ToSet(ready_fibers)
    BY <1>1 DEF TypeOK, Queue, Ready
  <1>3. c \in SUBSET Slots /\ c \subseteq LiveSet
    BY <1>1 DEF TypeOK, Cancellation, LiveSet, Live
  <1>4. \A s \in c \ {i} : ~Completed(s) => Descendants(s) \subseteq c
    BY <1>1 DEF CancelPropagates
  <1>5. StateInv /\ \A s \in Ready : Justified(s)
    BY DEF RuntimeInv, Queue
  <1>6. CASE join_handle[i] \in Slots /\ Leave(i, Schedule(ready_fibers, join_handle[i]), c)
    <2>1. PICK h \in Slots : h = join_handle[i]
      BY <1>6
    <2>2. h # i
      BY <1>1, <2>1 DEF Joins, Joining
    <2> DEFINE q == Schedule(ready_fibers, h)
    <2>3. q \in Seq(Slots) /\ ToSet(q) = Ready \cup {h} /\ IsInjective(q) /\ Leave(i, q, c)
      BY <1>2, <1>6, <2>1, ScheduleSet, ScheduleType
    <2>4. is_cancelled \cup {i} \subseteq c /\ c \subseteq is_cancelled \cup {i} \cup ToSet(q)
      OBVIOUS
    <2>5. Ready \subseteq ToSet(q) /\ i \notin ToSet(q)
      BY <1>2, <2>2, <2>3
    <2>6. \A s \in ToSet(q) : Justified(s) \/ s = join_handle[i]
      BY <1>5, <2>1, <2>3
    <2> HIDE DEF q, c
    <2> QED
      BY <1>3, <1>4, <1>5, <2>3, <2>4, <2>5, <2>6, LeaveKeeps
  <1>7. CASE \E w \in InVisitOrder(Woken(Root, i)) :
                 Leave(i, ready_fibers \o w, c \cup Subtree(Root))
    <2>1. PICK w \in InVisitOrder(Woken(Root, i)) :
              Leave(i, ready_fibers \o w, c \cup Subtree(Root))
      BY <1>7
    <2> DEFINE q == ready_fibers \o w
               C == c \cup Subtree(Root)
    <2>2. Live(Root) /\ Root \in Slots
      BY <1>1, SlotsFacts DEF Phases, Active, Live
    <2>3. /\ Subtree(Root) \subseteq LiveSet
          /\ Woken(Root, i) \subseteq Slots
          /\ Woken(Root, i) \cap Ready = {} /\ i \notin Woken(Root, i)
          /\ \A s \in Woken(Root, i) : Active(s) /\ pc[s] \notin {"Sys2", "Join2", "Children"}
          /\ Subtree(Root) \subseteq is_cancelled \cup Woken(Root, i) \cup Ready \cup {i}
          /\ Woken(Root, i) \subseteq Subtree(Root)
      BY <2>2, CancelVisit
    <2>4. ToSet(q) = Ready \cup Woken(Root, i) /\ IsInjective(q)
      BY <1>2, <2>3, VisitOrderSet
    <2>5. q \in Seq(Slots)
      BY <1>2, <2>3, VisitOrderType
    <2>6. C \in SUBSET Slots /\ C \subseteq LiveSet
      BY <1>3, <2>3 DEF LiveSet
    <2>7. \A s \in C \ {i} : ~Completed(s) => Descendants(s) \subseteq C
      <3>1. \A s \in is_cancelled \cup Subtree(Root) :
                ~Completed(s) => Descendants(s) \subseteq is_cancelled \cup Subtree(Root)
        BY <1>1, <2>2, PropagationSubtree
      <3> QED
        BY <3>1
    <2>8. /\ is_cancelled \cup {i} \subseteq C /\ C \subseteq is_cancelled \cup {i} \cup ToSet(q)
          /\ Ready \subseteq ToSet(q) /\ i \notin ToSet(q)
      BY <1>2, <2>3, <2>4
    <2>9. \A s \in ToSet(q) :
              \/ Justified(s)
              \/ s \in C /\ Active(s) /\ pc[s] \notin {"Sys2", "Join2", "Children"}
      BY <1>5, <2>3, <2>4
    <2>10. Leave(i, q, C)
      BY <2>1
    <2> HIDE DEF q, C
    <2> QED
      BY <1>5, <2>4, <2>5, <2>6, <2>7, <2>8, <2>9, <2>10, LeaveKeeps
  <1>8. CASE Leave(i, ready_fibers, c)
    <2>1. is_cancelled \cup {i} \subseteq c /\ c \subseteq is_cancelled \cup {i} \cup ToSet(ready_fibers)
      OBVIOUS
    <2> HIDE DEF c
    <2> QED
      BY <1>2, <1>3, <1>4, <1>5, <1>8, <2>1, LeaveKeeps
  <1> QED
    BY <1>6, <1>7, <1>8 DEF Retire

\* The end of a closure, whose fiber nobody owns if it has children left, and the
\* end of the wait for children.
LEMMA CompleteKeeps ==
    ASSUME RuntimeInv, StackInv', NEW i \in Slots,
           \/ ResumeChildren(i)
           \/ /\ Complete(i, TRUE) \/ Complete(i, FALSE)
              /\ children[i] # {} => handle[i] = NoFiber
    PROVE  RuntimeInv'
  <1>1. CASE ResumeChildren(i)
    <2>1. mode = "run" /\ running_fiber = i /\ pc[i] = "Children"
      BY <1>1 DEF ResumeChildren, At
    <2>2. children[i] = {}
      BY <2>1 DEF RuntimeInv, StateInv, Queue, Justified
    <2>3. CASE i # Root
      <3>1. Retire(i, i \in result_is_error) /\ (i \in result_is_error) \in BOOLEAN
        BY <1>1, <2>3 DEF ResumeChildren
      <3> QED
        BY <2>1, <2>2, <2>3, <3>1, RetireKeeps
    <2>4. CASE i = Root
      BY <1>1, <2>1, <2>2, <2>4, ReturnKeeps DEF ResumeChildren
    <2> QED
      BY <2>3, <2>4
  <1>2. ASSUME NEW panicked \in BOOLEAN, Complete(i, panicked),
               children[i] # {} => handle[i] = NoFiber
        PROVE  RuntimeInv'
    <2>1. /\ mode = "run" /\ running_fiber = i /\ pc[i] = "User" /\ Held(i) = {}
          /\ At(i, "User")
      BY <1>2 DEF Complete, At
    <2>2. CASE children[i] # {}
      <3>1. /\ Park(i, "Children") /\ is_cancelled' = is_cancelled \cup {i}
            /\ UNCHANGED <<interfaceVars, mode, parent, children, join_handle, syscall_result,
                           target, handle, ready_fibers>>
        BY <1>2, <2>2 DEF Complete
      <3> QED
        BY <1>2, <2>1, <2>2, <3>1, WaitKeeps
    <2>3. CASE children[i] = {} /\ i # Root
      BY <1>2, <2>1, <2>3, RetireKeeps DEF Complete
    <2>4. CASE children[i] = {} /\ i = Root
      BY <1>2, <2>1, <2>4, ReturnKeeps DEF Complete
    <2> QED
      BY <2>2, <2>3, <2>4
  <1> QED
    BY <1>1, <1>2

-----------------------------------------------------------------------------
(* Steps of closures that use park and Waker::schedule themselves, in modules *)
(* on top of the runtime: fiber i goes to a park of its own, or on from it,  *)
(* and may wake others.                                                      *)

\* Types, stacks and links.
LEMMA ClosureStackInv ==
    ASSUME StackInv, NEW i \in Slots, NEW l \in {"User", "Parked"}, mode = "run",
           pc[i] \in {"User", "Parked"}, pc' = [pc EXCEPT ![i] = l],
           UNCHANGED <<interfaceVars, mode, parent, children, join_handle, is_cancelled,
                       syscall_result, result_is_error, target, handle, stackVars>>,
           ready_fibers' \in Seq(Slots), running_fiber' \in Slots \cup {NoFiber}
    PROVE  StackInv'
  <1>1. TypeOK /\ InterfaceTypeOK
    BY DEF StackInv, TypeOK
  <1>2. InterfaceTypeOK'
    BY <1>1 DEF InterfaceTypeOK, interfaceVars
  <1>3. /\ join_handle' \in [Slots -> Slots \cup {Unused, Dropped, WaitingNone}]
        /\ target' \in [Slots -> Slots \cup {NoFiber}]
        /\ syscall_result' \subseteq Slots /\ result_is_error' \subseteq Slots
    BY <1>1 DEF TypeOK
  <1>4. l \in Labels \ {"Vacant"} /\ pc[i] # "Vacant" /\ l \notin {"Join1", "Join2"}
    BY DEF Labels
  <1> QED
    BY <1>2, <1>3, <1>4, ParkStep

\* Whoever is woken, the rest of the invariant is kept.
LEMMA ClosureState ==
    ASSUME StateInv, StackInv', NEW i \in Slots, NEW l \in {"User", "Parked"},
           mode = "run", running_fiber = i, pc[i] \in {"User", "Parked"},
           pc' = [pc EXCEPT ![i] = l],
           UNCHANGED <<interfaceVars, mode, parent, children, join_handle, is_cancelled,
                       syscall_result, target, handle>>,
           Ready \subseteq Ready'
    PROVE  StateInv' /\ \A s \in Slots : Justified(s) => Justified(s)'
  <1>1. /\ TypeOK /\ TypeOK' /\ Cancellation /\ CancelPropagates
        /\ Rings /\ AsyncCancels /\ pc \in [Slots -> Labels] /\ is_cancelled \subseteq Slots
    BY DEF StateInv, StackInv, TypeOK
  <1>2. \A s \in Slots : pc'[s] = IF s = i THEN l ELSE pc[s]
    BY <1>1
  <1>3. /\ Hierarchy' /\ Rooted' /\ Handles' /\ Joins' /\ Phases'
        /\ \A s \in Slots : /\ Completed(s)' <=> Completed(s)
                            /\ Live(s)' <=> Live(s)
                            /\ Active(s)' <=> Active(s)
    BY <1>1, <1>2, StructureFrame
  <1>4. ASSUME NEW s \in Slots, Justified(s) PROVE Justified(s)'
    BY <1>2, <1>3, <1>4 DEF Justified
  <1>5. Cancellation'
    <2>1. CancellationReaches'
      <3>1. ASSUME NEW s \in Slots, Scheduled(s) PROVE Scheduled(s)' \/ s = i
        BY <3>1 DEF Scheduled, Ready
      <3> QED
        BY <1>1, <1>2, <3>1 DEF Cancellation, CancellationReaches
    <2> QED
      BY <1>1, <1>2, <1>3, <2>1 DEF Cancellation, LiveSet
  <1>6. CancelPropagates'
    BY <1>1, <1>3, PropagationFrame
  <1>7. Rings' /\ AsyncCancels'
    BY <1>1, <1>2, RingsFrame
  <1> QED
    BY <1>3, <1>4, <1>5, <1>6, <1>7 DEF StateInv

\* If they are in such a park too, all of it is.
LEMMA ClosureKeeps ==
    ASSUME RuntimeInv, StackInv', NEW i \in Slots, NEW l \in {"User", "Parked"},
           mode = "run", running_fiber = i, pc[i] \in {"User", "Parked"},
           pc' = [pc EXCEPT ![i] = l],
           UNCHANGED <<interfaceVars, mode, parent, children, join_handle, is_cancelled,
                       syscall_result, target, handle>>,
           running_fiber' \in {i, NoFiber}, IsInjective(ready_fibers'),
           Ready \subseteq Ready', i \notin Ready', \A s \in Ready' \ Ready : pc[s] = "Parked"
    PROVE  RuntimeInv'
  <1>1. TypeOK /\ TypeOK' /\ Queue /\ StateInv
    BY DEF RuntimeInv, StateInv, StackInv
  <1>2. StateInv' /\ \A s \in Slots : Justified(s) => Justified(s)'
    BY <1>1, ClosureState
  <1>3. ASSUME NEW s \in Slots, pc[s] = "Parked" PROVE Justified(s)
    BY <1>3 DEF Justified, Active
  <1>4. running_fiber' \notin Ready'
    <2>1. Ready' \subseteq Slots
      BY <1>1 DEF TypeOK, Ready, ToSet
    <2> QED
      BY <2>1, SlotsFacts
  <1>5. Queue'
    BY <1>1, <1>2, <1>3, <1>4, QueueParts, SlotsFacts DEF Queue
  <1> QED
    BY <1>2, <1>5 DEF RuntimeInv

-----------------------------------------------------------------------------
(* The invariant. *)

\* Before start there is nothing.
LEMMA RuntimeInvInit == Init => RuntimeInv
  <1> SUFFICES ASSUME Init PROVE RuntimeInv
    OBVIOUS
  <1>1. /\ mode = "idle" /\ \A s \in Slots : pc[s] = "Vacant" /\ parent[s] = NoFiber
        /\ \A s \in Slots : children[s] = {} /\ join_handle[s] = Unused
        /\ \A s \in Slots : target[s] = NoFiber /\ handle[s] = NoFiber
        /\ is_cancelled = {} /\ syscall_result = {} /\ ready_fibers = <<>>
        /\ sq = <<>> /\ inflight = {} /\ cancelling = {} /\ cq = <<>>
    BY DEF Init, InterfaceInit
  <1>2. \A s \in Slots : ~Active(s) /\ ~Joining(s) /\ ~InSyscall(s) /\ ~Pending(s) /\ ~Completed(s)
    BY <1>1 DEF Active, Joining, InSyscall, Pending, Completed
  <1>3. Hierarchy /\ Rooted
    BY <1>1, <1>2, SlotsFacts DEF Hierarchy, Rooted
  <1>4. Handles /\ Joins
    <2>1. Unused # Dropped /\ Unused # WaitingNone
      BY DEF Unused, Dropped, WaitingNone
    <2>2. Handles
      BY <1>1, <2>1, SlotsFacts DEF Handles
    <2>3. Joins
      BY <1>1, <1>2, <2>1, SlotsFacts DEF Joins
    <2> QED
      BY <2>2, <2>3
  <1>5. Queue
    <2>1. Ready = {} /\ IsInjective(ready_fibers)
      BY <1>1 DEF Ready, ToSet, IsInjective
    <2> QED
      BY <1>1, <2>1 DEF Queue
  <1>6. Cancellation /\ CancelPropagates
    BY <1>1, <1>2 DEF Cancellation, CancellationReaches, CancelPropagates
  <1>7. Rings /\ AsyncCancels
    <2>1. Issued = {} /\ Found = {} /\ ToSet(cq) = {}
      BY <1>1 DEF Issued, Found, ToSet
    <2> QED
      BY <1>1, <1>2, <2>1 DEF Rings, OnePlace, InRings, AsyncCancels
  <1>8. Phases
    BY <1>1, <1>2 DEF Phases
  <1> QED
    BY <1>3, <1>4, <1>5, <1>6, <1>7, <1>8, StackInvInit DEF RuntimeInv, StateInv

\* Every step keeps the invariant, if no closure leaves children behind while its
\* fiber is owned.
LEMMA RuntimeInvNext == ~OwnedParents /\ RuntimeInv /\ [Next]_vars => RuntimeInv'
  <1> SUFFICES ASSUME ~OwnedParents, RuntimeInv, [Next]_vars PROVE RuntimeInv'
    OBVIOUS
  <1>1. StackInv'
    BY StackInvNext DEF RuntimeInv, StateInv
  <1>2. CASE Start
    BY <1>1, <1>2, StartKeeps
  <1>3. ASSUME NEW i \in Slots, Call(i) PROVE RuntimeInv'
    <2>1. CASE \E c \in Slots, moved \in SUBSET Held(i) : Spawn(i, c, moved)
      BY <1>1, <2>1, SpawnKeeps
    <2>2. CASE \E j \in Slots : Join(i, j) \/ DropHandle(i, j)
      BY <1>1, <2>2, JoinKeeps
    <2>3. CASE \E j \in Slots : ForgetHandle(i, j) \/ \E k \in Slots : GiveHandle(i, j, k)
      BY <1>1, <2>3, ForgetKeeps
    <2>4. ASSUME NEW r \in Slots, At(i, "User"), CancelTree(r, i),
                 handle[r] = i \/ r = i \/ r = Root
          PROVE  RuntimeInv'
      <3>1. Live(r)
        BY <2>4 DEF RuntimeInv, StateInv, Handles, Phases, Active, Live, At
      <3> QED
        BY <1>1, <2>4, <3>1, CancelKeeps
    <2>5. CASE YieldNow(i)
      BY <1>1, <2>5, YieldKeeps
    <2>6. CASE Syscall(i)
      BY <1>1, <2>6, SyscallKeeps
    <2>7. CASE Complete(i, TRUE) \/ Complete(i, FALSE)
      <3>1. children[i] # {} => handle[i] = NoFiber
        BY <2>7 DEF Complete
      <3> QED
        BY <1>1, <2>7, <3>1, CompleteKeeps
    <2> QED
      BY <1>3, <2>1, <2>2, <2>3, <2>4, <2>5, <2>6, <2>7, SlotsFacts
      DEF Call, CancelHandle, CancelSelf, CancelPropagating
  <1>4. ASSUME NEW i \in Slots, Resume(i) PROVE RuntimeInv'
    BY <1>1, <1>4, JoinKeeps, ResumeSyscallKeeps, CompleteKeeps DEF Resume
  <1>5. CASE ProcessIo
    BY <1>1, <1>5, ProcessIoKeeps
  <1>6. CASE \E id \in Slots : Kernel(id)
    BY <1>1, <1>6, KernelKeeps DEF RuntimeInv
  <1>7. CASE DropRuntime
    BY <1>1, <1>7, DropKeeps
  <1>8. CASE UNCHANGED vars
    <2>1. UNCHANGED <<sq, inflight, cancelling, cq, mode, pc, parent, children, join_handle,
                      is_cancelled, syscall_result, target, handle, ready_fibers, running_fiber,
                      mapped>>
      BY <1>8 DEF vars, interfaceVars, fiberVars, schedVars, stackVars
    <2>2. (Hierarchy /\ Rooted /\ Handles /\ Joins)'
      BY <2>1 DEF RuntimeInv, StateInv, Hierarchy, Rooted, Closed, Handles, Joins, Active, Live, Joining
    <2>3. Queue'
      BY <2>1 DEF RuntimeInv, StateInv, Queue, Justified, Ready, Active, Completed
    <2>4. (Cancellation /\ CancelPropagates)'
      BY <2>1 DEF RuntimeInv, StateInv, Cancellation, CancellationReaches, Scheduled, CancelPropagates,
                  Descendants, Completed, LiveSet, Live
    <2>5. (Rings /\ AsyncCancels)'
      BY <2>1 DEF RuntimeInv, StateInv, Rings, OnePlace, InRings, Issued, Found, Pending, InSyscall,
                  AsyncCancels
    <2>6. Phases'
      BY <2>1 DEF RuntimeInv, StateInv, Phases, Active, LiveSet, Live
    <2> QED
      BY <1>1, <2>2, <2>3, <2>4, <2>5, <2>6 DEF RuntimeInv, StateInv
  <1> QED
    BY <1>2, <1>3, <1>4, <1>5, <1>6, <1>7, <1>8 DEF Next, Terminated

\* The invariant is an invariant of the runtime.
LEMMA RuntimeInvAlways == ASSUME ~OwnedParents PROVE Spec => []RuntimeInv
  <1>1. RuntimeInv /\ [Next]_vars => RuntimeInv'
    BY RuntimeInvNext
  <1> QED
    BY <1>1, RuntimeInvInit, PTL DEF Spec

-----------------------------------------------------------------------------
(* The theorems.  OwnedParents is FALSE: whoever owns the handle of a      *)
(* fiber finds its children ended.  Otherwise they do not hold (the runs   *)
(* of OwnedParents.cfg and ChannelCancel.cfg show why).                    *)

\* What is stored in the slab, in handles and in the rings.
LEMMA IndicesKnown == ASSUME StateInv, \A s \in Ready : Active(s) PROVE NoDanglingIndex
  <1>1. /\ TypeOK /\ Hierarchy /\ Handles /\ Joins /\ Rings
    BY DEF StateInv, StackInv
  <1>2. \A s \in Slots : Active(s) => Live(s)
    BY DEF Active, Live
  <1>3. \A s \in Slots : Joining(s) => Active(s)
    BY DEF Active, Joining
  <1>4. \A s \in ToSet(ready_fibers) : Live(s)
    BY <1>1, <1>2, ReadySlots DEF Ready
  <1>5. ASSUME NEW s \in Slots, Live(s), parent[s] # NoFiber
        PROVE  Live(parent[s]) \/ pc[s] = "Done"
    <2>1. s # Root
      BY <1>1, <1>5 DEF Hierarchy
    <2> QED
      BY <1>1, <1>2, <1>5, <2>1 DEF Hierarchy, Live, Active
  <1>6. \A s \in Slots : \A c \in children[s] : Live(c)
    BY <1>1, <1>2, SlotTypes DEF Hierarchy
  <1>7. ASSUME NEW s \in Slots, target[s] # NoFiber PROVE Live(target[s])
    <2>1. PICK t \in Slots : target[s] = t /\ handle[t] = s
      BY <1>1, <1>7 DEF Joins
    <2> QED
      BY <1>1, <2>1 DEF Handles
  <1>8. \A s \in Slots : join_handle[s] \in Slots => Live(join_handle[s])
    BY <1>1, <1>2, <1>3 DEF Joins
  <1>9. \A s \in Slots : handle[s] # NoFiber => Live(s) /\ Live(handle[s])
    BY <1>1, <1>2, SlotTypes DEF Handles
  <1>10. ASSUME NEW s \in Slots, Operations(s) # {} \/ s \in inflight \/ Completions(s) # {}
         PROVE  Live(s)
    <2>1. s \in InRings
      BY <1>10 DEF InRings, Operations, Completions, Issued, ToSet
    <2> QED
      BY <1>1, <2>1 DEF Rings, Pending, InSyscall, Live
  <1> QED
    BY <1>4, <1>5, <1>6, <1>7, <1>8, <1>9, <1>10 DEF NoDanglingIndex

\* No slab index that is stored anywhere dangles (the slab is indexed without
\* checks in schedule_with, cancel, join, spawn_trampoline and process_io).
THEOREM IndicesNeverDangle == ASSUME ~OwnedParents PROVE Spec => []NoDanglingIndex
  <1>1. RuntimeInv => NoDanglingIndex
    BY IndicesKnown DEF RuntimeInv, Queue, Justified
  <1> QED
    BY <1>1, RuntimeInvAlways, PTL

\* A parent outlives its children: spawn_trampoline removes a fiber from its
\* parent's children in an entry that exists and whose fiber has not ended.
THEOREM ParentsOutliveChildren == ASSUME ~OwnedParents PROVE Spec => []ParentOutlivesChildren
  <1>1. ASSUME RuntimeInv PROVE ParentOutlivesChildren
    BY <1>1 DEF RuntimeInv, StateInv, ParentOutlivesChildren, Hierarchy, Active, Live
  <1> QED
    BY <1>1, RuntimeInvAlways, PTL

\* The reasons, park by park.
LEMMA RunningForAReason ==
    ASSUME StateInv, \A s \in Slots : mode = "run" /\ running_fiber = s => Justified(s)
    PROVE  WakeupsJustified
  <1> SUFFICES ASSUME NEW i \in Slots, mode = "run", running_fiber = i
               PROVE  CASE pc[i] = "Join1" -> Completed(target[i]) \/ i \in is_cancelled
                        [] pc[i] = "Join2" -> Completed(target[i])
                        [] pc[i] = "Sys1" -> i \in syscall_result \/ i \in is_cancelled
                        [] pc[i] = "Sys2" -> i \in syscall_result
                        [] pc[i] = "Children" -> children[i] = {}
                        [] OTHER -> pc[i] \in {"User", "Parked"}
    BY DEF WakeupsJustified
  <1>1. Justified(i) /\ pc[i] \in Labels
    BY SlotTypes DEF StateInv, StackInv
  <1>2. pc[i] \in {"Join1", "Join2"} => target[i] \in Slots
    BY DEF StateInv, StackInv, LinksKnown
  <1> QED
    BY <1>1, <1>2 DEF Justified, Active, Labels

\* A park returns only for the reason the code after it takes for granted: join
\* and syscall after their second parks, the trampolines after the wait for
\* children.
THEOREM WakeupsAreJustified == ASSUME ~OwnedParents PROVE Spec => []WakeupsJustified
  <1>1. RuntimeInv => WakeupsJustified
    BY RunningForAReason DEF RuntimeInv, Queue
  <1> QED
    BY <1>1, RuntimeInvAlways, PTL

\* RuntimeState::cancel leaves nobody out: what is below a cancelled fiber that
\* is still in its closure is cancelled, and remains so whatever is spawned.
THEOREM CancellationPropagates == ASSUME ~OwnedParents PROVE Spec => []CancelPropagates
  <1>1. RuntimeInv => CancelPropagates
    BY DEF RuntimeInv, StateInv
  <1> QED
    BY <1>1, RuntimeInvAlways, PTL

\* A cancelled fiber is not left in a system call that nobody cancels or in a join
\* with a fiber that nobody cancelled.
THEOREM CancellationIsHeard == ASSUME ~OwnedParents PROVE Spec => []CancellationReaches
  <1>1. RuntimeInv => CancellationReaches
    BY DEF RuntimeInv, StateInv, Cancellation
  <1> QED
    BY <1>1, RuntimeInvAlways, PTL

\* One place in the rings, counted.
LEMMA OnePlaceEach == ASSUME StateInv PROVE ExactlyOneCompletion
  <1>1. Rings /\ OnePlace /\ InterfaceTypeOK
    BY DEF StateInv, StackInv, TypeOK, Rings
  <1> SUFFICES ASSUME NEW s \in Slots
               PROVE  Cardinality(Operations(s)) + Cardinality(Completions(s))
                          + (IF s \in inflight THEN 1 ELSE 0)
                      = IF pc[s] \in {"Sys1", "Sys2"} /\ s \notin syscall_result THEN 1 ELSE 0
    BY DEF ExactlyOneCompletion
  <1>2. Cardinality(Operations(s)) = IF s \in Issued THEN 1 ELSE 0
    <2>1. CASE s \in Issued
      <3>1. PICK k \in DOMAIN sq : sq[k] = Op(s)
        BY <2>1 DEF Issued
      <3>2. Operations(s) = {k}
        BY <1>1, <3>1 DEF Operations, OnePlace
      <3> QED
        BY <2>1, <3>2, FS_Singleton
    <2>2. CASE s \notin Issued
      <3>1. Operations(s) = {}
        BY <2>2 DEF Operations, Issued
      <3> QED
        BY <2>2, <3>1, FS_EmptySet
    <2> QED
      BY <2>1, <2>2
  <1>3. Cardinality(Completions(s)) = IF s \in ToSet(cq) THEN 1 ELSE 0
    <2>1. CASE s \in ToSet(cq)
      <3>1. PICK k \in DOMAIN cq : cq[k] = s
        BY <2>1 DEF ToSet
      <3>2. Completions(s) = {k}
        BY <1>1, <3>1 DEF Completions, OnePlace
      <3> QED
        BY <2>1, <3>2, FS_Singleton
    <2>2. CASE s \notin ToSet(cq)
      <3>1. Completions(s) = {}
        BY <2>2 DEF Completions, ToSet
      <3> QED
        BY <2>2, <3>1, FS_EmptySet
    <2> QED
      BY <2>1, <2>2
  <1>4. pc[s] \in {"Sys1", "Sys2"} /\ s \notin syscall_result
            <=> s \in Issued \cup inflight \cup ToSet(cq)
    BY <1>1 DEF Rings, Pending, InSyscall, InRings
  <1>5. Issued \cap inflight = {} /\ (Issued \cup inflight) \cap ToSet(cq) = {}
    BY <1>1 DEF OnePlace
  <1> QED
    BY <1>2, <1>3, <1>4, <1>5

\* A system call has exactly one completion, whatever the kernel, the sizes of
\* the rings and cancellations do; it reaches the fiber that waits for it.
THEOREM OneCompletionEach == ASSUME ~OwnedParents PROVE Spec => []ExactlyOneCompletion
  <1>1. RuntimeInv => ExactlyOneCompletion
    BY OnePlaceEach DEF RuntimeInv
  <1> QED
    BY <1>1, RuntimeInvAlways, PTL

\* An AsyncCancel stops the operation it was issued for or none: the slab index
\* it carries never stands for the system call of another fiber.
THEOREM AsyncCancelsHitTheirOwner == ASSUME ~OwnedParents PROVE Spec => []AsyncCancelHitsOwner
  <1>1. ASSUME RuntimeInv PROVE AsyncCancelHitsOwner
    <2>1. AsyncCancels /\ Cancellation /\ cancelling \subseteq Slots
      BY <1>1 DEF RuntimeInv, StateInv, StackInv, TypeOK, InterfaceTypeOK
    <2> QED
      BY <2>1 DEF AsyncCancels, Cancellation, AsyncCancelHitsOwner
  <1> QED
    BY <1>1, RuntimeInvAlways, PTL

\* After the end, everything is empty.
LEMMA NothingIsLeft == ASSUME RuntimeInv PROVE QuietExit
  <1> SUFFICES ASSUME mode \in {"exited", "down"}
               PROVE  /\ \A s \in Slots : pc[s] \in {"Vacant", "Done"}
                      /\ ready_fibers = <<>>
                      /\ inflight = {}
    BY DEF QuietExit
  <1>1. TypeOK /\ InterfaceTypeOK /\ Queue /\ Rings /\ \A s \in Slots : ~Active(s)
    BY DEF RuntimeInv, StateInv, StackInv, TypeOK, Phases
  <1>2. Ready = {}
    BY <1>1, ReadySlots DEF Queue, Justified
  <1>3. ready_fibers = <<>>
    <2>1. ready_fibers \in Seq(Slots)
      BY <1>1 DEF TypeOK
    <2>2. ready_fibers # <<>> => Head(ready_fibers) \in Ready
      BY <2>1, TailSet DEF Ready
    <2> QED
      BY <1>2, <2>2
  <1>4. \A s \in inflight : Active(s) /\ s \in Slots
    BY <1>1 DEF Rings, InRings, Pending, InSyscall, Active, InterfaceTypeOK
  <1> QED
    BY <1>1, <1>3, <1>4 DEF Active

\* Nobody runs, waits or is queued once start has returned, and the kernel works
\* for nobody.
THEOREM ExitIsQuiet == ASSUME ~OwnedParents PROVE Spec => []QuietExit
  <1>1. RuntimeInv => QuietExit
    BY NothingIsLeft
  <1> QED
    BY <1>1, RuntimeInvAlways, PTL

\* No stack leaks but that of a fiber whose handle was forgotten.
THEOREM NoLeaks == ASSUME ~OwnedParents PROVE Spec => []LeakFree
  <1>1. ASSUME RuntimeInv PROVE LeakFree
    <2> DEFINE Forgotten == {s \in Slots \ {Root} : Live(s) /\ handle[s] = NoFiber
                                                   /\ join_handle[s] = Unused}
    <2> SUFFICES ASSUME mode = "down" PROVE mapped = Cardinality(Forgotten)
      BY DEF LeakFree
    <2>1. /\ TypeOK /\ Handles /\ Joins /\ \A s \in Slots : ~Active(s)
          /\ mapped = Cardinality(LiveSet \ {Root})
      BY <1>1 DEF RuntimeInv, StateInv, StackInv, Phases
    <2>2. \A s \in Slots : handle[s] = NoFiber
      BY <2>1, SlotTypes DEF Handles
    <2>3. \A s \in Slots : join_handle[s] \notin Slots \cup {WaitingNone}
      BY <2>1, <2>2, JoinOwner, SlotsFacts
    <2>4. \A s \in Slots : join_handle[s] # Dropped
      BY <2>1 DEF Handles
    <2>5. \A s \in Slots : join_handle[s] = Unused
      BY <2>1, <2>3, <2>4, SlotTypes
    <2>6. Forgotten = LiveSet \ {Root}
      BY <2>2, <2>5 DEF LiveSet
    <2> QED
      BY <2>1, <2>6
  <1> QED
    BY <1>1, RuntimeInvAlways, PTL

-----------------------------------------------------------------------------
(* The converse of Justified: who has a reason to go on is scheduled.  It   *)
(* takes RuntimeInv for granted, before and after each step.               *)

\* What fiber s sleeps for has not happened yet.
Asleep(s) ==
    /\ pc[s] # "User"
    /\ Joining(s) => \A t \in Slots : target[s] = t => join_handle[t] = s
    /\ InSyscall(s) => s \notin syscall_result
    /\ pc[s] = "Children" => children[s] # {}

Tended == \A s \in Slots : Active(s) => Scheduled(s) \/ Asleep(s)

\* Nothing happens to fiber s.
LeftAlone(s) ==
    /\ Active(s) /\ (Scheduled(s) => Scheduled(s)') /\ pc'[s] = pc[s]
    /\ Joining(s) => \A t \in Slots : target'[s] = t => target[s] = t /\ join_handle'[t] = join_handle[t]
    /\ s \in syscall_result' => s \in syscall_result
    /\ children'[s] = children[s]

LEMMA TendedFrame ==
    ASSUME Tended, \A s \in Slots : Active(s)' => Scheduled(s)' \/ Asleep(s)' \/ LeftAlone(s)
    PROVE  Tended'
  <1> SUFFICES ASSUME NEW s \in Slots, Active(s)', LeftAlone(s) PROVE Scheduled(s)' \/ Asleep(s)'
    BY DEF Tended
  <1>1. CASE Scheduled(s)
    BY <1>1 DEF LeftAlone
  <1>2. CASE Asleep(s)
    BY <1>2 DEF LeftAlone, Asleep, Joining, InSyscall
  <1> QED
    BY <1>1, <1>2 DEF Tended, LeftAlone

\* Dropping a handle touches its fiber only.
LEMMA ReleaseSlots ==
    ASSUME TypeOK, NEW j \in Slots, NEW p \in [Slots -> Labels], Release(j, p)
    PROVE  /\ \A s \in Slots \ {j} : /\ pc'[s] = p[s] /\ children'[s] = children[s]
                                     /\ join_handle'[s] = join_handle[s]
           /\ \A s \in syscall_result' : s \in syscall_result
           /\ \/ pc'[j] = "Vacant"
              \/ pc'[j] = p[j] /\ children'[j] = children[j]
  <1>1. CASE Completed(j)
    <2>1. Free(j, p, children, is_cancelled)
      BY <1>1 DEF Release
    <2>2. /\ \A s \in Slots \ {j} : /\ pc'[s] = p[s] /\ children'[s] = children[s]
                                    /\ join_handle'[s] = join_handle[s]
          /\ pc'[j] = "Vacant"
      BY <2>1 DEF Free, TypeOK
    <2>3. syscall_result' = syscall_result \ {j}
      BY <2>1 DEF Free
    <2> QED
      BY <2>2, <2>3
  <1>2. CASE ~Completed(j)
    BY <1>2 DEF Release, TypeOK
  <1> QED
    BY <1>1, <1>2

\* JoinHandle::join and JoinHandle::drop: only the caller looks at the handle.
LEMMA TendedRelease ==
    ASSUME RuntimeInv, Tended, NEW i \in Slots, NEW j \in Slots, mode = "run", running_fiber = i,
           handle[j] = i, NEW p \in [Slots -> Labels], \A s \in Slots \ {i} : p[s] = pc[s],
           Release(j, p), \A s \in Slots \ {i} : target'[s] = target[s],
           UNCHANGED <<ready_fibers, running_fiber>>
    PROVE  Tended'
  <1>1. TypeOK /\ Joins
    BY DEF RuntimeInv, StateInv, StackInv
  <1>2. ASSUME NEW s \in Slots \ {i}, Active(s)' PROVE LeftAlone(s)
    <2>1. pc'[s] = pc[s] /\ children'[s] = children[s] /\ (s \in syscall_result' => s \in syscall_result)
      BY <1>1, <1>2, ReleaseSlots DEF Active
    <2>2. Active(s) /\ (Scheduled(s) => Scheduled(s)')
      BY <1>2, <2>1 DEF Active, Scheduled
    <2>3. ASSUME Joining(s), NEW t \in Slots, target'[s] = t
          PROVE  target[s] = t /\ join_handle'[t] = join_handle[t]
      <3>1. target[s] = t /\ handle[t] = s
        BY <1>1, <2>3 DEF Joins
      <3> QED
        BY <1>1, <3>1, ReleaseSlots
    <2> QED
      BY <2>1, <2>2, <2>3 DEF LeftAlone
  <1>3. Scheduled(i)'
    BY DEF Scheduled
  <1> QED
    BY <1>2, <1>3, TendedFrame

LEMMA TendedJoin ==
    ASSUME RuntimeInv, RuntimeInv', Tended, NEW i \in Slots,
           \/ \E j \in Slots : Join(i, j) \/ DropHandle(i, j)
           \/ ResumeJoin1(i)
           \/ ResumeJoin2(i)
    PROVE  Tended'
  <1>1. TypeOK /\ Joins /\ Joins'
    BY DEF RuntimeInv, StateInv, StackInv
  <1>2. mode = "run" /\ running_fiber = i /\ pc \in [Slots -> Labels]
    BY <1>1 DEF Join, DropHandle, ResumeJoin1, ResumeJoin2, At, TypeOK
  <1>3. ASSUME NEW j \in Slots, handle[j] = i, Release(j, pc),
               UNCHANGED <<target, ready_fibers, running_fiber>>
        PROVE  Tended'
    BY <1>2, <1>3, TendedRelease
  <1>4. ASSUME Joining(i), ReturnFromJoin(i), UNCHANGED ready_fibers PROVE Tended'
    <2> DEFINE user == [pc EXCEPT ![i] = "User"]
    <2>1. PICK j \in Slots : target[i] = j /\ handle[j] = i
      BY <1>1, <1>4 DEF Joins
    <2>2. user \in [Slots -> Labels] /\ \A s \in Slots \ {i} : user[s] = pc[s]
      BY <1>2 DEF Labels
    <2>3. Release(j, user) /\ UNCHANGED running_fiber /\ \A s \in Slots \ {i} : target'[s] = target[s]
      BY <1>1, <1>4, <2>1 DEF ReturnFromJoin, TypeOK
    <2> HIDE DEF user
    <2> QED
      BY <1>2, <1>4, <2>1, <2>2, <2>3, TendedRelease
  <1>5. ASSUME NEW j \in Slots, NEW l \in {"Join1", "Join2"}, Park(i, l), Joining(i)',
               target'[i] = j, ~Completed(j), handle[j] = i,
               \A s \in Slots \ {i} : target'[s] = target[s],
               \A s \in Slots \ {j} : join_handle'[s] = join_handle[s],
               UNCHANGED <<children, syscall_result, ready_fibers>>
        PROVE  Tended'
    <2>1. pc'[i] = l /\ \A s \in Slots \ {i} : pc'[s] = pc[s]
      BY <1>2, <1>5 DEF Park
    <2>2. Asleep(i)'
      <3>1. join_handle'[j] = i
        <4>1. join_handle'[j] = i \/ join_handle'[j] = WaitingNone
          BY <1>1, <1>5 DEF Joins
        <4>2. pc'[j] # "Done"
          BY <1>5, <2>1 DEF Completed
        <4> QED
          BY <1>1, <4>1, <4>2 DEF Joins
      <3> QED
        BY <1>5, <2>1, <3>1 DEF Asleep, InSyscall
    <2>3. ASSUME NEW s \in Slots \ {i}, Active(s)' PROVE LeftAlone(s)
      <3>1. ASSUME Joining(s), NEW t \in Slots, target'[s] = t
            PROVE  target[s] = t /\ join_handle'[t] = join_handle[t]
        <4>1. target[s] = t /\ handle[t] = s
          BY <1>1, <1>5, <3>1 DEF Joins
        <4> QED
          BY <1>5, <4>1
      <3>2. Scheduled(s) => Scheduled(s)'
        BY <1>2, <1>5 DEF Scheduled
      <3> QED
        BY <1>5, <2>1, <2>3, <3>1, <3>2 DEF LeftAlone, Active
    <2> QED
      BY <2>2, <2>3, TendedFrame
  <1>6. ASSUME NEW j \in Slots, Join(i, j) PROVE Tended'
    <2>1. handle[j] = i /\ UNCHANGED ready_fibers /\ At(i, "User")
      BY <1>6 DEF Join
    <2>2. CASE Release(j, pc) /\ UNCHANGED <<target, running_fiber>>
      BY <1>3, <2>1, <2>2
    <2>3. CASE /\ ~Completed(j)
               /\ join_handle' = [join_handle EXCEPT ![j] = i]
               /\ target' = [target EXCEPT ![i] = j]
               /\ Park(i, "Join1")
               /\ UNCHANGED <<children, syscall_result>>
      <3>1. /\ target'[i] = j /\ Joining(i)' /\ \A s \in Slots \ {i} : target'[s] = target[s]
            /\ \A s \in Slots \ {j} : join_handle'[s] = join_handle[s]
        BY <1>1, <1>2, <2>3 DEF TypeOK, Park, Joining
      <3> QED
        BY <1>5, <2>1, <2>3, <3>1
    <2> QED
      BY <1>6, <2>2, <2>3 DEF Join
  <1>7. ASSUME NEW j \in Slots, DropHandle(i, j) PROVE Tended'
    BY <1>3, <1>7 DEF DropHandle, schedVars
  <1>8. CASE ResumeJoin2(i)
    BY <1>4, <1>8 DEF ResumeJoin2, At, Joining
  <1>9. CASE ResumeJoin1(i)
    <2>1. Joining(i) /\ UNCHANGED ready_fibers
      BY <1>9 DEF ResumeJoin1, At, Joining
    <2>2. CASE ReturnFromJoin(i)
      BY <1>4, <2>1, <2>2
    <2>3. CASE /\ ~Completed(target[i]) /\ Park(i, "Join2")
               /\ UNCHANGED <<children, join_handle, syscall_result, target, handle>>
      <3>1. PICK j \in Slots : target[i] = j /\ handle[j] = i
        BY <1>1, <2>1 DEF Joins
      <3>2. Joining(i)'
        BY <1>2, <2>3 DEF Park, Joining
      <3> QED
        BY <1>5, <2>1, <2>3, <3>1, <3>2
    <2> QED
      BY <1>9, <2>2, <2>3 DEF ResumeJoin1
  <1> QED
    BY <1>6, <1>7, <1>8, <1>9

\* System calls: the result finds a fiber that has not gone on without it.
LEMMA TendedSyscall ==
    ASSUME RuntimeInv, RuntimeInv', Tended, NEW i \in Slots,
           Syscall(i) \/ ResumeSys1(i) \/ ResumeSys2(i)
    PROVE  Tended'
  <1>1. TypeOK /\ Rings /\ Queue
    BY DEF RuntimeInv, StateInv, StackInv
  <1>2. /\ mode = "run" /\ running_fiber = i
        /\ UNCHANGED <<children, join_handle, target, ready_fibers>>
        /\ syscall_result' \subseteq syscall_result
    BY DEF Syscall, ResumeSys1, ResumeSys2, At, ReadSyscallResult
  <1>3. \/ ReadSyscallResult(i)
        \/ \E l \in {"Sys1", "Sys2"} : Park(i, l) /\ i \notin syscall_result
    <2>1. Syscall(i) => i \notin syscall_result
      BY <1>1 DEF Syscall, At, Rings, InSyscall
    <2> QED
      BY <2>1 DEF Syscall, ResumeSys1, ResumeSys2
  <1>4. \A s \in Slots \ {i} : pc'[s] = pc[s]
    BY <1>1, <1>3 DEF ReadSyscallResult, Park, TypeOK
  <1>5. \A s \in Slots \ {i} : Active(s)' => LeftAlone(s)
    BY <1>2, <1>4 DEF LeftAlone, Active, Scheduled
  <1>6. Scheduled(i)' \/ Asleep(i)'
    <2>1. CASE ReadSyscallResult(i)
      BY <1>2, <2>1 DEF ReadSyscallResult, Scheduled
    <2>2. CASE \E l \in {"Sys1", "Sys2"} : Park(i, l) /\ i \notin syscall_result
      BY <1>1, <1>2, <2>2 DEF Park, Asleep, Joining, TypeOK
    <2> QED
      BY <1>3, <2>1, <2>2
  <1> QED
    BY <1>5, <1>6, TendedFrame

\* process_io: a result and its fiber's place in the queue come together.
LEMMA TendedIo ==
    ASSUME RuntimeInv, Tended, ProcessIo PROVE Tended'
  <1>1. TypeOK /\ ready_fibers \in Seq(Slots)
    BY DEF RuntimeInv, StateInv, StackInv, TypeOK
  <1>2. UNCHANGED <<pc, children, join_handle, target>> /\ running_fiber = NoFiber
    BY DEF ProcessIo, ProcessCompleted, PopReady, SubmitAndWait, InProcessIo, fiberVars
  <1>3. ASSUME NEW s \in Slots, Scheduled(s) => Scheduled(s)', s \in syscall_result' => s \in syscall_result
        PROVE  Active(s)' => LeftAlone(s)
    BY <1>2, <1>3 DEF LeftAlone, Active
  <1>4. CASE ProcessCompleted
    <2>1. CASE UNCHANGED <<syscall_result, ready_fibers>>
      <3>1. UNCHANGED running_fiber
        BY <1>4 DEF ProcessCompleted
      <3> QED
        BY <1>3, <2>1, <3>1, TendedFrame DEF Scheduled
    <2>2. CASE /\ Head(cq) # ASYNC_CANCELLATION_USER_DATA
               /\ syscall_result' = syscall_result \cup {Head(cq)}
               /\ ready_fibers' = Schedule(ready_fibers, Head(cq))
      <3>1. Head(cq) \in Slots
        <4>1. ReadCompletion /\ InterfaceTypeOK /\ OnePlace
          BY <1>4 DEF ProcessCompleted, RuntimeInv, StateInv, StackInv, TypeOK, Rings
        <4> QED
          BY <2>2, <4>1, ReadRings
      <3>2. Ready' = Ready \cup {Head(cq)}
        <4>1. IsInjective(ready_fibers)
          BY DEF RuntimeInv, Queue
        <4> QED
          BY <1>1, <2>2, <3>1, <4>1, ScheduleSet DEF Ready
      <3>3. running_fiber' = running_fiber
        BY <1>4 DEF ProcessCompleted
      <3>4. \A s \in Slots : (Scheduled(s) => Scheduled(s)') /\ (s = Head(cq) => Scheduled(s)')
        BY <3>2, <3>3 DEF Scheduled, Ready
      <3> QED
        BY <1>3, <2>2, <3>4, TendedFrame
    <2> QED
      BY <1>4, <2>1, <2>2 DEF ProcessCompleted
  <1>5. CASE PopReady
    <2>1. /\ ready_fibers # <<>> /\ running_fiber' = Head(ready_fibers)
          /\ ready_fibers' = Tail(ready_fibers) /\ syscall_result' = syscall_result
      BY <1>5 DEF PopReady, fiberVars
    <2>2. \A s \in Slots : Scheduled(s) => Scheduled(s)'
      <3>1. ToSet(ready_fibers) = ToSet(Tail(ready_fibers)) \cup {Head(ready_fibers)}
        BY <1>1, <2>1, TailSet
      <3> QED
        BY <1>2, <2>1, <3>1, SlotsFacts DEF Scheduled
    <2> QED
      BY <1>3, <2>1, <2>2, TendedFrame
  <1>6. CASE SubmitAndWait
    <2>1. UNCHANGED <<syscall_result, ready_fibers, running_fiber>>
      BY <1>6 DEF SubmitAndWait, fiberVars, schedVars
    <2> QED
      BY <1>3, <2>1, TendedFrame DEF Scheduled
  <1> QED
    BY <1>4, <1>5, <1>6 DEF ProcessIo

\* The end of a fiber: it wakes who joins it, and its parent if it is the last child.
LEMMA TendedLeave ==
    ASSUME RuntimeInv, Tended, NEW i \in Slots \ {Root}, children[i] = {},
           running_fiber = i, pc[i] \in {"User", "Children"},
           NEW q \in Seq(Slots), NEW C \in SUBSET Slots, Leave(i, q, C), IsInjective(q),
           Ready \subseteq ToSet(q), join_handle[i] \in Slots => join_handle[i] \in ToSet(q)
    PROVE  Tended'
  <1>1. TypeOK /\ Joins /\ StateInv
    BY DEF RuntimeInv, StateInv, StackInv
  <1>2. PICK p \in Slots \ {i} :
             /\ parent[i] = p /\ i \in children[p] /\ Active(p)
             /\ UNCHANGED <<interfaceVars, mode, target, handle, syscall_result>>
             /\ running_fiber' = NoFiber
             /\ \/ ready_fibers' = q
                \/ ready_fibers' = Schedule(q, p) /\ Completed(p) /\ children'[p] = {}
             /\ \A s \in Slots \ {i} : /\ pc'[s] = pc[s] /\ parent'[s] = parent[s]
                                       /\ join_handle'[s] = join_handle[s]
             /\ \A s \in Slots : children'[s] = IF s = p THEN children[s] \ {i} ELSE children[s]
             /\ \/ /\ join_handle[i] = Dropped /\ pc'[i] = "Vacant"
                   /\ parent' = [parent EXCEPT ![i] = NoFiber] /\ parent'[i] = NoFiber
                   /\ join_handle'[i] = Unused /\ is_cancelled' = C \ {i}
                \/ /\ join_handle[i] # Dropped /\ pc'[i] = "Done" /\ parent' = parent
                   /\ join_handle'[i] = IF join_handle[i] \in Slots THEN WaitingNone
                                        ELSE join_handle[i]
                   /\ is_cancelled' = C
    BY <1>1, LeaveFacts
  <1>6. Completed(p) /\ children'[p] = {} => ready_fibers' = Schedule(q, p)
    <2> DEFINE kids == [children EXCEPT ![parent[i]] = @ \ {i}]
    <2>1. ready_fibers' = IF LastChild(parent[i], kids) THEN Schedule(q, parent[i]) ELSE q
      BY DEF Leave
    <2>2. kids[p] = children'[p]
      BY <1>1, <1>2 DEF TypeOK
    <2> HIDE DEF kids
    <2> QED
      BY <1>2, <2>1, <2>2 DEF LastChild
  <1>3. ToSet(q) \subseteq Ready' /\ (ready_fibers' = Schedule(q, p) => p \in Ready')
    BY <1>2, ScheduleSet DEF Ready
  <1>4. ASSUME NEW s \in Slots \ {i}, Active(s)', ~Scheduled(s)' PROVE Asleep(s)'
    <2>1. Active(s) /\ ~Scheduled(s)
      BY <1>2, <1>3, <1>4 DEF Active, Scheduled, Ready
    <2>2. Asleep(s)
      BY <2>1 DEF Tended
    <2>3. ASSUME Joining(s), NEW t \in Slots, target[s] = t PROVE join_handle'[t] = s
      <3>1. join_handle[t] = s
        BY <2>2, <2>3 DEF Asleep
      <3>2. t # i
        BY <1>3, <1>4, <3>1 DEF Scheduled, Ready
      <3> QED
        BY <1>2, <3>1, <3>2
    <2>4. ASSUME pc[s] = "Children" PROVE children'[s] # {}
      <3>1. children[s] # {}
        BY <2>2, <2>4 DEF Asleep
      <3>2. CASE s # p
        BY <1>2, <3>1, <3>2
      <3>3. CASE s = p
        BY <1>3, <1>4, <1>6, <2>4, <3>3 DEF Completed, Scheduled, Ready
      <3> QED
        BY <3>2, <3>3
    <2> QED
      BY <1>2, <2>2, <2>3, <2>4 DEF Asleep, Joining, InSyscall
  <1>5. ~Active(i)'
    BY <1>2 DEF Active
  <1> QED
    BY <1>4, <1>5 DEF Tended

LEMMA TendedComplete ==
    ASSUME RuntimeInv, RuntimeInv', Tended, NEW i \in Slots,
           ResumeChildren(i) \/ Complete(i, TRUE) \/ Complete(i, FALSE)
    PROVE  Tended'
  <1>1. /\ TypeOK /\ Joins /\ Queue /\ Phases /\ Phases'
        /\ ready_fibers \in Seq(Slots) /\ IsInjective(ready_fibers)
    BY DEF RuntimeInv, StateInv, StackInv, TypeOK, Queue
  <1>2. /\ mode = "run" /\ running_fiber = i /\ pc[i] \in {"User", "Children"}
        /\ pc[i] = "Children" => children[i] = {}
    BY <1>1 DEF ResumeChildren, Complete, At, Queue, Justified
  <1>3. ASSUME ReturnFromStart PROVE Tended'
    <2>1. \A s \in Slots : ~Active(s)'
      BY <1>1, <1>3 DEF ReturnFromStart, Phases
    <2> QED
      BY <2>1 DEF Tended
  <1>4. ASSUME children[i] # {}, Park(i, "Children"),
               UNCHANGED <<children, join_handle, syscall_result, target, ready_fibers>>
        PROVE  Tended'
    <2>1. pc'[i] = "Children" /\ \A s \in Slots \ {i} : pc'[s] = pc[s]
      BY <1>1, <1>4 DEF Park, TypeOK
    <2>2. Asleep(i)'
      BY <1>4, <2>1 DEF Asleep, Joining, InSyscall
    <2>3. \A s \in Slots \ {i} : Active(s)' => LeftAlone(s)
      BY <1>2, <1>4, <2>1 DEF LeftAlone, Active, Scheduled
    <2> QED
      BY <2>2, <2>3, TendedFrame
  <1>5. ASSUME children[i] = {}, i # Root, NEW panicked \in BOOLEAN, Retire(i, panicked) PROVE Tended'
    <2> DEFINE c == is_cancelled \cup {i}
    <2>1. c \in SUBSET Slots /\ c \cup Subtree(Root) \in SUBSET Slots
      BY <1>1, SlotsFacts, SubtreeFacts DEF TypeOK
    <2> HIDE DEF c
    <2>2. ASSUME NEW q \in Seq(Slots), NEW C \in SUBSET Slots, Leave(i, q, C), IsInjective(q),
                 Ready \subseteq ToSet(q), join_handle[i] \in Slots => join_handle[i] \in ToSet(q)
          PROVE  Tended'
      BY <1>2, <1>5, <2>2, TendedLeave
    <2>3. CASE join_handle[i] \in Slots /\ Leave(i, Schedule(ready_fibers, join_handle[i]), c)
      <3> DEFINE q == Schedule(ready_fibers, join_handle[i])
      <3>1. q \in Seq(Slots) /\ ToSet(q) = Ready \cup {join_handle[i]} /\ IsInjective(q)
        BY <1>1, <2>3, ScheduleSet, ScheduleType DEF Ready
      <3> HIDE DEF q
      <3> QED
        BY <2>1, <2>2, <2>3, <3>1 DEF q
    <2>4. CASE /\ join_handle[i] \notin Slots
               /\ \E w \in InVisitOrder(Woken(Root, i)) : Leave(i, ready_fibers \o w, c \cup Subtree(Root))
      <3>1. PICK w \in InVisitOrder(Woken(Root, i)) : Leave(i, ready_fibers \o w, c \cup Subtree(Root))
        BY <2>4
      <3> DEFINE q == ready_fibers \o w
      <3>2. Woken(Root, i) \in SUBSET Slots /\ Woken(Root, i) \cap ToSet(ready_fibers) = {}
        <4>1. Live(Root) /\ Root \in Slots
          BY <1>1, <1>2, SlotsFacts DEF Phases, Active, Live
        <4> QED
          BY <4>1, CancelVisit DEF Ready
      <3>3. q \in Seq(Slots) /\ ToSet(q) = Ready \cup Woken(Root, i) /\ IsInjective(q)
        BY <1>1, <3>2, VisitOrderSet, VisitOrderType DEF Ready
      <3>4. Leave(i, q, c \cup Subtree(Root))
        BY <3>1
      <3> HIDE DEF q
      <3> QED
        BY <2>1, <2>2, <2>4, <3>3, <3>4
    <2>5. CASE join_handle[i] \notin Slots /\ Leave(i, ready_fibers, c)
      BY <1>1, <2>1, <2>2, <2>5 DEF Ready
    <2> QED
      BY <1>5, <2>3, <2>4, <2>5 DEF Retire, c
  <1>6. CASE ResumeChildren(i)
    <2>1. children[i] = {}
      BY <1>2, <1>6 DEF ResumeChildren, At
    <2>2. (i \in result_is_error) \in BOOLEAN
      OBVIOUS
    <2> QED
      BY <1>3, <1>5, <1>6, <2>1, <2>2 DEF ResumeChildren
  <1>7. ASSUME NEW panicked \in BOOLEAN, Complete(i, panicked) PROVE Tended'
    <2>1. CASE children[i] # {}
      BY <1>4, <1>7, <2>1 DEF Complete
    <2>2. CASE children[i] = {}
      BY <1>3, <1>5, <1>7, <2>2 DEF Complete
    <2> QED
      BY <2>1, <2>2
  <1> QED
    BY <1>6, <1>7

\* Every step keeps it.
LEMMA TendedNext == ~OwnedParents /\ RuntimeInv /\ RuntimeInv' /\ Tended /\ [Next]_vars => Tended'
  <1> SUFFICES ASSUME ~OwnedParents, RuntimeInv, RuntimeInv', Tended, [Next]_vars PROVE Tended'
    OBVIOUS
  <1>1. TypeOK /\ Queue /\ Phases /\ ready_fibers \in Seq(Slots) /\ IsInjective(ready_fibers)
    BY DEF RuntimeInv, StateInv, StackInv, TypeOK, Queue
  <1>2. CASE Start
    <2>1. /\ \A s \in Slots : pc[s] = "Vacant"
          /\ pc' = [pc EXCEPT ![Root] = "User"] /\ running_fiber' = Root
      BY <1>2 DEF Start, RuntimeInv, StateInv, StackInv, ModeKnown
    <2>2. \A s \in Slots : Active(s)' => Scheduled(s)'
      BY <1>1, <2>1 DEF TypeOK, Active, Scheduled
    <2> QED
      BY <2>2 DEF Tended
  <1>3. ASSUME NEW i \in Slots, NEW c \in Slots, NEW moved \in SUBSET Held(i), Spawn(i, c, moved)
        PROVE  Tended'
    <2>1. /\ running_fiber = i /\ running_fiber' = i
          /\ pc' = [pc EXCEPT ![c] = "User"]
          /\ ready_fibers' = Append(ready_fibers, c)
          /\ children' = [children EXCEPT ![i] = @ \cup {c}]
          /\ UNCHANGED <<join_handle, syscall_result, target>>
      BY <1>3 DEF Spawn, At
    <2>2. ~Active(c)
      BY <1>3 DEF Spawn, Active
    <2>3. c \notin Ready
      BY <1>1, <2>2 DEF Queue, Justified
    <2>4. Ready' = Ready \cup {c}
      BY <1>1, <2>1, <2>3, AppendSet DEF Ready
    <2>5. ASSUME NEW s \in Slots, s # c, s # i, Active(s)' PROVE LeftAlone(s)
      <3>1. pc'[s] = pc[s] /\ children'[s] = children[s]
        BY <1>1, <2>1, <2>5 DEF TypeOK
      <3> QED
        BY <2>1, <2>4, <2>5, <3>1 DEF LeftAlone, Active, Scheduled, Ready
    <2>6. Scheduled(i)' /\ Scheduled(c)'
      BY <2>1, <2>4 DEF Scheduled, Ready
    <2> QED
      BY <2>5, <2>6, TendedFrame
  <1>4. ASSUME UNCHANGED <<pc, children, join_handle, syscall_result, target>>,
               \A s \in Slots : Scheduled(s) => Scheduled(s)'
        PROVE  Tended'
    <2>1. \A s \in Slots : Active(s)' => LeftAlone(s)
      BY <1>4 DEF LeftAlone, Active
    <2> QED
      BY <2>1, TendedFrame
  <1>5. ASSUME NEW i \in Slots, NEW r \in Slots, At(i, "User"), CancelTree(r, i),
               handle[r] = i \/ r = i \/ r = Root
        PROVE  Tended'
    <2>1. Live(r)
      BY <1>5 DEF RuntimeInv, StateInv, Handles, Phases, Active, Live, At
    <2>2. Woken(r, i) \in SUBSET Slots /\ Woken(r, i) \cap ToSet(ready_fibers) = {}
      BY <2>1, CancelVisit DEF Ready
    <2>3. Ready' = Ready \cup Woken(r, i)
      BY <1>1, <1>5, <2>2, VisitOrderSet DEF CancelTree, Ready
    <2>4. UNCHANGED <<pc, children, join_handle, syscall_result, target, running_fiber>>
      BY <1>5 DEF CancelTree
    <2> QED
      BY <1>4, <2>3, <2>4 DEF Scheduled, Ready
  <1>6. ASSUME NEW i, NEW j, ForgetHandle(i, j) \/ \E k \in Slots : GiveHandle(i, j, k)
        PROVE  Tended'
    <2>1. UNCHANGED <<pc, children, join_handle, syscall_result, target, ready_fibers, running_fiber>>
      BY <1>6 DEF ForgetHandle, GiveHandle, schedVars
    <2> QED
      BY <1>4, <2>1 DEF Scheduled
  <1>7. ASSUME NEW i \in Slots, YieldNow(i) PROVE Tended'
    <2>1. /\ running_fiber = i /\ ready_fibers' = Schedule(ready_fibers, i) /\ pc[i] = "User"
          /\ pc' = [pc EXCEPT ![i] = "User"]
          /\ UNCHANGED <<children, join_handle, syscall_result, target>>
      BY <1>7 DEF YieldNow, At, Park
    <2>2. pc' = pc
      BY <1>1, <2>1 DEF TypeOK
    <2>3. Ready' = Ready \cup {i}
      BY <1>1, <2>1, ScheduleSet DEF Ready
    <2>4. \A s \in Slots : Scheduled(s) => Scheduled(s)'
      BY <2>1, <2>3 DEF Scheduled, Ready
    <2> QED
      BY <1>4, <2>1, <2>2, <2>4
  <1>8. ASSUME NEW i \in Slots, Call(i) PROVE Tended'
    <2>1. CASE \E c \in Slots, moved \in SUBSET Held(i) : Spawn(i, c, moved)
      BY <1>3, <2>1
    <2>2. CASE (\E j \in Slots : Join(i, j) \/ DropHandle(i, j))
      BY <2>2, TendedJoin
    <2>3. CASE \E j \in Slots : ForgetHandle(i, j) \/ \E k \in Slots : GiveHandle(i, j, k)
      BY <1>6, <2>3
    <2>4. CASE YieldNow(i)
      BY <1>7, <2>4
    <2>5. CASE Syscall(i)
      BY <2>5, TendedSyscall
    <2>6. CASE Complete(i, TRUE) \/ Complete(i, FALSE)
      BY <2>6, TendedComplete
    <2>7. CASE (\E j \in Slots : CancelHandle(i, j)) \/ CancelSelf(i) \/ CancelPropagating(i)
      BY <1>5, <2>7, SlotsFacts DEF CancelHandle, CancelSelf, CancelPropagating
    <2> QED
      BY <1>8, <2>1, <2>2, <2>3, <2>4, <2>5, <2>6, <2>7 DEF Call
  <1>9. ASSUME NEW i \in Slots, Resume(i) PROVE Tended'
    BY <1>9, TendedJoin, TendedSyscall, TendedComplete DEF Resume
  <1>10. CASE ProcessIo
    BY <1>10, TendedIo
  <1>11. CASE (\E id \in Slots : Kernel(id)) \/ DropRuntime \/ UNCHANGED vars
    <2>1. UNCHANGED <<pc, children, join_handle, syscall_result, target, ready_fibers, running_fiber>>
      BY <1>11 DEF Kernel, DropRuntime, vars, fiberVars, schedVars
    <2> QED
      BY <1>4, <2>1 DEF Scheduled
  <1> QED
    BY <1>2, <1>8, <1>9, <1>10, <1>11 DEF Next, Terminated

\* Whoever has a reason to go on will run: the step that gives the reason schedules.
THEOREM NobodyIsForgotten == ASSUME ~OwnedParents PROVE Spec => []NobodyOversleeps
  <1>1. Init => Tended
    <2>1. ASSUME Init PROVE \A s \in Slots : ~Active(s)
      BY <2>1 DEF Init, Active
    <2> QED
      BY <2>1 DEF Tended
  <1>2. RuntimeInv /\ RuntimeInv' /\ Tended /\ [Next]_vars => Tended'
    BY TendedNext
  <1>3. ASSUME RuntimeInv, Tended PROVE NobodyOversleeps
    <2>1. /\ TypeOK /\ Joins /\ Handles /\ CancellationReaches
      BY <1>3 DEF RuntimeInv, StateInv, StackInv, Cancellation
    <2>2. ASSUME NEW s \in Slots, ~Scheduled(s), Active(s) PROVE Asleep(s)
      BY <1>3, <2>2 DEF Tended
    <2>3. ASSUME NEW s \in Slots, ~Scheduled(s), pc[s] \in {"Join1", "Join2"}
          PROVE  ~Completed(target[s])
      <3>1. Joining(s) /\ Asleep(s)
        BY <2>2, <2>3 DEF Active, Joining
      <3>2. PICK t \in Slots : target[s] = t /\ handle[t] = s /\ join_handle[t] = s
        BY <2>1, <3>1 DEF Asleep, Joins
      <3>3. Active(t) /\ pc[t] # "Children"
        BY <2>1, <3>2 DEF Joins, Handles
      <3> QED
        BY <3>2, <3>3 DEF Completed, Active
    <2>4. ASSUME NEW s \in Slots, ~Scheduled(s)
          PROVE  /\ pc[s] # "User"
                 /\ pc[s] \in {"Sys1", "Sys2"} => s \notin syscall_result
                 /\ pc[s] = "Children" => children[s] # {}
      BY <2>2, <2>4 DEF Active, Asleep, InSyscall
    <2> QED
      BY <2>1, <2>3, <2>4 DEF NobodyOversleeps
  <1> QED
    BY <1>1, <1>2, <1>3, RuntimeInvAlways, PTL DEF Spec

-----------------------------------------------------------------------------
(* When the runtime stops while fibers are left, they wait for each other;  *)
(* and they do not, as long as handles go to new fibers only.              *)

\* Parks of closures are not part of the runtime's own API.
NoOwnParks == \A s \in Slots : pc[s] # "Parked"

\* A fiber that is not scheduled and in no system call waits for another one.
LEMMA StopsInCircle ==
    ASSUME RuntimeInv, Tended, NoOwnParks
    PROVE  StandstillIsCircle
  <1> SUFFICES ASSUME Standstill, NEW s \in Slots, Active(s)
               PROVE  \E x \in Slots : WaitsIn(s, x) /\ Active(x)
    BY DEF StandstillIsCircle, Active
  <1>1. /\ TypeOK /\ Hierarchy /\ Joins /\ Rings /\ pc[s] \in Labels /\ children[s] \subseteq Slots
    BY SlotTypes DEF RuntimeInv, StateInv, StackInv
  <1>2. ~Scheduled(s) /\ s \notin InRings
    <2>1. Ready = {} /\ Issued = {} /\ ToSet(cq) = {}
      BY DEF Standstill, Ready, Issued, ToSet
    <2> QED
      BY <2>1, SlotsFacts DEF Standstill, Scheduled, Ready, InProcessIo, InRings
  <1>3. Asleep(s)
    BY <1>2 DEF Tended
  <1>4. CASE Joining(s)
    <2>1. PICK x \in Slots : target[s] = x
      BY <1>1, <1>4 DEF Joins
    <2>2. Active(x)
      BY <1>1, <1>3, <1>4, <2>1 DEF Joins, Asleep
    <2> QED
      BY <1>4, <2>1, <2>2 DEF Joining, WaitsIn
  <1>5. CASE pc[s] = "Children"
    <2>1. PICK x \in Slots : x \in children[s]
      BY <1>1, <1>3, <1>5 DEF Asleep
    <2> QED
      BY <1>1, <1>5, <2>1 DEF Hierarchy, WaitsIn
  <1>6. ~InSyscall(s)
    BY <1>1, <1>2, <1>3 DEF Rings, Pending, Asleep
  <1> QED
    BY <1>1, <1>3, <1>4, <1>5, <1>6 DEF Labels, Active, Asleep, Joining, InSyscall, NoOwnParks

\* What fiber s may have to wait for: its children, and the fibers it can join.
WaitsFor(s, x) == x \in children[s] \/ handle[x] = s

\* Whichever fibers one looks at, one of them waits for none of the others.
NoCircle == \A S \in SUBSET Slots : S # {} => \E m \in S : \A x \in S : ~WaitsFor(m, x)

\* A runtime without a running fiber has a next one, or a completion to read, or
\* an operation the kernel has yet to see or to complete.
RuntimeGoesOn ==
    InProcessIo => ready_fibers # <<>> \/ cq # <<>> \/ sq # <<>> \/ inflight # {}

LEMMA CircleFrame ==
    ASSUME NoCircle, \A s, x \in Slots : WaitsFor(s, x)' => WaitsFor(s, x)
    PROVE  NoCircle'
  BY DEF NoCircle

\* The steps that give away links without making any.
Unlinks ==
    /\ \A s \in Slots : children'[s] \subseteq children[s]
    /\ \A s \in Slots : handle'[s] \in {handle[s], NoFiber}
    /\ \A s \in Slots : pc'[s] = "Parked" => pc[s] = "Parked"

LEMMA UnlinksKeeps ==
    ASSUME Unlinks, NoCircle
    PROVE  NoCircle'
  <1>1. \A s, x \in Slots : WaitsFor(s, x)' => WaitsFor(s, x)
    BY SlotsFacts DEF Unlinks, WaitsFor
  <1> QED
    BY <1>1, CircleFrame

\* Nobody knows the spawned fiber but its parent, and whoever takes handles with
\* it is new.
LEMMA SpawnCircle ==
    ASSUME RuntimeInv, NoCircle,
           NEW i \in Slots, NEW c \in Slots, NEW moved \in SUBSET Held(i), Spawn(i, c, moved)
    PROVE  NoCircle'
  <1>1. TypeOK /\ Hierarchy /\ Handles
    BY DEF RuntimeInv, StateInv, StackInv
  <1>2. /\ pc[i] = "User" /\ pc[c] = "Vacant" /\ c # i
        /\ \A s \in Slots : pc'[s] = IF s = c THEN "User" ELSE pc[s]
        /\ \A s \in Slots : children'[s] = IF s = i THEN children[s] \cup {c} ELSE children[s]
        /\ \A j \in Slots : handle'[j] = IF j = c THEN i ELSE IF j \in moved THEN c ELSE handle[j]
    BY <1>1 DEF Spawn, At, TypeOK
  <1>3. \A s \in Slots : ~WaitsFor(s, c) /\ ~WaitsFor(c, s)
    <2>1. ~Active(c) /\ ~Live(c)
      BY <1>2 DEF Active, Live
    <2> QED
      BY <1>1, <2>1, NoLinksFromEnded DEF WaitsFor, Hierarchy, Handles
  <1>4. \A j \in moved : j \in Slots /\ WaitsFor(i, j) /\ j # c
    BY <1>3 DEF Held, WaitsFor
  <1>5. \A s, x \in Slots : WaitsFor(s, x)' =>
            \/ WaitsFor(s, x)
            \/ s = i /\ x = c
            \/ s = c /\ x \in moved
    <2>1. ASSUME NEW s \in Slots, NEW x, x \in children'[s]
          PROVE  x \in children[s] \/ (s = i /\ x = c)
      BY <1>2, <2>1
    <2>2. ASSUME NEW s \in Slots, NEW x \in Slots, handle'[x] = s
          PROVE  handle[x] = s \/ (s = i /\ x = c) \/ (s = c /\ x \in moved)
      BY <1>2, <2>2
    <2> QED
      BY <2>1, <2>2 DEF WaitsFor
  <1>6. ASSUME NEW S \in SUBSET Slots, S # {}
        PROVE  \E m \in S : \A x \in S : ~WaitsFor(m, x)'
    <2>1. CASE S \subseteq {c}
      <3>1. c \in S /\ \A x \in S : x = c
        BY <1>6, <2>1
      <3>2. ~WaitsFor(c, c)'
        BY <1>2, <1>3, <1>4, <1>5
      <3> QED
        BY <3>1, <3>2
    <2>2. CASE ~(S \subseteq {c})
      <3>1. PICK m \in S \ {c} : \A x \in S \ {c} : ~WaitsFor(m, x)
        <4>1. S \ {c} \in SUBSET Slots /\ S \ {c} # {}
          BY <2>2
        <4> QED
          BY <4>1 DEF NoCircle
      <3>2. CASE m # i \/ c \notin S
        BY <1>3, <1>5, <3>1, <3>2
      <3>3. CASE m = i /\ c \in S
        <4>1. \A x \in S : x \notin moved
          BY <1>4, <3>1, <3>3
        <4>2. \A x \in S : ~WaitsFor(c, x)'
          BY <1>2, <1>3, <1>5, <4>1
        <4> QED
          BY <3>3, <4>2
      <3> QED
        BY <3>2, <3>3
    <2> QED
      BY <2>1, <2>2
  <1> QED
    BY <1>6 DEF NoCircle

\* Dropping a handle unlinks its fiber.
LEMMA ReleaseUnlinks ==
    ASSUME TypeOK, NEW j \in Slots, NEW p \in [Slots -> Labels], Release(j, p),
           \A s \in Slots : p[s] = "Parked" => pc[s] = "Parked"
    PROVE  Unlinks
  <1>1. \A s \in Slots : handle'[s] \in {handle[s], NoFiber}
    BY DEF Release, TypeOK
  <1>2. \A s \in Slots : pc'[s] = p[s] \/ pc'[s] = "Vacant"
    BY ReleaseSlots
  <1>3. \A s \in Slots : children'[s] = children[s] \/ children'[s] = {}
    BY DEF Release, Free, TypeOK
  <1> QED
    BY <1>1, <1>2, <1>3 DEF Unlinks

\* A step in which fiber i only goes from one label to another.
LEMMA MoveUnlinks ==
    ASSUME TypeOK, NEW i \in Slots, NEW l \in Labels \ {"Parked"}, pc' = [pc EXCEPT ![i] = l],
           UNCHANGED <<children, handle>>
    PROVE  Unlinks
  BY DEF TypeOK, Unlinks

LEMMA StillUnlinks ==
    ASSUME UNCHANGED <<pc, children, handle>>
    PROVE  Unlinks
  BY DEF Unlinks

\* The end of a fiber unlinks it from its parent.
LEMMA CompleteUnlinks ==
    ASSUME RuntimeInv, NEW i \in Slots, NEW panicked \in BOOLEAN,
           Complete(i, panicked) \/ ResumeChildren(i)
    PROVE  Unlinks
  <1>1. TypeOK /\ StateInv
    BY DEF RuntimeInv, StateInv, StackInv
  <1>2. CASE /\ pc' = [pc EXCEPT ![i] = "Children"]
             /\ UNCHANGED <<children, handle>>
    BY <1>1, <1>2, MoveUnlinks DEF Labels
  <1>3. CASE ReturnFromStart
    <2>1. pc' = [pc EXCEPT ![Root] = "Done"] /\ UNCHANGED <<children, handle>>
      BY <1>3 DEF ReturnFromStart
    <2> QED
      BY <1>1, <2>1, MoveUnlinks, SlotsFacts DEF Labels
  <1>4. ASSUME NEW b \in BOOLEAN, Retire(i, b)
        PROVE  Unlinks
    <2>1. PICK q, C : Leave(i, q, C)
      BY <1>4 DEF Retire
    <2>2. \A s \in Slots : pc'[s] \in {pc[s], "Done", "Vacant"}
      BY <1>1, <2>1 DEF Leave, Free, TypeOK
    <2>3. handle' = handle
      BY <2>1 DEF Leave
    <2>4. \A s \in Slots : children'[s] \subseteq children[s]
      BY <1>1, <2>1 DEF Leave, Free, TypeOK
    <2> QED
      BY <2>2, <2>3, <2>4 DEF Unlinks
  <1>5. CASE ResumeChildren(i)
    <2>1. (i \in result_is_error) \in BOOLEAN
      OBVIOUS
    <2> QED
      BY <1>3, <1>4, <1>5, <2>1 DEF ResumeChildren
  <1>6. CASE Complete(i, panicked)
    BY <1>2, <1>3, <1>4, <1>6 DEF Complete, Park
  <1> QED
    BY <1>5, <1>6

\* Only spawn and handing on a handle make links.
LEMMA StepUnlinks ==
    ASSUME RuntimeInv, [Next]_vars
    PROVE  \/ Unlinks
           \/ \E i, c \in Slots : \E moved \in SUBSET Held(i) : Spawn(i, c, moved)
           \/ "give" \in Calls /\ \E i, j, k \in Slots : GiveHandle(i, j, k)
  <1> DEFINE Spawns == \E i, c \in Slots : \E moved \in SUBSET Held(i) : Spawn(i, c, moved)
             Gives == "give" \in Calls /\ \E i, j, k \in Slots : GiveHandle(i, j, k)
  <1>1. TypeOK /\ Joins /\ pc \in [Slots -> Labels]
    BY DEF RuntimeInv, StateInv, StackInv, TypeOK
  <1>2. ASSUME NEW i \in Slots, NEW j \in Slots, Join(i, j) \/ DropHandle(i, j) \/ ForgetHandle(i, j)
        PROVE  Unlinks
    <2>1. CASE Release(j, pc)
      BY <1>1, <2>1, ReleaseUnlinks
    <2>2. CASE Park(i, "Join1") /\ UNCHANGED <<children, handle>>
      BY <1>1, <2>2, MoveUnlinks DEF Park, Labels
    <2>3. CASE handle' = [handle EXCEPT ![j] = NoFiber] /\ UNCHANGED <<pc, children>>
      BY <1>1, <2>3 DEF TypeOK, Unlinks
    <2> QED
      BY <1>2, <2>1, <2>2, <2>3 DEF Join, DropHandle, ForgetHandle
  <1>3. ASSUME NEW i \in Slots, ResumeJoin1(i) \/ ResumeJoin2(i) PROVE Unlinks
    <2>1. CASE ReturnFromJoin(i)
      <3> DEFINE user == [pc EXCEPT ![i] = "User"]
      <3>1. target[i] \in Slots
        BY <1>1, <1>3 DEF Joins, Joining, ResumeJoin1, ResumeJoin2, At
      <3>2. user \in [Slots -> Labels] /\ \A s \in Slots : user[s] = "Parked" => pc[s] = "Parked"
        BY <1>1 DEF Labels
      <3>3. Release(target[i], user)
        BY <2>1 DEF ReturnFromJoin
      <3> HIDE DEF user
      <3> QED
        BY <1>1, <3>1, <3>2, <3>3, ReleaseUnlinks
    <2>2. CASE Park(i, "Join2") /\ UNCHANGED <<children, handle>>
      BY <1>1, <2>2, MoveUnlinks DEF Park, Labels
    <2> QED
      BY <1>3, <2>1, <2>2 DEF ResumeJoin1, ResumeJoin2
  <1>4. ASSUME NEW i \in Slots, Syscall(i) \/ ResumeSys1(i) \/ ResumeSys2(i) \/ YieldNow(i) PROVE Unlinks
    <2>1. PICK l \in {"User", "Sys1", "Sys2"} : pc' = [pc EXCEPT ![i] = l]
      BY <1>4 DEF Syscall, ResumeSys1, ResumeSys2, ReadSyscallResult, YieldNow, Park
    <2>2. UNCHANGED <<children, handle>>
      BY <1>4 DEF Syscall, ResumeSys1, ResumeSys2, YieldNow
    <2> QED
      BY <1>1, <2>1, <2>2, MoveUnlinks DEF Labels
  <1>5. ASSUME NEW i \in Slots, NEW r \in Slots, CancelTree(r, i) PROVE Unlinks
    BY <1>5, StillUnlinks DEF CancelTree
  <1>6. ASSUME NEW i \in Slots, Call(i) PROVE Unlinks \/ Spawns \/ Gives
    <2>1. CASE \E c \in Slots, moved \in SUBSET Held(i) : Spawn(i, c, moved)
      BY <2>1
    <2>2. CASE \E j \in Slots : Join(i, j) \/ DropHandle(i, j) \/ ForgetHandle(i, j)
      BY <1>2, <2>2
    <2>3. CASE YieldNow(i) \/ Syscall(i)
      BY <1>4, <2>3
    <2>4. CASE Complete(i, TRUE) \/ Complete(i, FALSE)
      BY <2>4, CompleteUnlinks
    <2>5. CASE (\E j \in Slots : CancelHandle(i, j)) \/ CancelSelf(i) \/ CancelPropagating(i)
      BY <1>5, <2>5, SlotsFacts DEF CancelHandle, CancelSelf, CancelPropagating
    <2>6. CASE "give" \in Calls /\ \E j, k \in Slots : GiveHandle(i, j, k)
      BY <2>6
    <2> HIDE DEF Spawns, Gives
    <2> QED
      BY <1>6, <2>1, <2>2, <2>3, <2>4, <2>5, <2>6 DEF Call
  <1>7. ASSUME NEW i \in Slots, Resume(i) PROVE Unlinks
    BY <1>3, <1>4, <1>7, CompleteUnlinks DEF Resume
  <1>8. ASSUME Start PROVE Unlinks
    <2>1. pc' = [pc EXCEPT ![Root] = "User"] /\ UNCHANGED <<children, handle>>
      BY <1>8 DEF Start
    <2> QED
      BY <1>1, <2>1, MoveUnlinks, SlotsFacts DEF Labels
  <1>9. ASSUME ProcessIo \/ (\E id \in Slots : Kernel(id)) \/ DropRuntime \/ UNCHANGED vars
        PROVE  Unlinks
    <2>1. UNCHANGED <<pc, children, handle>>
      BY <1>9 DEF ProcessIo, ProcessCompleted, PopReady, SubmitAndWait, Kernel, DropRuntime,
                  vars, fiberVars
    <2> QED
      BY <2>1, StillUnlinks
  <1> HIDE DEF Spawns, Gives
  <1>10. Unlinks \/ Spawns \/ Gives
    BY <1>6, <1>7, <1>8, <1>9 DEF Next, Terminated
  <1> QED
    BY <1>10 DEF Spawns, Gives

\* Nobody parks for a reason of its own.
LEMMA ParksNext == RuntimeInv /\ NoOwnParks /\ [Next]_vars => NoOwnParks'
  <1> SUFFICES ASSUME RuntimeInv, NoOwnParks, [Next]_vars PROVE NoOwnParks'
    OBVIOUS
  <1>1. CASE Unlinks
    BY <1>1 DEF Unlinks, NoOwnParks
  <1>2. CASE \E i, c \in Slots : \E moved \in SUBSET Held(i) : Spawn(i, c, moved)
    <2>1. PICK c \in Slots : pc' = [pc EXCEPT ![c] = "User"]
      BY <1>2 DEF Spawn
    <2>2. pc \in [Slots -> Labels]
      BY DEF RuntimeInv, StateInv, StackInv, TypeOK
    <2> QED
      BY <2>1, <2>2 DEF NoOwnParks
  <1>3. CASE \E i, j, k \in Slots : GiveHandle(i, j, k)
    BY <1>3 DEF GiveHandle, NoOwnParks
  <1> QED
    BY <1>1, <1>2, <1>3, StepUnlinks

\* Unless closures hand on handles, no step closes a circle.
LEMMA CircleNext == "give" \notin Calls /\ RuntimeInv /\ NoCircle /\ [Next]_vars => NoCircle'
  BY StepUnlinks, UnlinksKeeps, SpawnCircle

\* Take a fiber that waits for no other: nothing it could be asleep for is left.
LEMMA SomebodyGoesOn ==
    ASSUME RuntimeInv, Tended, NoCircle, NoOwnParks
    PROVE  RuntimeGoesOn
  <1> SUFFICES ASSUME InProcessIo, ready_fibers = <<>>, cq = <<>>, sq = <<>>, inflight = {}
               PROVE  FALSE
    BY DEF RuntimeGoesOn
  <1>1. /\ TypeOK /\ Hierarchy /\ Joins /\ Rings /\ Phases
    BY DEF RuntimeInv, StateInv, StackInv
  <1>2. ASSUME NEW s \in Slots PROVE ~Scheduled(s) /\ s \notin InRings
    <2>1. Ready = {} /\ Issued = {} /\ ToSet(cq) = {}
      BY DEF Ready, Issued, ToSet
    <2> QED
      BY <2>1, SlotsFacts DEF Scheduled, Ready, InProcessIo, InRings
  <1> DEFINE Left == {s \in Slots : Active(s)}
  <1>3. Root \in Left
    BY <1>1, SlotsFacts DEF Phases, InProcessIo
  <1>4. PICK m \in Left : \A x \in Left : ~WaitsFor(m, x)
    <2>1. Left \in SUBSET Slots /\ Left # {}
      BY <1>3
    <2> HIDE DEF Left
    <2> QED
      BY <2>1 DEF NoCircle
  <1>5. m \in Slots /\ Active(m) /\ Asleep(m)
    BY <1>2 DEF Tended
  <1>6. ~Joining(m)
    <2>1. SUFFICES ASSUME Joining(m) PROVE FALSE
      OBVIOUS
    <2>2. PICK t \in Slots : target[m] = t /\ handle[t] = m
      BY <1>1, <1>5, <2>1 DEF Joins
    <2>3. Active(t)
      BY <1>1, <1>5, <2>1, <2>2 DEF Joins, Asleep
    <2> QED
      BY <1>4, <2>2, <2>3 DEF WaitsFor
  <1>7. ~InSyscall(m)
    BY <1>1, <1>2, <1>5 DEF Rings, Pending, Asleep
  <1>8. pc[m] # "Children"
    <2>1. children[m] \subseteq Left
      BY <1>1, <1>5, SlotTypes DEF Hierarchy
    <2> QED
      BY <1>4, <1>5, <2>1 DEF Asleep, WaitsFor
  <1>9. pc[m] \in Labels
    BY <1>1, <1>5, SlotTypes
  <1> QED
    BY <1>5, <1>6, <1>7, <1>8, <1>9 DEF Labels, Active, Asleep, Joining, InSyscall, NoOwnParks

\* Fibers that use the runtime's API alone: everybody has a reason to wait.
LEMMA TendedAlways == ASSUME ~OwnedParents PROVE Spec => [](RuntimeInv /\ Tended /\ NoOwnParks)
  <1>1. Init => Tended /\ NoOwnParks
    <2>1. ASSUME Init PROVE (\A s \in Slots : ~Active(s)) /\ NoOwnParks
      BY <2>1 DEF Init, Active, NoOwnParks
    <2> QED
      BY <2>1 DEF Tended
  <1>2. RuntimeInv /\ RuntimeInv' /\ Tended /\ [Next]_vars => Tended'
    BY TendedNext
  <1> QED
    BY <1>1, <1>2, ParksNext, RuntimeInvAlways, PTL DEF Spec

\* The runtime stops (process_io has nobody to run and nothing to wait for) for one
\* reason only, whatever closures do with their handles: each fiber that is left
\* joins another one of them or waits for it as a child.  No wake-up, completion
\* or end was lost on the way.
THEOREM StandstillsAreCircles == ASSUME ~OwnedParents PROVE Spec => []StandstillIsCircle
  BY TendedAlways, StopsInCircle, PTL

\* And they do not wait in a circle if handles go no other way than into the
\* closure of a fiber that is being spawned.  Nothing in the code holds closures to
\* that: it is a discipline that is enough, and the hypothesis names it.
THEOREM HandlesGoingDownAreSafe ==
    ASSUME ~OwnedParents, "give" \notin Calls
    PROVE  Spec => [](NoCircle /\ RuntimeGoesOn)
  <1>1. Init => NoCircle
    <2>1. ASSUME Init PROVE \A s, x \in Slots : ~WaitsFor(s, x)
      BY <2>1, SlotsFacts DEF Init, WaitsFor
    <2> QED
      BY <2>1 DEF NoCircle
  <1>2. RuntimeInv /\ NoCircle /\ [Next]_vars => NoCircle'
    BY CircleNext
  <1>3. RuntimeInv /\ Tended /\ NoCircle /\ NoOwnParks => RuntimeGoesOn
    BY SomebodyGoesOn
  <1> QED
    BY <1>1, <1>2, <1>3, TendedAlways, PTL DEF Spec

-----------------------------------------------------------------------------
(* What a step does to the fibers that do not run.                          *)

Isolated == \A s \in Slots : Live(s) /\ s # running_fiber => LeftToItself(s)

\* Steps that move at most the running fiber i, give no result and leave the handles
\* that others own.
LEMMA IsolatedFrame ==
    ASSUME StateInv, NEW i, running_fiber = i,
           \A s \in Slots : s # i /\ Live(s) => pc'[s] = pc[s] /\ target'[s] = target[s],
           \A s \in Slots : s \in is_cancelled /\ Active(s) /\ s # i => s \in is_cancelled',
           \A s \in Slots : s # i => (s \in syscall_result' <=> s \in syscall_result),
           \A t \in Slots : handle[t] = i \/ handle[t] = NoFiber \/ handle'[t] = handle[t]
    PROVE  Isolated
  BY SlotsFacts DEF Isolated, LeftToItself, Live, Active

\* The drop of a handle, by its owner i, in a call or at the end of a join.
LEMMA IsolatedRelease ==
    ASSUME StateInv, NEW i \in Slots, NEW j \in Slots, running_fiber = i, handle[j] = i,
           Release(j, [pc EXCEPT ![i] = "User"]),
           target' = target \/ target' = [target EXCEPT ![i] = NoFiber]
    PROVE  Isolated
  <1>1. /\ pc[j] # "Children" /\ pc[i] # "Done"
        /\ \A s \in syscall_result : InSyscall(s)
    BY DEF StateInv, Handles, Rings, Active
  <1>2. /\ pc \in [Slots -> Labels] /\ handle \in [Slots -> Slots \cup {NoFiber}]
        /\ target \in [Slots -> Slots \cup {NoFiber}]
    BY DEF StateInv, StackInv, TypeOK
  <1>3. handle' = [handle EXCEPT ![j] = NoFiber]
    BY DEF Release
  <1>4. \A s \in Slots : s # i => target'[s] = target[s]
    BY <1>2
  <1>5. CASE pc[j] = "Done"
    <2>1. /\ pc' = [pc EXCEPT ![i] = "User", ![j] = "Vacant"]
          /\ is_cancelled' = is_cancelled \ {j} /\ syscall_result' = syscall_result \ {j}
      BY <1>5 DEF Release, Completed, Free
    <2>2. j \notin syscall_result
      BY <1>1, <1>5 DEF InSyscall
    <2> QED
      BY <1>1, <1>2, <1>3, <1>4, <1>5, <2>1, <2>2, SlotsFacts DEF Isolated, LeftToItself
  <1>6. CASE pc[j] # "Done"
    <2>1. /\ pc' = [pc EXCEPT ![i] = "User"] /\ UNCHANGED <<is_cancelled, syscall_result>>
      BY <1>1, <1>6 DEF Release, Completed
    <2> QED
      BY <1>2, <1>3, <1>4, <2>1, IsolatedFrame
  <1> QED
    BY <1>5, <1>6

\* Joins, from the call to the last park.
LEMMA IsolatedJoin ==
    ASSUME StateInv, NEW i \in Slots,
           (\E j \in Slots : Join(i, j) \/ DropHandle(i, j)) \/ ResumeJoin1(i) \/ ResumeJoin2(i)
    PROVE  Isolated
  <1>1. /\ pc \in [Slots -> Labels] /\ target \in [Slots -> Slots \cup {NoFiber}]
        /\ running_fiber = i
    BY DEF StateInv, StackInv, TypeOK, Join, DropHandle, ResumeJoin1, ResumeJoin2, At
  <1>2. ASSUME NEW l, Park(i, l), UNCHANGED <<is_cancelled, syscall_result, handle>>,
               \A s \in Slots : s # i => target'[s] = target[s]
        PROVE  Isolated
    BY <1>1, <1>2, IsolatedFrame DEF Park
  <1>3. ASSUME NEW j \in Slots, Join(i, j) \/ DropHandle(i, j) PROVE Isolated
    <2>1. pc[i] = "User" /\ handle[j] = i
      BY <1>3 DEF Join, DropHandle, At
    <2>2. CASE Release(j, pc) /\ target' = target
      <3>1. pc = [pc EXCEPT ![i] = "User"]
        BY <1>1, <2>1
      <3> QED
        BY <1>1, <2>1, <2>2, <3>1, IsolatedRelease
    <2>3. CASE Park(i, "Join1") /\ Join(i, j)
      <3>1. /\ UNCHANGED <<is_cancelled, syscall_result, handle>>
            /\ \A s \in Slots : s # i => target'[s] = target[s]
        BY <1>1, <2>1, <2>3, SlotsFacts DEF Join, Park
      <3> QED
        BY <1>2, <2>3, <3>1
    <2> QED
      BY <1>3, <2>2, <2>3 DEF Join, DropHandle
  <1>4. ASSUME Joining(i), ReturnFromJoin(i) PROVE Isolated
    <2>1. PICK j \in Slots : target[i] = j /\ handle[j] = i
      BY <1>4 DEF StateInv, Joins
    <2>2. Release(j, [pc EXCEPT ![i] = "User"]) /\ target' = [target EXCEPT ![i] = NoFiber]
      BY <1>4, <2>1 DEF ReturnFromJoin
    <2> QED
      BY <1>1, <2>1, <2>2, IsolatedRelease
  <1>5. CASE ResumeJoin1(i) \/ ResumeJoin2(i)
    <2>1. Joining(i)
      BY <1>5 DEF ResumeJoin1, ResumeJoin2, At, Joining
    <2>2. CASE ReturnFromJoin(i)
      BY <1>4, <2>1, <2>2
    <2>3. CASE Park(i, "Join2") /\ UNCHANGED <<is_cancelled, syscall_result, handle, target>>
      BY <1>2, <2>3
    <2> QED
      BY <1>5, <2>2, <2>3 DEF ResumeJoin1, ResumeJoin2
  <1> QED
    BY <1>3, <1>5

\* The other calls of a closure, and system calls.
LEMMA IsolatedCall ==
    ASSUME StateInv, NEW i \in Slots,
           \/ \E c \in Slots : \E moved \in SUBSET Held(i) : Spawn(i, c, moved)
           \/ \E j \in Slots : CancelHandle(i, j) \/ ForgetHandle(i, j)
           \/ \E j, k \in Slots : GiveHandle(i, j, k)
           \/ CancelSelf(i) \/ CancelPropagating(i) \/ YieldNow(i) \/ Syscall(i)
           \/ ResumeSys1(i) \/ ResumeSys2(i)
    PROVE  Isolated
  <1>1. /\ pc \in [Slots -> Labels] /\ running_fiber = i
        /\ handle \in [Slots -> Slots \cup {NoFiber}]
    BY DEF StateInv, StackInv, TypeOK, Spawn, CancelHandle, ForgetHandle, GiveHandle, CancelSelf,
           CancelPropagating, YieldNow, Syscall, ResumeSys1, ResumeSys2, At
  <1>2. ASSUME NEW c \in Slots, NEW moved \in SUBSET Held(i), Spawn(i, c, moved) PROVE Isolated
    <2>1. /\ pc[c] = "Vacant" /\ pc' = [pc EXCEPT ![c] = "User"]
          /\ is_cancelled \subseteq is_cancelled' /\ UNCHANGED <<syscall_result, target>>
      BY <1>2 DEF Spawn
    <2>2. \A t \in Slots : handle[t] = i \/ t = c \/ handle'[t] = handle[t]
      BY <1>2 DEF Spawn, Held
    <2>3. handle[c] = NoFiber
      BY <1>1, <2>1 DEF StateInv, Handles, Live
    <2> QED
      BY <1>1, <2>1, <2>2, <2>3, IsolatedFrame DEF Live
  <1>3. ASSUME NEW r, CancelTree(r, i) PROVE Isolated
    BY <1>1, <1>3, IsolatedFrame DEF CancelTree
  <1>4. CASE \E j \in Slots : ForgetHandle(i, j) \/ \E k \in Slots : GiveHandle(i, j, k)
    <2>1. /\ UNCHANGED <<pc, target, is_cancelled, syscall_result>>
          /\ \A t \in Slots : handle[t] = i \/ handle'[t] = handle[t]
      BY <1>1, <1>4 DEF ForgetHandle, GiveHandle
    <2> QED
      BY <1>1, <2>1, IsolatedFrame
  <1>5. CASE YieldNow(i) \/ Syscall(i) \/ ResumeSys1(i) \/ ResumeSys2(i)
    <2>1. /\ UNCHANGED <<target, is_cancelled, handle>>
          /\ \A s \in Slots : s # i => pc'[s] = pc[s]
          /\ syscall_result' = syscall_result \/ syscall_result' = syscall_result \ {i}
      BY <1>1, <1>5
         DEF YieldNow, Syscall, ResumeSys1, ResumeSys2, ReadSyscallResult, Park
    <2> QED
      BY <1>1, <2>1, IsolatedFrame
  <1> QED
    BY <1>2, <1>3, <1>4, <1>5 DEF CancelHandle, CancelSelf, CancelPropagating

\* The end of a closure and of a fiber.
LEMMA IsolatedEnd ==
    ASSUME StateInv, NEW i \in Slots, (\E b : Complete(i, b)) \/ ResumeChildren(i)
    PROVE  Isolated
  <1>1. /\ pc \in [Slots -> Labels] /\ running_fiber = i
    BY DEF StateInv, StackInv, TypeOK, Complete, ResumeChildren, At
  <1>2. ASSUME NEW q, NEW c, Leave(i, q, c), is_cancelled \subseteq c PROVE Isolated
    <2>1. /\ UNCHANGED <<target, handle>>
          /\ \A s \in Slots : s # i => pc'[s] = pc[s]
          /\ is_cancelled \ {i} \subseteq is_cancelled'
          /\ syscall_result' = syscall_result \/ syscall_result' = syscall_result \ {i}
      BY <1>1, <1>2 DEF Leave, Free
    <2> QED
      BY <1>1, <2>1, IsolatedFrame
  <1>3. ASSUME NEW b, Retire(i, b) PROVE Isolated
    BY <1>2, <1>3 DEF Retire
  <1>4. CASE i = Root /\ ReturnFromStart
    <2>1. /\ UNCHANGED <<target, handle, syscall_result>> /\ is_cancelled \subseteq is_cancelled'
          /\ \A s \in Slots : s # i => pc'[s] = pc[s]
      BY <1>1, <1>4 DEF ReturnFromStart
    <2> QED
      BY <1>1, <2>1, IsolatedFrame
  <1>5. CASE /\ Park(i, "Children") /\ UNCHANGED <<target, handle, syscall_result>>
             /\ is_cancelled' = is_cancelled \cup {i}
    BY <1>1, <1>5, IsolatedFrame DEF Park
  <1> QED
    BY <1>3, <1>4, <1>5 DEF Complete, ResumeChildren

\* process_io gives a result to the fiber that waits for it.
LEMMA IsolatedIo ==
    ASSUME StateInv, ProcessIo \/ (\E id \in Slots : Kernel(id)) \/ DropRuntime \/ Start
    PROVE  Isolated
  <1>1. CASE ProcessCompleted
    <2>1. CASE syscall_result' = syscall_result
      BY <1>1, <2>1 DEF ProcessCompleted, Isolated, LeftToItself
    <2>2. CASE syscall_result' # syscall_result
      <3>1. InterfaceTypeOK /\ OnePlace /\ Rings
        BY DEF StateInv, StackInv, TypeOK, Rings
      <3>2. PICK f : f = Head(cq)
        OBVIOUS
      <3>3. f \in Slots /\ syscall_result' = syscall_result \cup {f}
        BY <1>1, <2>2, <3>1, <3>2, ReadRings DEF ProcessCompleted
      <3>4. InSyscall(f)
        BY <1>1, <3>1, <3>2, <3>3, ReadRings DEF ProcessCompleted, Rings, Pending
      <3> QED
        BY <1>1, <3>3, <3>4 DEF ProcessCompleted, Isolated, LeftToItself, InSyscall
    <2> QED
      BY <2>1, <2>2
  <1>2. CASE UNCHANGED fiberVars
    BY <1>2 DEF fiberVars, Isolated, LeftToItself
  <1>3. CASE Start
    <2>1. /\ ~Live(Root) /\ UNCHANGED <<is_cancelled, syscall_result, target, handle>>
          /\ pc' = [pc EXCEPT ![Root] = "User"]
      BY <1>3, SlotsFacts DEF StateInv, StackInv, ModeKnown, Start, Live
    <2>2. pc \in [Slots -> Labels]
      BY DEF StateInv, StackInv, TypeOK
    <2> QED
      BY <2>1, <2>2 DEF Isolated, LeftToItself, Live
  <1> QED
    BY <1>1, <1>2, <1>3 DEF ProcessIo, PopReady, SubmitAndWait, Kernel, DropRuntime

-----------------------------------------------------------------------------
(* The runtime implements FiberTree.                                        *)

Told == (is_cancelled \cap Alive) \ Finished
Up == [s \in Slots |-> IF s \in Alive THEN parent[s] ELSE NoFiber]

LEMMA AliveActive == \A s \in Slots : s \in Alive <=> Active(s)
  BY DEF Alive, Active

\* The children of the tree are those the fibers' entries list.
LEMMA TreeChildren ==
    ASSUME StateInv
    PROVE  /\ \A p \in Slots : Tree!Children(p) = children[p]
           /\ \A r \in Slots : Tree!Below(r) = Subtree(r)
  <1>1. Hierarchy /\ \A s \in Slots : children[s] \subseteq Slots
    BY SlotTypes DEF StateInv, StackInv
  <1>2. ASSUME NEW p \in Slots, NEW c \in Slots PROVE c \in Tree!Children(p) <=> c \in children[p]
    <2>1. c \in Tree!Children(p) <=> Active(c) /\ parent[c] = p
      BY AliveActive DEF Tree!Children, Alive
    <2>2. Active(c) /\ parent[c] = p => c # Root
      BY <1>1, SlotsFacts DEF Hierarchy
    <2> QED
      BY <1>1, <2>1, <2>2 DEF Hierarchy
  <1>3. \A p \in Slots : Tree!Children(p) \subseteq Slots
    BY DEF Tree!Children, Alive
  <1>4. \A p \in Slots : Tree!Children(p) = children[p]
    BY <1>1, <1>2, <1>3
  <1> QED
    BY <1>4 DEF Tree!Below, Subtree

\* Whoever descends from a fiber that has not ended has not ended.
LEMMA SubtreeAlive ==
    ASSUME StateInv, NEW r \in Slots
    PROVE  /\ Active(r) => Subtree(r) \subseteq Alive
           /\ ~Active(r) => Subtree(r) \cap Alive = {}
           /\ Alive \subseteq Subtree(Root)
  <1>1. TypeOK /\ Hierarchy /\ Rooted /\ \A s \in Slots : children[s] \subseteq Slots
    BY SlotTypes DEF StateInv, StackInv
  <1>2. Alive \in SUBSET Slots /\ Closed(Alive)
    BY <1>1, AliveActive DEF Hierarchy, Closed, Alive
  <1>3. ASSUME ~Active(r) PROVE Subtree(r) \subseteq {r}
    <2>1. children[r] = {}
      BY <1>1, <1>3, NoLinksFromEnded
    <2> QED
      BY <1>1, <2>1, SubtreeFacts DEF Closed
  <1>4. Alive \subseteq Subtree(Root)
    <2>1. Subtree(Root) \in SUBSET Slots /\ Root \in Subtree(Root) /\ Closed(Subtree(Root))
      BY <1>1, SubtreeFacts, SlotsFacts
    <2> QED
      BY <1>1, <2>1, AliveActive DEF Rooted, Alive
  <1> QED
    BY <1>1, <1>2, <1>3, <1>4, SubtreeFacts, AliveActive DEF Alive

\* A step that begins and ends no fiber.
LEMMA TreeFrame ==
    ASSUME \A s \in Slots : /\ Active(s)' <=> Active(s)
                            /\ pc'[s] = "Children" <=> pc[s] = "Children"
                            /\ Active(s) => /\ parent'[s] = parent[s]
                                            /\ s \in is_cancelled' <=> s \in is_cancelled
    PROVE  UNCHANGED Tree!treeVars
  <1>1. Alive' = Alive /\ Finished' = Finished
    BY DEF Alive, Finished, Active
  <1>2. \A s \in Slots : Active(s) <=> s \in Alive
    BY AliveActive
  <1>3. Told' = Told
    BY <1>1, <1>2 DEF Told, Alive
  <1>4. Up' = Up
    BY <1>1, <1>2 DEF Up
  <1> QED
    BY <1>1, <1>3, <1>4 DEF Tree!treeVars, Told, Up

\* Giving back a handle, and with it the entry and stack of a fiber that has ended,
\* is invisible in the tree.
LEMMA TreeRelease ==
    ASSUME StateInv, NEW i \in Slots, NEW j \in Slots, running_fiber = i, mode = "run", handle[j] = i,
           pc[i] # "Children", Release(j, [pc EXCEPT ![i] = "User"])
    PROVE  UNCHANGED Tree!treeVars
  <1>1. /\ pc[j] # "Children" /\ Active(i)
        /\ pc \in [Slots -> Labels] /\ parent \in [Slots -> Slots \cup {NoFiber}]
    BY DEF StateInv, StackInv, TypeOK, Handles, Active
  <1>2. CASE pc[j] = "Done"
    <2>1. /\ pc' = [pc EXCEPT ![i] = "User", ![j] = "Vacant"]
          /\ is_cancelled' = is_cancelled \ {j}
          /\ \A s \in Slots : s # j => parent'[s] = parent[s]
      BY <1>1, <1>2 DEF Release, Completed, Free
    <2> QED
      BY <1>1, <1>2, <2>1, TreeFrame DEF Active
  <1>3. CASE pc[j] # "Done"
    <2>1. pc' = [pc EXCEPT ![i] = "User"] /\ UNCHANGED <<is_cancelled, parent>>
      BY <1>1, <1>3 DEF Release, Completed
    <2> QED
      BY <1>1, <2>1, TreeFrame DEF Active
  <1> QED
    BY <1>2, <1>3

\* Calls and resumptions that begin, end and cancel no fiber.
LEMMA TreeStill ==
    ASSUME StateInv, NEW i \in Slots,
           \/ \E j \in Slots : Join(i, j) \/ DropHandle(i, j) \/ ForgetHandle(i, j)
           \/ \E j, k \in Slots : GiveHandle(i, j, k)
           \/ YieldNow(i) \/ Syscall(i)
           \/ ResumeJoin1(i) \/ ResumeJoin2(i) \/ ResumeSys1(i) \/ ResumeSys2(i)
    PROVE  UNCHANGED Tree!treeVars
  <1>1. /\ pc \in [Slots -> Labels] /\ running_fiber = i /\ mode = "run"
        /\ pc[i] \notin {"Children", "Vacant", "Done"}
    BY DEF StateInv, StackInv, TypeOK, Join, DropHandle, ForgetHandle, GiveHandle, YieldNow, Syscall,
           ResumeJoin1, ResumeJoin2, ResumeSys1, ResumeSys2, At
  <1>2. ASSUME NEW l \in Labels \ {"Vacant", "Done", "Children"},
               pc' = [pc EXCEPT ![i] = l], UNCHANGED <<parent, is_cancelled>>
        PROVE  UNCHANGED Tree!treeVars
    BY <1>1, <1>2, TreeFrame DEF Active
  <1>3. ASSUME NEW j \in Slots, Join(i, j) \/ DropHandle(i, j) \/ ForgetHandle(i, j)
        PROVE  UNCHANGED Tree!treeVars
    <2>1. pc[i] = "User" /\ handle[j] = i /\ pc = [pc EXCEPT ![i] = "User"]
      BY <1>1, <1>3 DEF Join, DropHandle, ForgetHandle, At
    <2>2. CASE Release(j, pc)
      BY <1>1, <2>1, <2>2, TreeRelease
    <2>3. CASE Park(i, "Join1") /\ UNCHANGED <<parent, is_cancelled>>
      BY <1>2, <2>3 DEF Park, Labels
    <2>4. CASE UNCHANGED <<pc, parent, is_cancelled>>
      BY <1>2, <2>1, <2>4 DEF Labels
    <2> QED
      BY <1>3, <2>2, <2>3, <2>4 DEF Join, DropHandle, ForgetHandle
  <1>4. CASE ResumeJoin1(i) \/ ResumeJoin2(i)
    <2>1. Joining(i)
      BY <1>4 DEF ResumeJoin1, ResumeJoin2, At, Joining
    <2>2. PICK j \in Slots : target[i] = j /\ handle[j] = i
      BY <2>1 DEF StateInv, Joins
    <2>3. CASE ReturnFromJoin(i)
      BY <1>1, <2>2, <2>3, TreeRelease DEF ReturnFromJoin
    <2>4. CASE Park(i, "Join2") /\ UNCHANGED <<parent, is_cancelled>>
      BY <1>2, <2>4 DEF Park, Labels
    <2> QED
      BY <1>4, <2>3, <2>4 DEF ResumeJoin1, ResumeJoin2
  <1>6. CASE \E j, k \in Slots : GiveHandle(i, j, k)
    <2>1. UNCHANGED <<pc, parent, is_cancelled>>
      BY <1>6 DEF GiveHandle
    <2> QED
      BY <2>1, TreeFrame DEF Active
  <1>5. CASE YieldNow(i) \/ Syscall(i) \/ ResumeSys1(i) \/ ResumeSys2(i)
    <2>1. /\ UNCHANGED <<parent, is_cancelled>>
          /\ \E l \in {"User", "Sys1", "Sys2"} : pc' = [pc EXCEPT ![i] = l]
      BY <1>5 DEF YieldNow, Syscall, ResumeSys1, ResumeSys2, ReadSyscallResult, Park
    <2> QED
      BY <1>2, <2>1 DEF Labels
  <1> QED
    BY <1>3, <1>4, <1>5, <1>6

\* spawn
LEMMA TreeSpawn ==
    ASSUME StateInv, NEW i \in Slots, NEW c \in Slots, NEW moved, Spawn(i, c, moved)
    PROVE  Tree!Spawn(i, c)
  <1>1. /\ pc \in [Slots -> Labels] /\ parent \in [Slots -> Slots \cup {NoFiber}]
        /\ is_cancelled \subseteq LiveSet
    BY DEF StateInv, StackInv, TypeOK, Cancellation
  <1>2. /\ pc[i] = "User" /\ pc[c] = "Vacant" /\ c \notin is_cancelled /\ i # c
        /\ pc' = [pc EXCEPT ![c] = "User"] /\ parent' = [parent EXCEPT ![c] = i]
        /\ is_cancelled' = IF i \in is_cancelled THEN is_cancelled \cup {c} ELSE is_cancelled
    BY <1>1 DEF Spawn, At, LiveSet, Live
  <1>3. /\ i \in Alive \ Finished /\ c \notin Alive
        /\ Alive' = Alive \cup {c} /\ Finished' = Finished
    BY <1>1, <1>2 DEF Alive, Finished
  <1>4. Up' = [Up EXCEPT ![c] = i]
    BY <1>1, <1>2, <1>3 DEF Up
  <1>5. c \notin Finished /\ Told' = IF i \in Told THEN Told \cup {c} ELSE Told
    BY <1>2, <1>3 DEF Told, Finished
  <1> QED
    BY <1>3, <1>4, <1>5 DEF Tree!Spawn, Told, Up

\* Cancellation; that of a fiber that has ended tells nobody.
LEMMA TreeCancel ==
    ASSUME StateInv, NEW i, NEW r \in Slots, CancelTree(r, i)
    PROVE  Tree!Cancel(r) \/ UNCHANGED Tree!treeVars
  <1>1. UNCHANGED <<pc, parent>> /\ is_cancelled' = is_cancelled \cup Subtree(r)
    BY DEF CancelTree
  <1>2. Alive' = Alive /\ Finished' = Finished /\ Up' = Up
    BY <1>1 DEF Alive, Finished, Up
  <1>3. CASE Active(r)
    <2>1. Told' = Told \cup (Tree!Below(r) \ Finished)
      BY <1>1, <1>2, <1>3, SubtreeAlive, TreeChildren DEF Told
    <2>2. r \in Alive
      BY <1>3, AliveActive
    <2> QED
      BY <1>2, <2>1, <2>2 DEF Tree!Cancel, Told, Up
  <1>4. CASE ~Active(r)
    <2>1. Told' = Told
      BY <1>1, <1>2, <1>4, SubtreeAlive DEF Told
    <2> QED
      BY <1>2, <2>1 DEF Tree!treeVars, Told, Up
  <1> QED
    BY <1>3, <1>4

\* The end of a fiber: c are those that are cancelled now.
LEMMA TreeLeave ==
    ASSUME StateInv, NEW i \in Slots, Active(i), children[i] = {}, NEW q, NEW c, Leave(i, q, c),
           \/ c = is_cancelled \cup {i}
           \/ i # Root /\ c = is_cancelled \cup {i} \cup Subtree(Root)
    PROVE  Tree!End(i)
  <1>1. /\ pc \in [Slots -> Labels] /\ parent \in [Slots -> Slots \cup {NoFiber}]
    BY DEF StateInv, StackInv, TypeOK
  <1>2. /\ \/ pc' = [pc EXCEPT ![i] = "Vacant"]
           \/ pc' = [pc EXCEPT ![i] = "Done"]
        /\ parent' = parent \/ parent' = [parent EXCEPT ![i] = NoFiber]
        /\ is_cancelled' = c \/ is_cancelled' = c \ {i}
    BY DEF Leave, Free
  <1>3. Alive' = Alive \ {i} /\ Finished' = Finished \ {i} /\ i \in Alive
    BY <1>1, <1>2, AliveActive DEF Alive, Finished
  <1>4. Up' = [Up EXCEPT ![i] = NoFiber]
    BY <1>1, <1>2, <1>3 DEF Up
  <1>5. CASE c = is_cancelled \cup {i}
    <2>1. Told' = Told \ {i}
      BY <1>2, <1>3, <1>5 DEF Told
    <2> QED
      BY <1>3, <1>4, <2>1, TreeChildren DEF Tree!End, Told, Up
  <1>6. CASE i # Root /\ c = is_cancelled \cup {i} \cup Subtree(Root)
    <2>1. Alive \subseteq c
      BY <1>6, SubtreeAlive
    <2>2. Told' = Alive' \ Finished'
      BY <1>2, <1>3, <2>1 DEF Told
    <2> QED
      BY <1>3, <1>4, <1>6, <2>2, TreeChildren DEF Tree!End, Told, Up
  <1> QED
    BY <1>5, <1>6

\* The end of a closure: its fiber waits for its children, or ends.
LEMMA TreeEnd ==
    ASSUME StateInv, NEW i \in Slots, (\E b : Complete(i, b)) \/ ResumeChildren(i),
           pc[i] = "Children" => children[i] = {}
    PROVE  Tree!Finish(i) \/ Tree!End(i)
  <1>1. /\ pc \in [Slots -> Labels] /\ running_fiber = i /\ mode = "run"
        /\ pc[i] \in {"User", "Children"} /\ Active(i)
    BY DEF StateInv, StackInv, TypeOK, Complete, ResumeChildren, At, Active
  <1>2. ASSUME children[i] = {}, i # Root, NEW b, Retire(i, b) PROVE Tree!End(i)
    BY <1>1, <1>2, TreeLeave DEF Retire
  <1>3. ASSUME children[i] = {}, i = Root, ReturnFromStart PROVE Tree!End(i)
    <2>1. pc' = [pc EXCEPT ![i] = "Done"] /\ is_cancelled' = is_cancelled \cup {i} /\ parent' = parent
      BY <1>3 DEF ReturnFromStart
    <2>2. Alive' = Alive \ {i} /\ Finished' = Finished \ {i} /\ i \in Alive
      BY <1>1, <2>1, AliveActive DEF Alive, Finished
    <2>3. Told' = Told \ {i} /\ Up' = [Up EXCEPT ![i] = NoFiber]
      BY <2>1, <2>2 DEF Told, Up
    <2> QED
      BY <1>3, <2>2, <2>3, TreeChildren DEF Tree!End, Told, Up
  <1>4. ASSUME pc[i] = "User", children[i] # {}, Park(i, "Children"), parent' = parent,
               is_cancelled' = is_cancelled \cup {i}
        PROVE  Tree!Finish(i)
    <2>1. pc' = [pc EXCEPT ![i] = "Children"]
      BY <1>4 DEF Park
    <2>2. Alive' = Alive /\ Finished' = Finished \cup {i} /\ i \in Alive \ Finished
      BY <1>1, <1>4, <2>1 DEF Alive, Finished
    <2>3. Told' = Told \ {i} /\ Up' = Up
      BY <1>4, <2>2 DEF Told, Up
    <2> QED
      BY <1>4, <2>2, <2>3, TreeChildren DEF Tree!Finish, Told, Up
  <1>5. ASSUME NEW b, Complete(i, b) PROVE Tree!Finish(i) \/ Tree!End(i)
    BY <1>2, <1>3, <1>4, <1>5 DEF Complete, At
  <1>6. ASSUME ResumeChildren(i) PROVE Tree!End(i)
    <2>1. children[i] = {}
      BY <1>6 DEF ResumeChildren, At
    <2> QED
      BY <1>2, <1>3, <1>6, <2>1 DEF ResumeChildren
  <1> QED
    BY <1>5, <1>6

\* start
LEMMA TreeStart == ASSUME StateInv, Start PROVE Tree!Begin
  <1>1. /\ pc \in [Slots -> Labels] /\ \A s \in Slots : pc[s] = "Vacant"
        /\ is_cancelled \subseteq LiveSet /\ parent[Root] = NoFiber
    BY DEF StateInv, StackInv, TypeOK, ModeKnown, Start, Cancellation, Hierarchy
  <1>2. pc' = [pc EXCEPT ![Root] = "User"] /\ UNCHANGED <<is_cancelled, parent>>
    BY DEF Start
  <1>3. Alive = {} /\ Alive' = {Root} /\ Finished' = Finished
    BY <1>1, <1>2, SlotsFacts DEF Alive, Finished
  <1>4. is_cancelled = {}
    BY <1>1 DEF LiveSet, Live
  <1>5. Told' = Told
    BY <1>2, <1>4 DEF Told
  <1>6. Up' = Up
    BY <1>1, <1>2, <1>3 DEF Up
  <1> QED
    BY <1>3, <1>5, <1>6 DEF Tree!Begin, Told, Up

-----------------------------------------------------------------------------
(* Both, for every step. *)

\* The calls of the API, whoever makes them.
AnyCall(i) ==
    \/ \E c \in Slots : \E moved \in SUBSET Held(i) : Spawn(i, c, moved)
    \/ \E j \in Slots : Join(i, j) \/ CancelHandle(i, j) \/ DropHandle(i, j) \/ ForgetHandle(i, j)
    \/ \E j, k \in Slots : GiveHandle(i, j, k)
    \/ CancelSelf(i) \/ CancelPropagating(i) \/ YieldNow(i) \/ Syscall(i)
    \/ \E b : Complete(i, b)

LEMMA CallOfTree ==
    ASSUME StateInv, NEW i \in Slots, AnyCall(i)
    PROVE  Isolated /\ [Tree!TreeNext]_(Tree!treeVars)
  <1>1. Isolated
    BY IsolatedCall, IsolatedJoin, IsolatedEnd DEF AnyCall
  <1>2. CASE \E c \in Slots : \E moved : Spawn(i, c, moved)
    BY <1>1, <1>2, TreeSpawn DEF Tree!TreeNext
  <1>3. CASE \E r \in Slots : CancelTree(r, i)
    BY <1>1, <1>3, TreeCancel DEF Tree!TreeNext
  <1>4. CASE \E b : Complete(i, b)
    BY <1>1, <1>4, TreeEnd DEF Tree!TreeNext, Complete, At
  <1> QED
    BY <1>1, <1>2, <1>3, <1>4, TreeStill, SlotsFacts
       DEF AnyCall, CancelHandle, CancelSelf, CancelPropagating

\* A step of the runtime's own.
OwnStep ==
    \/ Start \/ (\E i \in Slots : Resume(i)) \/ (\E i \in Slots : Kernel(i))
    \/ ProcessIo \/ DropRuntime \/ Terminated \/ UNCHANGED vars

LEMMA OwnOfTree ==
    ASSUME StateInv, \A i \in Slots : At(i, "Children") => children[i] = {}, OwnStep
    PROVE  (Isolated \/ UNCHANGED vars) /\ [Tree!TreeNext]_(Tree!treeVars)
  <1>1. ASSUME NEW i \in Slots, Resume(i) PROVE Isolated /\ [Tree!TreeNext]_(Tree!treeVars)
    <2>1. Isolated
      BY <1>1, IsolatedCall, IsolatedJoin, IsolatedEnd DEF Resume
    <2>2. CASE ResumeChildren(i)
      BY <2>1, <2>2, TreeEnd DEF Tree!TreeNext, ResumeChildren, At
    <2> QED
      BY <1>1, <2>1, <2>2, TreeStill DEF Resume
  <1>2. CASE Start
    BY <1>2, TreeStart, IsolatedIo DEF Tree!TreeNext
  <1>3. ASSUME UNCHANGED <<pc, parent, is_cancelled>> PROVE UNCHANGED Tree!treeVars
    BY <1>3, TreeFrame DEF Active
  <1>4. CASE ProcessIo \/ (\E id \in Slots : Kernel(id)) \/ DropRuntime \/ Terminated \/ UNCHANGED vars
    <2>1. UNCHANGED <<pc, parent, is_cancelled>>
      BY <1>4 DEF ProcessIo, ProcessCompleted, PopReady, SubmitAndWait, Kernel, DropRuntime,
                  Terminated, vars, fiberVars
    <2> QED
      BY <1>3, <1>4, <2>1, IsolatedIo DEF Terminated
  <1> QED
    BY <1>1, <1>2, <1>4 DEF OwnStep

\* Every step of the runtime under any closures.
LEMMA StepOfTree ==
    ASSUME RuntimeInv, [Next]_vars
    PROVE  (Isolated \/ UNCHANGED vars) /\ [Tree!TreeNext]_(Tree!treeVars)
  <1>1. /\ StateInv
        /\ \A i \in Slots : At(i, "Children") => children[i] = {}
    BY DEF RuntimeInv, Queue, Justified, At
  <1>2. ASSUME NEW i \in Slots, Call(i) PROVE AnyCall(i)
    <2>1. ASSUME NEW moved \in IF "move" \in Calls THEN SUBSET Held(i) ELSE {{}}
          PROVE  moved \in SUBSET Held(i)
      OBVIOUS
    <2> QED
      BY <1>2, <2>1 DEF Call, AnyCall
  <1> QED
    BY <1>1, <1>2, CallOfTree, OwnOfTree DEF Next, OwnStep

\* A fiber that is not running stays where it is: only its own code lets it go on,
\* drops its handles and takes its results; its stack and its entry are given away
\* only after its end; and no step takes back a cancellation.
THEOREM OthersAreLeftAlone == ASSUME ~OwnedParents PROVE Spec => FibersAreIsolated
  <1>1. RuntimeInv /\ [Next]_vars
            => [\A s \in Slots : Live(s) /\ s # running_fiber => LeftToItself(s)]_vars
    BY StepOfTree DEF Isolated
  <1> QED
    BY <1>1, RuntimeInvAlways, PTL DEF Spec, FibersAreIsolated

\* The empty tree.
LEMMA TreeEmpty == ASSUME Init PROVE Tree!TreeInit
  <1>1. Alive = {} /\ Finished = {} /\ is_cancelled = {}
    BY DEF Init, Alive, Finished
  <1> QED
    BY <1>1 DEF Tree!TreeInit

\* Structured concurrency: whatever closures do with handles, joins, cancellation and
\* panics, fibers form a tree of which only leaves end, and cancellation reaches the
\* subtree as it is and as it grows.
THEOREM FibersFormTree == ASSUME ~OwnedParents PROVE Spec => IsFiberTree
  <1>1. RuntimeInv /\ [Next]_vars => [Tree!TreeNext]_(Tree!treeVars)
    BY StepOfTree
  <1> QED
    BY <1>1, TreeEmpty, RuntimeInvAlways, PTL DEF Spec, IsFiberTree, Tree!TreeSpec

=============================================================================
