--------------------------- MODULE RuntimeProofs ---------------------------
(***************************************************************************)
(* Theorems about the fiber runtime, for every number of fibers, every     *)
(* size of the submission queue and every set of calls.                    *)
(***************************************************************************)
EXTENDS Runtime, FiniteSetTheorems, SequenceTheorems, TLAPS

-----------------------------------------------------------------------------
(* Constants and helper operators. *)

\* The root's index is one of the slots.
LEMMA SlotsFacts ==
    /\ Slots \subseteq Int
    /\ Root \in Slots
    /\ NoFiber \notin Slots
    /\ ASYNC_CANCELLATION_USER_DATA \notin Slots
    /\ Unused \notin Slots /\ Dropped \notin Slots /\ WaitingNone \notin Slots
  BY MaxFibersAssumption
  DEF Slots, Root, NoFiber, ASYNC_CANCELLATION_USER_DATA, Unused, Dropped, WaitingNone

\* Sets of slots are finite.
LEMMA SlotsFinite == \A S \in SUBSET Slots : IsFiniteSet(S)
  <1>1. IsFiniteSet(Slots)
    BY FS_Interval, MaxFibersAssumption DEF Slots
  <1> QED
    BY <1>1, FS_Subset

\* Waker::schedule_with keeps a queue of fibers a queue of fibers.
LEMMA ScheduleType ==
    ASSUME NEW q \in Seq(Slots), NEW i \in Slots
    PROVE  Schedule(q, i) \in Seq(Slots)
  BY DEF Schedule

\* What cancel appends to the ready queue is a sequence of fibers.
LEMMA VisitOrderType ==
    ASSUME NEW W \in SUBSET Slots, NEW w \in InVisitOrder(W)
    PROVE  w \in Seq(Slots)
  <1>1. Cardinality(W) \in Nat
    BY SlotsFinite, FS_CardinalityType
  <1>2. w \in [1 .. Cardinality(W) -> W]
    BY DEF InVisitOrder, SetToSeqs
  <1> QED
    BY <1>1, <1>2

\* cancel visits slab entries only.
LEMMA SubtreeType == \A r : Subtree(r) \in SUBSET Slots
  BY DEF Subtree

-----------------------------------------------------------------------------
(* The system call interface keeps its types. *)

\* Entering the kernel with a well-typed submission queue.
LEMMA ConsumeType ==
    ASSUME InterfaceTypeOK, Consume
    PROVE  /\ inflight' \subseteq Slots
           /\ cancelling' \subseteq inflight'
           /\ cq' \in Seq(Slots \cup {ASYNC_CANCELLATION_USER_DATA})
  <1> DEFINE n == Cardinality(Cancels)
             A == Slots \cup {ASYNC_CANCELLATION_USER_DATA}
  <1>1. n \in Nat
    <2>1. IsFiniteSet(1 .. Len(sq))
      BY FS_Interval DEF InterfaceTypeOK
    <2>2. Cancels \subseteq 1 .. Len(sq)
      BY DEF Cancels, InterfaceTypeOK
    <2> QED
      BY <2>1, <2>2, FS_Subset, FS_CardinalityType
  <1>2. [k \in 1 .. n |-> ASYNC_CANCELLATION_USER_DATA] \in Seq(A)
    BY <1>1
  <1>3. cq' \in Seq(A)
    BY <1>2 DEF Consume, InterfaceTypeOK
  <1>4. Found \subseteq inflight \cup Issued
    BY DEF Found, Issued, InterfaceTypeOK
  <1> QED
    BY <1>3, <1>4 DEF Consume, InterfaceTypeOK, Issued

\* Interface::issue, whether it has to submit first or not.
LEMMA IssueType ==
    ASSUME InterfaceTypeOK, NEW e \in Entries, Issue(e)
    PROVE  InterfaceTypeOK'
  <1>1. CASE /\ Len(sq) < SqSize
             /\ sq' = Append(sq, e)
             /\ UNCHANGED <<inflight, cancelling, cq>>
    BY <1>1, SqSizeAssumption DEF InterfaceTypeOK
  <1>2. CASE /\ Len(sq) = SqSize
             /\ Consume
             /\ sq' = <<e>>
    <2>1. sq' \in Seq(Entries) /\ Len(sq') = 1
      BY <1>2
    <2> QED
      BY <1>2, <2>1, ConsumeType, SqSizeAssumption DEF InterfaceTypeOK
  <1> QED
    BY <1>1, <1>2 DEF Issue

\* The entries the runtime issues.
LEMMA EntryType == \A id \in Slots : Op(id) \in Entries /\ AsyncCancel(id) \in Entries
  BY DEF Op, AsyncCancel, Entries

\* The steps of process_io and of the kernel.
LEMMA IoType ==
    ASSUME InterfaceTypeOK,
           WaitForCompleted \/ ReadCompletion \/ \E id \in Slots : KernelComplete(id)
    PROVE  InterfaceTypeOK'
  <1>1. CASE WaitForCompleted
    <2>1. sq' \in Seq(Entries) /\ Len(sq') = 0
      BY <1>1 DEF WaitForCompleted
    <2> QED
      BY <1>1, <2>1, ConsumeType, SqSizeAssumption DEF WaitForCompleted, InterfaceTypeOK
  <1>2. CASE ReadCompletion
    BY <1>2 DEF ReadCompletion, InterfaceTypeOK
  <1>3. CASE \E id \in Slots : KernelComplete(id)
    BY <1>3 DEF KernelComplete, InterfaceTypeOK
  <1> QED
    BY <1>1, <1>2, <1>3

-----------------------------------------------------------------------------
(* The inductive invariant.  Types alone are not inductive: a trampoline   *)
(* schedules the parent it finds in its slab entry, join drops the handle  *)
(* it finds in its frame, and dropping the runtime subtracts the pooled    *)
(* stacks from the mapped ones.                                            *)

LiveSet == {s \in Slots : Live(s)}

LinksKnown ==
    /\ \A s \in Slots \ {Root} : Live(s) => parent[s] \in Slots
    /\ \A s \in Slots : pc[s] \in {"Join1", "Join2"} => target[s] \in Slots

ModeKnown ==
    /\ mode = "idle" => \A s \in Slots : pc[s] = "Vacant"
    /\ mode = "exited" => pc[Root] = "Done"

StackInv == TypeOK /\ StacksConserved /\ LinksKnown /\ ModeKnown

\* Counting the slab entries.
LEMMA LiveSetFinite == IsFiniteSet(LiveSet) /\ Cardinality(LiveSet) \in Nat
  BY SlotsFinite, FS_CardinalityType DEF LiveSet

\* A step that neither takes nor pools a stack, nor adds or removes an entry.
LEMMA SameStacks ==
    ASSUME StackInv, mode = "run", mode' = "run", UNCHANGED stackVars,
           \A s \in Slots : pc'[s] = "Vacant" <=> pc[s] = "Vacant"
    PROVE  StacksConserved'
  <1>1. LiveSet' = LiveSet
    BY DEF LiveSet, Live
  <1> QED
    BY <1>1 DEF StackInv, StacksConserved, LiveSet, stackVars

\* Removing the slab entry of j and pooling its stack.
LEMMA FreeStacks ==
    ASSUME StackInv, mode = "run", mode' = "run",
           NEW j \in Slots, Live(j), NEW p, NEW kids, NEW c,
           p \in [Slots -> Labels],
           \A s \in Slots : p[s] = "Vacant" <=> pc[s] = "Vacant",
           Free(j, p, kids, c)
    PROVE  StacksConserved'
  <1>1. LiveSet' = LiveSet \ {j}
    BY DEF LiveSet, Live, Free
  <1>2. j \in LiveSet
    BY DEF LiveSet
  <1>3. Cardinality(LiveSet') = Cardinality(LiveSet) - 1
    BY <1>1, <1>2, LiveSetFinite, FS_RemoveElement
  <1>5. stack_pool \in Nat /\ mapped \in Nat
    BY DEF StackInv, TypeOK
  <1>4. mapped = stack_pool + Cardinality(LiveSet)
    BY <1>5 DEF StackInv, StacksConserved, LiveSet
  <1>6. mapped' = stack_pool' + Cardinality(LiveSet')
    BY <1>3, <1>4, <1>5, LiveSetFinite DEF Free
  <1> QED
    BY <1>5, <1>6 DEF StacksConserved, LiveSet, Free

\* Adding a slab entry for c with a stack from create_fiber.
LEMMA TakeStacks ==
    ASSUME StackInv, mode \in {"idle", "run"}, mode' = "run",
           NEW c \in Slots, pc[c] = "Vacant", TakeStack,
           pc' = [pc EXCEPT ![c] = "User"]
    PROVE  StacksConserved' /\ stack_pool' \in Nat /\ mapped' \in Nat
  <1>1. LiveSet' = LiveSet \cup {c} /\ c \notin LiveSet
    BY DEF LiveSet, Live, StackInv, TypeOK
  <1>2. Cardinality(LiveSet') = Cardinality(LiveSet) + 1
    BY <1>1, LiveSetFinite, FS_AddElement
  <1>3. mapped = stack_pool + Cardinality(LiveSet)
    BY DEF StackInv, StacksConserved, LiveSet, TypeOK
  <1>4. stack_pool \in Nat /\ mapped \in Nat
    BY DEF StackInv, TypeOK
  <1>5. /\ mapped' = stack_pool' + Cardinality(LiveSet')
        /\ stack_pool' \in Nat /\ mapped' \in Nat
    BY <1>2, <1>3, <1>4, LiveSetFinite DEF TakeStack
  <1> QED
    BY <1>4, <1>5 DEF StacksConserved, LiveSet

\* JoinHandle::drop keeps the invariant, when nothing else happens to the
\* entries: p differs from pc at most in the label of a fiber that runs.
LEMMA ReleaseStep ==
    ASSUME StackInv, mode = "run", mode' = "run",
           NEW j \in Slots, NEW p, p \in [Slots -> Labels],
           \A s \in Slots : p[s] = "Vacant" <=> pc[s] = "Vacant",
           \A s \in Slots : p[s] = pc[s] \/ p[s] = "User",
           Release(j, p), UNCHANGED interfaceVars,
           \A s \in Slots : target'[s] = target[s] \/ p[s] = "User",
           target' \in [Slots -> Slots \cup {NoFiber}],
           ready_fibers' \in Seq(Slots), running_fiber' \in Slots \cup {NoFiber}
    PROVE  StackInv'
  <1>1. TypeOK'
    <2>1. InterfaceTypeOK'
      BY DEF StackInv, TypeOK, InterfaceTypeOK, interfaceVars
    <2>2. "Vacant" \in Labels
      BY DEF Labels
    <2>3. CASE Completed(j)
      <3>1. Free(j, p, children, is_cancelled)
        BY <2>3 DEF Release
      <3>2. TypeOK
        BY DEF StackInv
      <3>3. pc' \in [Slots -> Labels]
        BY <2>2, <3>1 DEF Free
      <3>4. /\ children' \in [Slots -> SUBSET Slots]
            /\ parent' \in [Slots -> Slots \cup {NoFiber}]
            /\ join_handle' \in [Slots -> Slots \cup {Unused, Dropped, WaitingNone}]
        BY <3>1, <3>2 DEF Free, TypeOK
      <3>5. handle' \in [Slots -> Slots \cup {NoFiber}]
        BY <3>2 DEF Release, TypeOK
      <3> QED
        BY <2>1, <3>1, <3>2, <3>3, <3>4, <3>5 DEF Free, TypeOK
    <2>4. CASE ~Completed(j)
      BY <2>1, <2>4 DEF StackInv, TypeOK, Release, stackVars
    <2> QED
      BY <2>3, <2>4
  <1>2. StacksConserved'
    <2>1. CASE Completed(j)
      <3>1. Live(j)
        BY <2>1 DEF Live, Completed
      <3>2. Free(j, p, children, is_cancelled)
        BY <2>1 DEF Release
      <3> QED
        BY <3>1, <3>2, FreeStacks
    <2>2. CASE ~Completed(j)
      BY <2>2, SameStacks DEF Release
    <2> QED
      BY <2>1, <2>2
  <1>3. LinksKnown'
    BY DEF StackInv, TypeOK, LinksKnown, Live, Release, Free, stackVars
  <1>4. ModeKnown'
    BY DEF ModeKnown
  <1> QED
    BY <1>1, <1>2, <1>3, <1>4 DEF StackInv

-----------------------------------------------------------------------------
(* One lemma per action (or per group of similar actions). *)

\* start, which takes the first stack.
LEMMA StartStep == StackInv /\ Start => StackInv'
  <1> SUFFICES ASSUME StackInv, Start PROVE StackInv'
    OBVIOUS
  <1>1. pc[Root] = "Vacant" /\ Root \in Slots
    BY SlotsFacts DEF StackInv, ModeKnown, Start
  <1>2. StacksConserved' /\ stack_pool' \in Nat /\ mapped' \in Nat
    BY <1>1, TakeStacks DEF Start
  <1>3. TypeOK'
    <2>1. InterfaceTypeOK'
      BY DEF StackInv, TypeOK, InterfaceTypeOK, interfaceVars, Start
    <2>2. "User" \in Labels
      BY DEF Labels
    <2> QED
      BY <1>1, <1>2, <2>1, <2>2 DEF StackInv, TypeOK, Start
  <1>4. LinksKnown' /\ ModeKnown'
    BY <1>1 DEF StackInv, TypeOK, LinksKnown, ModeKnown, Live, Start
  <1> QED
    BY <1>2, <1>3, <1>4 DEF StackInv

\* The root's trampoline returns to start, and the runtime is dropped.
LEMMA ExitStep ==
    /\ StackInv /\ (At(Root, "User") \/ At(Root, "Children")) /\ ReturnFromStart => StackInv'
    /\ StackInv /\ DropRuntime => StackInv'
  <1>1. ASSUME StackInv, At(Root, "User") \/ At(Root, "Children"), ReturnFromStart
        PROVE  StackInv'
    <2>1. Root \in Slots /\ "Done" \in Labels
      BY SlotsFacts DEF Labels
    <2>2. InterfaceTypeOK'
      BY <1>1 DEF StackInv, TypeOK, InterfaceTypeOK, interfaceVars, ReturnFromStart
    <2>3. TypeOK'
      BY <1>1, <2>1, <2>2 DEF StackInv, TypeOK, ReturnFromStart, schedVars
    <2>4. LiveSet' = LiveSet
      BY <1>1, <2>1 DEF StackInv, TypeOK, LiveSet, Live, At, ReturnFromStart
    <2>5. mode = "run" /\ stack_pool \in Nat /\ mapped \in Nat
      BY <1>1 DEF StackInv, TypeOK, At
    <2>6. mapped = stack_pool + Cardinality(LiveSet)
      BY <1>1, <2>5 DEF StackInv, StacksConserved, LiveSet
    <2>7. mapped' + 1 = stack_pool' + Cardinality(LiveSet')
      BY <1>1, <2>4, <2>5, <2>6, LiveSetFinite DEF ReturnFromStart
    <2>8. StacksConserved'
      BY <1>1, <2>7 DEF StacksConserved, LiveSet, ReturnFromStart
    <2>9. LinksKnown' /\ ModeKnown'
      BY <1>1, <2>1 DEF StackInv, TypeOK, LinksKnown, ModeKnown, Live, At, ReturnFromStart
    <2> QED
      BY <2>3, <2>8, <2>9 DEF StackInv
  <1>2. ASSUME StackInv, DropRuntime
        PROVE  StackInv'
    <2>1. mapped + 1 = stack_pool + Cardinality(LiveSet)
      BY <1>2 DEF StackInv, StacksConserved, LiveSet, DropRuntime
    <2>2. Cardinality(LiveSet) # 0
      <3>1. Root \in LiveSet
        BY <1>2, SlotsFacts DEF StackInv, ModeKnown, LiveSet, Live, DropRuntime
      <3> QED
        BY <3>1, LiveSetFinite, FS_EmptySet
    <2>3. stack_pool \in Nat /\ mapped \in Nat
      BY <1>2 DEF StackInv, TypeOK
    <2>4. mapped' \in Nat /\ stack_pool' \in Nat
      BY <1>2, <2>1, <2>2, <2>3, LiveSetFinite DEF DropRuntime
    <2>5. TypeOK'
      BY <1>2, <2>4
      DEF StackInv, TypeOK, InterfaceTypeOK, interfaceVars, fiberVars, schedVars, DropRuntime
    <2>6. StacksConserved' /\ LinksKnown' /\ ModeKnown'
      BY <1>2
      DEF StackInv, StacksConserved, LinksKnown, ModeKnown, Live, fiberVars, DropRuntime
    <2> QED
      BY <2>5, <2>6 DEF StackInv
  <1> QED
    BY <1>1, <1>2

\* spawn, which takes a stack for the child.
LEMMA SpawnStep ==
    ASSUME StackInv, NEW i \in Slots, NEW c \in Slots, NEW moved, Spawn(i, c, moved)
    PROVE  StackInv'
  <1>1. mode = "run" /\ mode' = "run" /\ pc[c] = "Vacant" /\ c # i
    BY DEF Spawn, At
  <1>2. StacksConserved' /\ stack_pool' \in Nat /\ mapped' \in Nat
    BY <1>1, TakeStacks DEF Spawn
  <1>3. TypeOK'
    <2>1. InterfaceTypeOK'
      BY DEF StackInv, TypeOK, InterfaceTypeOK, interfaceVars, Spawn
    <2>2. "User" \in Labels
      BY DEF Labels
    <2>3. handle' \in [Slots -> Slots \cup {NoFiber}]
      BY DEF StackInv, TypeOK, Spawn
    <2>4. ready_fibers' \in Seq(Slots)
      BY DEF StackInv, TypeOK, Spawn
    <2> QED
      BY <1>2, <2>1, <2>2, <2>3, <2>4 DEF StackInv, TypeOK, Spawn
  <1>4. LinksKnown' /\ ModeKnown'
    BY <1>1 DEF StackInv, TypeOK, LinksKnown, ModeKnown, Live, Spawn
  <1> QED
    BY <1>2, <1>3, <1>4 DEF StackInv

\* A fiber parks at a label of its own code, and no slab entry comes or goes.
LEMMA ParkStep ==
    ASSUME StackInv, NEW i \in Slots, mode = "run", mode' = "run",
           NEW l \in Labels \ {"Vacant"}, pc[i] # "Vacant", pc' = [pc EXCEPT ![i] = l],
           UNCHANGED <<parent, children, is_cancelled, handle, stackVars>>,
           join_handle' \in [Slots -> Slots \cup {Unused, Dropped, WaitingNone}],
           target' \in [Slots -> Slots \cup {NoFiber}],
           \A s \in Slots : target'[s] = target[s] \/ target'[s] \in Slots,
           l \in {"Join1", "Join2"} => target'[i] \in Slots,
           syscall_result' \subseteq Slots, result_is_error' \subseteq Slots,
           ready_fibers' \in Seq(Slots), running_fiber' \in Slots \cup {NoFiber},
           InterfaceTypeOK'
    PROVE  StackInv'
  <1>1. TypeOK'
    BY DEF StackInv, TypeOK, stackVars
  <1>2. StacksConserved'
    BY SameStacks DEF StackInv, TypeOK
  <1>3. LinksKnown' /\ ModeKnown'
    BY DEF StackInv, TypeOK, LinksKnown, ModeKnown, Live
  <1> QED
    BY <1>1, <1>2, <1>3 DEF StackInv

\* join and its continuations, and dropping or forgetting a handle.
LEMMA JoinStep ==
    ASSUME StackInv, NEW i \in Slots, NEW j \in Slots,
           \/ Join(i, j) \/ ResumeJoin1(i) \/ ResumeJoin2(i)
           \/ DropHandle(i, j) \/ ForgetHandle(i, j)
    PROVE  StackInv'
  <1> DEFINE user == [pc EXCEPT ![i] = "User"]
  <1>1. TypeOK /\ InterfaceTypeOK /\ {"User", "Join1", "Join2"} \subseteq Labels \ {"Vacant"}
    BY DEF StackInv, TypeOK, Labels
  <1>2. ASSUME mode = "run", mode' = "run", pc[i] \in {"Join1", "Join2"}, ReturnFromJoin(i),
               UNCHANGED <<interfaceVars, ready_fibers>>
        PROVE  StackInv'
    <2>1. target[i] \in Slots
      BY <1>2 DEF StackInv, LinksKnown
    <2>2. /\ user \in [Slots -> Labels]
          /\ \A s \in Slots : user[s] = "Vacant" <=> pc[s] = "Vacant"
          /\ \A s \in Slots : user[s] = pc[s] \/ user[s] = "User"
          /\ user[i] = "User"
      BY <1>1, <1>2 DEF TypeOK
    <2>3. /\ target' \in [Slots -> Slots \cup {NoFiber}]
          /\ \A s \in Slots : target'[s] = target[s] \/ user[s] = "User"
      BY <1>1, <1>2, <2>2 DEF TypeOK, ReturnFromJoin
    <2>4. Release(target[i], user)
      BY <1>2 DEF ReturnFromJoin
    <2>5. ready_fibers' \in Seq(Slots) /\ running_fiber' \in Slots \cup {NoFiber}
      BY <1>1, <1>2 DEF TypeOK, ReturnFromJoin
    <2> HIDE DEF user
    <2> QED
      BY <1>2, <2>1, <2>2, <2>3, <2>4, <2>5, ReleaseStep
  <1>3. ASSUME mode = "run", mode' = "run", Release(j, pc), UNCHANGED <<interfaceVars, target>>,
               UNCHANGED <<ready_fibers, running_fiber>>
        PROVE  StackInv'
    BY <1>1, <1>3, ReleaseStep DEF TypeOK
  <1>4. CASE Join(i, j)
    <2>1. CASE Release(j, pc) /\ UNCHANGED <<target, running_fiber>>
      BY <1>3, <1>4, <2>1 DEF Join, At
    <2>2. CASE /\ join_handle' = [join_handle EXCEPT ![j] = i]
               /\ target' = [target EXCEPT ![i] = j]
               /\ Park(i, "Join1")
               /\ UNCHANGED <<parent, children, is_cancelled, syscall_result,
                              result_is_error, handle, stackVars>>
      BY <1>1, <1>4, <2>2, ParkStep
      DEF Join, At, Park, TypeOK, InterfaceTypeOK, interfaceVars
    <2> QED
      BY <1>4, <2>1, <2>2 DEF Join
  <1>5. CASE ResumeJoin1(i)
    <2>1. CASE ReturnFromJoin(i)
      BY <1>2, <1>5, <2>1 DEF ResumeJoin1, At
    <2>2. CASE /\ Park(i, "Join2")
               /\ UNCHANGED <<parent, children, join_handle, is_cancelled, syscall_result,
                              result_is_error, target, handle, stackVars>>
      <3>1. target[i] \in Slots
        BY <1>5 DEF StackInv, LinksKnown, ResumeJoin1, At
      <3> QED
        BY <1>1, <1>5, <2>2, <3>1, ParkStep
        DEF ResumeJoin1, At, Park, TypeOK, InterfaceTypeOK, interfaceVars
    <2> QED
      BY <1>5, <2>1, <2>2 DEF ResumeJoin1
  <1>6. CASE ResumeJoin2(i)
    BY <1>2, <1>6 DEF ResumeJoin2, At
  <1>7. CASE DropHandle(i, j)
    BY <1>3, <1>7 DEF DropHandle, At, schedVars
  <1>8. CASE ForgetHandle(i, j)
    <2>1. TypeOK'
      BY <1>1, <1>8
      DEF ForgetHandle, TypeOK, InterfaceTypeOK, interfaceVars, schedVars, stackVars
    <2>2. StacksConserved' /\ LinksKnown' /\ ModeKnown'
      BY <1>8
      DEF ForgetHandle, StackInv, StacksConserved, LinksKnown, ModeKnown, Live, stackVars
    <2> QED
      BY <2>1, <2>2 DEF StackInv
  <1> QED
    BY <1>4, <1>5, <1>6, <1>7, <1>8

\* Handing a handle to another fiber.
LEMMA GiveStep ==
    ASSUME StackInv, NEW i, NEW j, NEW k \in Slots, GiveHandle(i, j, k)
    PROVE  StackInv'
  <1>1. TypeOK'
    BY DEF GiveHandle, StackInv, TypeOK, InterfaceTypeOK, interfaceVars, schedVars, stackVars
  <1>2. StacksConserved' /\ LinksKnown' /\ ModeKnown'
    BY DEF GiveHandle, StackInv, StacksConserved, LinksKnown, ModeKnown, Live, stackVars
  <1> QED
    BY <1>1, <1>2 DEF StackInv

\* cancel in its three forms.
LEMMA CancelStep ==
    ASSUME StackInv, NEW r, NEW i, CancelTree(r, i)
    PROVE  StackInv'
  <1>1. Woken(r, i) \in SUBSET Slots
    BY SubtreeType DEF Woken
  <1>2. ready_fibers' \in Seq(Slots)
    <2>1. PICK w \in InVisitOrder(Woken(r, i)) : ready_fibers' = ready_fibers \o w
      BY DEF CancelTree
    <2>2. w \in Seq(Slots)
      BY <1>1, VisitOrderType
    <2> QED
      BY <2>1, <2>2 DEF StackInv, TypeOK
  <1>3. TypeOK'
    BY <1>2, SubtreeType
    DEF CancelTree, StackInv, TypeOK, InterfaceTypeOK, interfaceVars, stackVars
  <1>4. StacksConserved' /\ LinksKnown' /\ ModeKnown'
    BY DEF CancelTree, StackInv, StacksConserved, LinksKnown, ModeKnown, Live, stackVars
  <1> QED
    BY <1>3, <1>4 DEF StackInv

\* yield_now, syscall and its continuations.
LEMMA SyscallStep ==
    ASSUME StackInv, NEW i \in Slots,
           YieldNow(i) \/ Syscall(i) \/ ResumeSys1(i) \/ ResumeSys2(i)
    PROVE  StackInv'
  <1>1. TypeOK /\ InterfaceTypeOK /\ {"User", "Sys1", "Sys2"} \subseteq Labels \ {"Vacant"}
    BY DEF StackInv, TypeOK, Labels
  <1>2. CASE YieldNow(i)
    <2>1. ready_fibers' \in Seq(Slots)
      BY <1>1, <1>2, ScheduleType DEF YieldNow, TypeOK
    <2> QED
      BY <1>1, <1>2, <2>1, ParkStep
      DEF YieldNow, At, Park, TypeOK, InterfaceTypeOK, interfaceVars
  <1>3. CASE Syscall(i)
    <2>1. InterfaceTypeOK'
      BY <1>1, <1>3, IssueType, EntryType DEF Syscall
    <2> QED
      BY <1>1, <1>3, <2>1, ParkStep DEF Syscall, At, Park, TypeOK
  <1>4. CASE ResumeSys1(i) \/ ResumeSys2(i)
    <2>1. CASE ReadSyscallResult(i)
      <3>1. InterfaceTypeOK'
        BY <1>1, <2>1 DEF ReadSyscallResult, InterfaceTypeOK, interfaceVars
      <3> QED
        BY <1>1, <1>4, <2>1, <3>1, ParkStep
        DEF ResumeSys1, ResumeSys2, ReadSyscallResult, At, TypeOK
    <2>2. CASE ResumeSys1(i) /\ Issue(AsyncCancel(i)) /\ Park(i, "Sys2") /\ UNCHANGED syscall_result
      <3>1. InterfaceTypeOK'
        BY <1>1, <2>2, IssueType, EntryType
      <3> QED
        BY <1>1, <2>2, <3>1, ParkStep DEF ResumeSys1, At, Park, TypeOK
    <2> QED
      BY <1>4, <2>1, <2>2 DEF ResumeSys1, ResumeSys2
  <1> QED
    BY <1>2, <1>3, <1>4

\* The last part of spawn_trampoline, which may free the fiber's own entry.
LEMMA LeaveStep ==
    ASSUME StackInv, NEW i \in Slots \ {Root}, mode = "run", pc[i] \in {"User", "Children"},
           NEW q \in Seq(Slots), NEW c \in SUBSET Slots, Leave(i, q, c)
    PROVE  StackInv'
  <1> DEFINE p == parent[i]
             kids == [children EXCEPT ![p] = @ \ {i}]
  <1>1. TypeOK /\ InterfaceTypeOK /\ {"Vacant", "Done"} \subseteq Labels /\ Live(i)
    BY DEF StackInv, TypeOK, Labels, Live
  <1>2. p \in Slots
    BY <1>1 DEF StackInv, LinksKnown
  <1>3. kids \in [Slots -> SUBSET Slots]
    BY <1>1, <1>2 DEF TypeOK
  <1>4. /\ ready_fibers' = IF LastChild(p, kids) THEN Schedule(q, p) ELSE q
        /\ running_fiber' = NoFiber
        /\ UNCHANGED <<interfaceVars, mode, target, handle>>
        /\ \/ /\ join_handle[i] = Dropped
              /\ Free(i, pc, kids, c)
           \/ /\ join_handle[i] # Dropped
              /\ pc' = [pc EXCEPT ![i] = "Done"]
              /\ children' = kids
              /\ is_cancelled' = c
              /\ join_handle' = [join_handle EXCEPT ![i] = IF @ \in Slots THEN WaitingNone ELSE @]
              /\ result_is_error' = result_is_error \ {i}
              /\ UNCHANGED <<parent, syscall_result, stackVars>>
    BY DEF Leave
  <1> HIDE DEF p, kids
  <1>5. ready_fibers' \in Seq(Slots) /\ running_fiber' \in Slots \cup {NoFiber}
    BY <1>2, <1>4, ScheduleType
  <1>6. InterfaceTypeOK' /\ mode' = "run"
    BY <1>1, <1>4 DEF InterfaceTypeOK, interfaceVars
  <1>7. CASE Free(i, pc, kids, c)
    <2>1. pc' \in [Slots -> Labels]
      BY <1>1, <1>7 DEF Free, TypeOK
    <2>2. /\ children' \in [Slots -> SUBSET Slots]
          /\ parent' \in [Slots -> Slots \cup {NoFiber}]
          /\ join_handle' \in [Slots -> Slots \cup {Unused, Dropped, WaitingNone}]
      BY <1>1, <1>3, <1>7 DEF Free, TypeOK
    <2>3. TypeOK'
      BY <1>1, <1>4, <1>5, <1>6, <1>7, <2>1, <2>2 DEF Free, TypeOK
    <2>4. StacksConserved'
      BY <1>1, <1>6, <1>7, FreeStacks DEF TypeOK
    <2>5. LinksKnown' /\ ModeKnown'
      BY <1>1, <1>4, <1>6, <1>7 DEF StackInv, TypeOK, LinksKnown, ModeKnown, Live, Free
    <2> QED
      BY <2>3, <2>4, <2>5 DEF StackInv
  <1>8. CASE /\ pc' = [pc EXCEPT ![i] = "Done"]
             /\ children' = kids
             /\ is_cancelled' = c
             /\ join_handle' = [join_handle EXCEPT ![i] = IF @ \in Slots THEN WaitingNone ELSE @]
             /\ result_is_error' = result_is_error \ {i}
             /\ UNCHANGED <<parent, syscall_result, stackVars>>
    <2>1. /\ pc' \in [Slots -> Labels]
          /\ join_handle' \in [Slots -> Slots \cup {Unused, Dropped, WaitingNone}]
      BY <1>1, <1>8 DEF TypeOK
    <2>2. TypeOK'
      BY <1>1, <1>3, <1>4, <1>5, <1>6, <1>8, <2>1 DEF TypeOK, stackVars
    <2>3. StacksConserved'
      BY <1>1, <1>6, <1>8, SameStacks DEF Live, TypeOK
    <2>4. LinksKnown' /\ ModeKnown'
      BY <1>1, <1>4, <1>6, <1>8 DEF StackInv, TypeOK, LinksKnown, ModeKnown, Live
    <2> QED
      BY <2>2, <2>3, <2>4 DEF StackInv
  <1> QED
    BY <1>4, <1>7, <1>8

\* Notifying the joining fiber, or the root of a panic nobody waits for.
LEMMA RetireStep ==
    ASSUME StackInv, NEW i \in Slots \ {Root}, mode = "run", pc[i] \in {"User", "Children"},
           NEW panicked, Retire(i, panicked)
    PROVE  StackInv'
  <1> DEFINE c == is_cancelled \cup {i}
  <1>1. c \in SUBSET Slots /\ c \cup Subtree(Root) \in SUBSET Slots /\ ready_fibers \in Seq(Slots)
    BY SubtreeType DEF StackInv, TypeOK
  <1>2. CASE join_handle[i] \in Slots /\ Leave(i, Schedule(ready_fibers, join_handle[i]), c)
    <2>1. Schedule(ready_fibers, join_handle[i]) \in Seq(Slots)
      BY <1>1, <1>2, ScheduleType
    <2> HIDE DEF c
    <2> QED
      BY <1>1, <1>2, <2>1, LeaveStep
  <1>3. CASE \E w \in InVisitOrder(Woken(Root, i)) :
                 Leave(i, ready_fibers \o w, c \cup Subtree(Root))
    <2>1. PICK w \in InVisitOrder(Woken(Root, i)) :
              Leave(i, ready_fibers \o w, c \cup Subtree(Root))
      BY <1>3
    <2>2. Woken(Root, i) \in SUBSET Slots
      BY SubtreeType DEF Woken
    <2>3. ready_fibers \o w \in Seq(Slots)
      BY <1>1, <2>2, VisitOrderType
    <2> HIDE DEF c
    <2> QED
      BY <1>1, <2>1, <2>3, LeaveStep
  <1>4. CASE Leave(i, ready_fibers, c)
    <2> HIDE DEF c
    <2> QED
      BY <1>1, <1>4, LeaveStep
  <1> QED
    BY <1>2, <1>3, <1>4 DEF Retire

\* The end of a closure and of the wait for children.
LEMMA CompleteStep ==
    ASSUME StackInv, NEW i \in Slots,
           Complete(i, TRUE) \/ Complete(i, FALSE) \/ ResumeChildren(i)
    PROVE  StackInv'
  <1>1. CASE ResumeChildren(i)
    <2>1. CASE i # Root
      BY <1>1, <2>1, RetireStep DEF ResumeChildren, At
    <2>2. CASE i = Root
      BY <1>1, <2>2, ExitStep DEF ResumeChildren
    <2> QED
      BY <2>1, <2>2
  <1>2. ASSUME NEW panicked \in BOOLEAN, Complete(i, panicked)
        PROVE  StackInv'
    <2>1. CASE /\ Park(i, "Children")
               /\ is_cancelled' = is_cancelled \cup {i}
               /\ result_is_error' = IF panicked THEN result_is_error \cup {i} ELSE result_is_error
               /\ UNCHANGED <<interfaceVars, mode, parent, children, join_handle, syscall_result,
                              target, handle, ready_fibers, stackVars>>
      <3>1. TypeOK /\ InterfaceTypeOK /\ "Children" \in Labels
        BY DEF StackInv, TypeOK, Labels
      <3>2. InterfaceTypeOK'
        BY <2>1, <3>1 DEF InterfaceTypeOK, interfaceVars
      <3>3. TypeOK'
        BY <2>1, <3>1, <3>2 DEF TypeOK, Park, stackVars
      <3>4. StacksConserved'
        BY <1>2, <2>1, <3>1, SameStacks DEF Complete, At, Park, TypeOK
      <3>5. LinksKnown' /\ ModeKnown'
        BY <1>2, <2>1, <3>1
        DEF StackInv, TypeOK, LinksKnown, ModeKnown, Live, Complete, At, Park
      <3> QED
        BY <3>3, <3>4, <3>5 DEF StackInv
    <2>2. CASE i # Root /\ Retire(i, panicked)
      BY <1>2, <2>2, RetireStep DEF Complete, At
    <2>3. CASE i = Root /\ ReturnFromStart
      BY <1>2, <2>3, ExitStep DEF Complete
    <2> QED
      BY <1>2, <2>1, <2>2, <2>3 DEF Complete
  <1> QED
    BY <1>1, <1>2

\* process_io and the kernel.
LEMMA ProcessIoStep ==
    ASSUME StackInv, ProcessIo \/ \E id \in Slots : Kernel(id)
    PROVE  StackInv'
  <1>1. TypeOK /\ InterfaceTypeOK
    BY DEF StackInv, TypeOK
  <1>2. UNCHANGED <<mode, pc, parent, target, stackVars>>
    BY DEF ProcessIo, ProcessCompleted, PopReady, SubmitAndWait, Kernel, fiberVars
  <1>3. StacksConserved' /\ LinksKnown' /\ ModeKnown'
    BY <1>2 DEF StackInv, StacksConserved, LinksKnown, ModeKnown, Live, stackVars
  <1>4. CASE ProcessCompleted
    <2>1. InterfaceTypeOK'
      BY <1>1, <1>4, IoType DEF ProcessCompleted
    <2>2. Head(cq) \in Slots \cup {ASYNC_CANCELLATION_USER_DATA}
      BY <1>1, <1>4 DEF ProcessCompleted, ReadCompletion, InterfaceTypeOK
    <2>3. syscall_result' \subseteq Slots /\ ready_fibers' \in Seq(Slots)
      BY <1>1, <1>4, <2>2, ScheduleType DEF ProcessCompleted, TypeOK
    <2> QED
      BY <1>1, <1>3, <1>4, <2>1, <2>3 DEF ProcessCompleted, StackInv, TypeOK, stackVars
  <1>5. CASE PopReady
    <2>1. ready_fibers' \in Seq(Slots) /\ running_fiber' \in Slots
      BY <1>1, <1>5 DEF PopReady, TypeOK
    <2>2. InterfaceTypeOK'
      BY <1>1, <1>5 DEF PopReady, InterfaceTypeOK, interfaceVars
    <2> QED
      BY <1>1, <1>3, <1>5, <2>1, <2>2 DEF PopReady, StackInv, TypeOK, fiberVars, stackVars
  <1>6. CASE SubmitAndWait \/ \E id \in Slots : Kernel(id)
    <2>1. InterfaceTypeOK'
      BY <1>1, <1>6, IoType DEF SubmitAndWait, Kernel
    <2> QED
      BY <1>1, <1>3, <1>6, <2>1
      DEF SubmitAndWait, Kernel, StackInv, TypeOK, fiberVars, schedVars, stackVars
  <1> QED
    BY <1>4, <1>5, <1>6 DEF ProcessIo

-----------------------------------------------------------------------------
(* The theorems. *)

\* The invariant holds initially.
LEMMA StackInvInit == Init => StackInv
  <1> SUFFICES ASSUME Init PROVE StackInv
    OBVIOUS
  <1>1. TypeOK
    <2>1. InterfaceTypeOK
      BY SqSizeAssumption DEF Init, InterfaceInit, InterfaceTypeOK
    <2> QED
      BY <2>1 DEF Init, TypeOK, Labels
  <1>2. StacksConserved
    <2>1. LiveSet = {}
      BY DEF Init, LiveSet, Live
    <2> QED
      BY <2>1, FS_EmptySet DEF Init, StacksConserved, LiveSet
  <1>3. LinksKnown /\ ModeKnown
    BY DEF Init, LinksKnown, ModeKnown, Live
  <1> QED
    BY <1>1, <1>2, <1>3 DEF StackInv

\* Every step of the runtime preserves the invariant.
LEMMA StackInvNext == StackInv /\ [Next]_vars => StackInv'
  <1> SUFFICES ASSUME StackInv, [Next]_vars PROVE StackInv'
    OBVIOUS
  <1>1. CASE Start
    BY <1>1, StartStep
  <1>2. ASSUME NEW i \in Slots, Call(i) PROVE StackInv'
    <2>1. CASE \E c \in Slots, moved \in SUBSET Held(i) : Spawn(i, c, moved)
      BY <2>1, SpawnStep
    <2>2. CASE \E j \in Slots : Join(i, j) \/ DropHandle(i, j) \/ ForgetHandle(i, j)
      BY <2>2, JoinStep
    <2>3. CASE \E r \in Slots : CancelTree(r, i)
      BY <2>3, CancelStep
    <2>4. CASE YieldNow(i) \/ Syscall(i)
      BY <2>4, SyscallStep
    <2>5. CASE Complete(i, TRUE) \/ Complete(i, FALSE)
      BY <2>5, CompleteStep
    <2>6. CASE \E j, k \in Slots : GiveHandle(i, j, k)
      BY <2>6, GiveStep
    <2> QED
      BY <1>2, <2>1, <2>2, <2>3, <2>4, <2>5, <2>6, SlotsFacts
      DEF Call, CancelHandle, CancelSelf, CancelPropagating
  <1>3. ASSUME NEW i \in Slots, Resume(i) PROVE StackInv'
    BY <1>3, JoinStep, SyscallStep, CompleteStep DEF Resume
  <1>4. CASE ProcessIo \/ \E id \in Slots : Kernel(id)
    BY <1>4, ProcessIoStep
  <1>5. CASE DropRuntime
    BY <1>5, ExitStep
  <1>6. CASE UNCHANGED vars
    BY <1>6
    DEF vars, StackInv, TypeOK, InterfaceTypeOK, StacksConserved, LinksKnown, ModeKnown, Live,
        interfaceVars, fiberVars, schedVars, stackVars
  <1> QED
    BY <1>1, <1>2, <1>3, <1>4, <1>5, <1>6 DEF Next, Terminated

\* The invariant is an invariant of the runtime.
LEMMA StackInvAlways == Spec => []StackInv
  BY StackInvInit, StackInvNext, PTL DEF Spec

\* Type correctness, for every number of fibers and every closure: in particular
\* only fibers are ever queued, and no more stacks are unmapped than were mapped.
THEOREM TypeCorrect == Spec => []TypeOK
  <1>1. StackInv => TypeOK
    BY DEF StackInv
  <1> QED
    BY <1>1, StackInvAlways, PTL

\* Stacks are neither lost nor pooled twice (create_fiber, spawn_trampoline,
\* JoinHandle::drop): each mapped stack is in the pool or belongs to one entry of
\* the slab.  This needs no assumption on the closures (OwnedParents is arbitrary).
THEOREM StacksAreConserved == Spec => []StacksConserved
  <1>1. StackInv => StacksConserved
    BY DEF StackInv
  <1> QED
    BY <1>1, StackInvAlways, PTL

=============================================================================
