----------------------------- MODULE Interface -----------------------------
(***************************************************************************)
(* The system call interface of the runtime (src/runtime/syscall.rs) and   *)
(* the io_uring instance behind it.                                        *)
(*                                                                         *)
(* A system call is identified by its user_data, which is the slab index   *)
(* of the fiber that issued it.  An entry waits in the submission queue    *)
(* until somebody enters the kernel; from then on the operation is in      *)
(* flight, and the kernel may complete it at any moment.  An AsyncCancel   *)
(* names its target by user_data and posts a completion of its own, whose  *)
(* user_data is ASYNC_CANCELLATION_USER_DATA.                              *)
(*                                                                         *)
(* Results are abstracted: whether an operation ended by itself or by      *)
(* ECANCELED, its completion is one entry of the completion queue.         *)
(***************************************************************************)
EXTENDS Integers, Sequences, FiniteSets

CONSTANTS
    MaxFibers,  \* bound on the number of slab entries
    SqSize      \* capacity of the submission queue (1024 in the code)

ASSUME MaxFibersAssumption == MaxFibers \in Nat \ {0}
ASSUME SqSizeAssumption == SqSize \in Nat \ {0}

\* Slab keys, which are also the ids (user_data) of system calls.
Slots == 0 .. MaxFibers - 1

ASYNC_CANCELLATION_USER_DATA == -1

VARIABLES
    sq,          \* submission queue: entries the kernel has not seen
    inflight,    \* operations the kernel is executing
    cancelling,  \* those of them that an AsyncCancel has found
    cq           \* completion queue: user_data of completions not yet read

interfaceVars == <<sq, inflight, cancelling, cq>>

Op(id) == [kind |-> "op", id |-> id]
AsyncCancel(id) == [kind |-> "cancel", id |-> id]

Entries == [kind : {"op", "cancel"}, id : Slots]

InterfaceTypeOK ==
    /\ sq \in Seq(Entries)
    /\ Len(sq) <= SqSize
    /\ inflight \subseteq Slots
    /\ cancelling \subseteq inflight
    /\ cq \in Seq(Slots \cup {ASYNC_CANCELLATION_USER_DATA})

\* Interface::new
InterfaceInit ==
    /\ sq = <<>>
    /\ inflight = {}
    /\ cancelling = {}
    /\ cq = <<>>

-----------------------------------------------------------------------------
(* The kernel consumes the submission queue in order. *)

Issued == {id \in Slots : \E k \in DOMAIN sq : sq[k] = Op(id)}

\* (mutant) the AsyncCancel also finds an operation submitted after it.
MutFound ==
    {id \in Slots :
        \E k \in DOMAIN sq : sq[k] = AsyncCancel(id) /\ id \in inflight \cup Issued}

\* An AsyncCancel finds its target only if that is in flight when the entry is
\* reached: submitted in an earlier call or by an earlier entry of this one.
Found ==
    {id \in Slots :
        \E k \in DOMAIN sq :
            /\ sq[k] = AsyncCancel(id)
            /\ id \in inflight \/ \E l \in 1 .. k - 1 : sq[l] = Op(id)}

Cancels == {k \in DOMAIN sq : sq[k].kind = "cancel"}

\* What entering the kernel does to its side of the rings.
Consume ==
    /\ inflight' = inflight \cup Issued
    /\ cancelling' = cancelling \cup Found
    /\ cq' = cq \o [k \in 1 .. Cardinality(Cancels) |-> ASYNC_CANCELLATION_USER_DATA]

\* Interface::issue: a full queue is submitted before the entry is pushed.
Issue(entry) ==
    \/ /\ Len(sq) < SqSize
       /\ sq' = Append(sq, entry)
       /\ UNCHANGED <<inflight, cancelling, cq>>
    \/ /\ Len(sq) = SqSize
       /\ Consume
       /\ sq' = <<entry>>

\* Interface::wait_for_completed: submit_and_wait(1).  The wait is the time
\* until a completion enables the reader again.
WaitForCompleted ==
    /\ cq = <<>>
    /\ sq # <<>>
    /\ Consume
    /\ sq' = <<>>

\* The kernel ends an operation, by itself or because it was cancelled.
KernelComplete(id) ==
    /\ id \in inflight
    /\ inflight' = inflight \ {id}
    /\ cancelling' = cancelling \ {id}
    /\ cq' = Append(cq, id)
    /\ UNCHANGED sq

\* (mutant) the loop continues without advancing past an ignored completion.
MutReadCompletion ==
    /\ cq # <<>>
    /\ cq' = IF Head(cq) = ASYNC_CANCELLATION_USER_DATA THEN cq ELSE Tail(cq)
    /\ UNCHANGED <<sq, inflight, cancelling>>

\* One step of the loop of Interface::process_completed.
ReadCompletion ==
    /\ cq # <<>>
    /\ cq' = Tail(cq)
    /\ UNCHANGED <<sq, inflight, cancelling>>

=============================================================================
