---------------------------- MODULE RuntimeLive ----------------------------
(***************************************************************************)
(* What must eventually happen in the runtime.  The closures make at most  *)
(* Fuel calls between them; then each one joins (or, if nobody owns its    *)
(* own handle, drops) the handles it is left with and returns.             *)
(***************************************************************************)
EXTENDS Runtime

CONSTANT Fuel  \* bound on the calls that closures make

ASSUME FuelAssumption == Fuel \in Nat

VARIABLES
    fuel,    \* calls that are left
    finite   \* whether operations end by themselves, in this behaviour

budget == <<fuel, finite>>
liveVars == <<vars, budget>>

LiveInit == Init /\ fuel = Fuel /\ finite \in BOOLEAN

Spend(i) == fuel > 0 /\ fuel' = fuel - 1 /\ UNCHANGED finite /\ Call(i)

\* The end of a closure: nothing but what every closure does at its end.
WindUp(i) ==
    /\ UNCHANGED budget
    /\ \/ \E j \in Slots : Join(i, j)
       \/ handle[i] = NoFiber /\ \E j \in Slots : DropHandle(i, j)
       \/ Complete(i, FALSE)

LiveNext ==
    \/ Start /\ UNCHANGED budget
    \/ \E i \in Slots : Spend(i)
    \/ \E i \in Slots : WindUp(i)
    \/ \E i \in Slots : Resume(i) /\ UNCHANGED budget
    \/ \E i \in Slots : Kernel(i) /\ UNCHANGED budget
    \/ ProcessIo /\ UNCHANGED budget
    \/ DropRuntime /\ UNCHANGED budget
    \/ Terminated /\ UNCHANGED budget

\* The thread never pauses: whatever runs on it is taken further, and a closure
\* ends when it has no calls left to make.
ThreadFairness ==
    /\ WF_liveVars(Start /\ UNCHANGED budget)
    /\ \A i \in Slots : WF_liveVars(WindUp(i))
    /\ \A i \in Slots : WF_liveVars(Resume(i) /\ UNCHANGED budget)
    /\ WF_liveVars(ProcessIo /\ UNCHANGED budget)
    /\ WF_liveVars(DropRuntime /\ UNCHANGED budget)

\* Either every operation ends by itself (a timeout, a read that finds data),
\* or it may take forever (an accept nobody connects to) but the kernel ends it
\* once an AsyncCancel has found it.
KernelFairness ==
    \A i \in Slots :
        WF_liveVars((finite \/ i \in cancelling) /\ Kernel(i) /\ UNCHANGED budget)

LiveSpec == LiveInit /\ [][LiveNext]_liveVars /\ ThreadFairness /\ KernelFairness

-----------------------------------------------------------------------------

\* The runtime runs until all fibers complete, and not longer: when closures and
\* operations are finite, start returns and the runtime is dropped.
Terminates == finite ~> (mode = "down")

\* Cancelling ends a fiber: it leaves whatever call it waits in, even a system
\* call that would never complete, and so do the children it waits for.
CancelledFibersEnd ==
    \A s \in Slots :
        (s \in is_cancelled /\ ~Completed(s)) ~> (pc[s] \in {"Vacant", "Done"})

=============================================================================
