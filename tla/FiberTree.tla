----------------------------- MODULE FiberTree -----------------------------
(***************************************************************************)
(* What structured concurrency promises: the fibers form a tree that grows *)
(* and loses nothing but leaves.  A fiber whose closure is over lives on   *)
(* as long as it has children; cancellation reaches the whole subtree, and *)
(* those spawned into it later; a panic that nobody hears cancels all.     *)
(***************************************************************************)
CONSTANTS
    Fiber,
    Main,    \* the fiber in which everything begins
    Nobody   \* no fiber

VARIABLES
    alive,      \* fibers that have begun and not ended
    finished,   \* those of them that wait for their children only
    cancelled,  \* those of them that were told to stop and have not finished
    up          \* the parent of each

treeVars == <<alive, finished, cancelled, up>>

TreeInit ==
    /\ alive = {}
    /\ finished = {}
    /\ cancelled = {}
    /\ up = [f \in Fiber |-> Nobody]

Children(p) == {c \in alive : up[c] = p}

\* r and its descendants.
Below(r) ==
    LET children == [p \in Fiber |-> Children(p)]
    IN  {s \in Fiber :
            \A S \in SUBSET Fiber : (r \in S /\ \A p \in S : children[p] \subseteq S) => s \in S}

Begin ==
    /\ alive = {}
    /\ alive' = {Main}
    /\ UNCHANGED <<finished, cancelled, up>>

\* A fiber that runs spawns a child, which is born cancelled if its parent is.
Spawn(p, c) ==
    /\ p \in alive \ finished
    /\ c \in Fiber \ alive
    /\ alive' = alive \cup {c}
    /\ up' = [up EXCEPT ![c] = p]
    /\ cancelled' = IF p \in cancelled THEN cancelled \cup {c} ELSE cancelled
    /\ UNCHANGED finished

Cancel(r) ==
    /\ r \in alive
    /\ UNCHANGED <<alive, finished, up>>
    /\ cancelled' = cancelled \cup (Below(r) \ finished)

\* The closure of i is over, but not its children.
Finish(i) ==
    /\ i \in alive \ finished
    /\ Children(i) # {}
    /\ finished' = finished \cup {i}
    /\ cancelled' = cancelled \ {i}
    /\ UNCHANGED <<alive, up>>

\* A fiber without children ends; if nobody hears its panic, all others are told.
End(i) ==
    /\ i \in alive
    /\ Children(i) = {}
    /\ alive' = alive \ {i}
    /\ finished' = finished \ {i}
    /\ up' = [up EXCEPT ![i] = Nobody]
    /\ \/ cancelled' = cancelled \ {i}
       \/ i # Main /\ cancelled' = alive' \ finished'

TreeNext ==
    \/ Begin
    \/ \E p, c \in Fiber : Spawn(p, c)
    \/ \E i \in Fiber : Cancel(i) \/ Finish(i) \/ End(i)

TreeSpec == TreeInit /\ [][TreeNext]_treeVars

=============================================================================
