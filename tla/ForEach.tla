------------------------------ MODULE ForEach ------------------------------
(* What runPool promises its callers: every item is run at most once, no   *)
(* more than Limit at a time; the call returns only when nothing it        *)
(* started is still running, and leaves an item out only if the context    *)
(* was cancelled.                                                          *)
EXTENDS Naturals, FiniteSets

CONSTANTS Items, Limit

VARIABLES waiting, running, stopped, returned
vars == <<waiting, running, stopped, returned>>

Init ==
    /\ waiting = Items
    /\ running = {}
    /\ stopped = FALSE
    /\ returned = FALSE

Start(i) ==
    /\ i \in waiting
    /\ ~returned
    /\ Cardinality(running) < Limit
    /\ waiting' = waiting \ {i}
    /\ running' = running \cup {i}
    /\ UNCHANGED <<stopped, returned>>

Finish(i) ==
    /\ i \in running
    /\ running' = running \ {i}
    /\ UNCHANGED <<waiting, stopped, returned>>

Stop ==
    /\ stopped' = TRUE
    /\ UNCHANGED <<waiting, running, returned>>

Return ==
    /\ running = {}
    /\ waiting = {} \/ stopped
    /\ returned' = TRUE
    /\ UNCHANGED <<waiting, running, stopped>>

Next ==
    \/ \E i \in Items : Start(i) \/ Finish(i)
    \/ Stop
    \/ Return

Spec == Init /\ [][Next]_vars
=============================================================================
