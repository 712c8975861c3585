------------------------------ MODULE MCFanOut ------------------------------
EXTENDS FanOut

CONSTANTS c1, c2, c3

MCCost == [c \in Calls |-> 1]

\* Three one-call items, as in the wallet stages.
OneCallItems == <<<<c1>>, <<c2>>, <<c3>>>>

=============================================================================
