------------------------------ MODULE Partition ------------------------------
(* Grouping without a data structure: every buyer has a representative, and *)
(* merging the groups of two linked buyers gives both the one of the first. *)
EXTENDS FunderGraph

CONSTANT Buyers

VARIABLES funders, rep
vars == <<funders, rep>>

Init == rep = [x \in Buyers |-> x]

Merge(a, b) ==
    /\ Linked(funders, a, b)
    /\ rep' = [x \in Buyers |-> IF rep[x] = rep[b] THEN rep[a] ELSE rep[x]]
    /\ UNCHANGED funders

Next == \E a, b \in Buyers : Merge(a, b)

Spec == Init /\ [][Next]_vars
=============================================================================
