----------------------------- MODULE FunderGraph -----------------------------
(* The relation the cluster collapse is about, stated without an algorithm: *)
(* for a set B of buyers, funders[b] is the set of First-Funder addresses   *)
(* known for b; an address may be a buyer's own.                            *)
EXTENDS Naturals, FiniteSets

\* Two buyers share a funding source: a literal funder, or one funds the other.
Linked(funders, x, y) ==
    \/ funders[x] \cap funders[y] # {}
    \/ x \in funders[y]
    \/ y \in funders[x]

Closed(B, funders, S) == \A x \in S, y \in B : Linked(funders, x, y) => y \in S

\* x and y are connected if no set of buyers separates them.
Connected(B, funders, x, y) == \A S \in SUBSET B : x \in S /\ Closed(B, funders, S) => y \in S

Component(B, funders, x) == {y \in B : Connected(B, funders, x, y)}

Components(B, funders) == {Component(B, funders, x) : x \in B}
=============================================================================
