------------------------------ MODULE MCClient ------------------------------
(* Client with two kinds of endpoint: ordinary calls cost one credit, the  *)
(* seed call costs SeedCost.                                               *)
EXTENDS Client, TLC

CONSTANTS Seed, SeedCost

MCCost == [c \in Calls |-> IF c = Seed THEN SeedCost ELSE 1]

\* Workers are interchangeable, and so are the calls of equal cost.  Used in
\* the runs without liveness only.
MCSymmetry == Permutations(Workers) \cup Permutations(Calls \ {Seed})
=============================================================================
