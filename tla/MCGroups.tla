------------------------------- MODULE MCGroups -------------------------------
(***************************************************************************)
(* Package score whole: the grouping of buyers and its census as a         *)
(* machine, beside the tables of its other rules, which have no steps.     *)
(* Each behaviour is of one of them: input is none where buyers are        *)
(* grouped, and in a table's behaviours no buyer has a funder.             *)
(***************************************************************************)
EXTENDS MCScore, Census

allVars == <<vars, input>>

Grouping == Init /\ input = [of |-> "none"]

Table == funders = [b \in Buyers |-> {}] /\ Init /\ TablesInit

MCInit == Grouping \/ Table

GroupStep == input.of = "none" /\ Next /\ UNCHANGED input
TableStep == input.of # "none" /\ TablesNext /\ UNCHANGED vars

MCNext == GroupStep \/ TableStep

MCSpec == MCInit /\ [][MCNext]_allVars
=============================================================================
