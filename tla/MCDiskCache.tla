----------------------------- MODULE MCDiskCache -----------------------------
(* The seed, imported from one fixture, and a call that two fetches may      *)
(* answer differently.                                                       *)
EXTENDS DiskCache

CONSTANTS seed, c1

Responses == [k \in Keys |-> IF k = seed THEN {1} ELSE {1, 2}]
=============================================================================
