------------------------------- MODULE Cluster -------------------------------
(***************************************************************************)
(* score.Cluster (internal/score/cluster.go): union-find over the buyers   *)
(* of one token, first along shared funder addresses, in whatever order    *)
(* the map of funders is walked, then along funders that are buyers.  A    *)
(* step of the model is one union, with the path compression of both finds.*)
(* Buyers are their indices in the address-sorted slice.                   *)
(***************************************************************************)
EXTENDS FunderGraph, Integers

CONSTANTS
    Buyers,
    Outsiders,  \* funder addresses that are not buyers
    MaxFunders  \* bound: First-Funder addresses per buyer

ASSUME BuyersAssumption == Buyers \subseteq Nat /\ IsFiniteSet(Buyers) /\ Outsiders \cap Buyers = {}

VARIABLES
    funders,  \* BuyerInput.Funders, the addresses
    parent,   \* the union-find forest
    pending,  \* unions still to do, as <<a, b>>
    phase     \* "owners", "buyers", "explain", "done"

\* The outcome: for each group with more than one member, how it is explained.
VARIABLES sharedFunder, viaBuyer

vars == <<funders, parent, pending, phase, sharedFunder, viaBuyer>>

Addresses == Buyers \cup Outsiders
None == -1  \* no buyer's index

Owners(f) == {b \in Buyers : f \in funders[b]}

FirstOf(S) == CHOOSE x \in S : \A y \in S : x <= y

\* funderOwners: the first owner of every funder is united with each other one.
OwnerUnions ==
    UNION {{<<FirstOf(Owners(f)), b>> : b \in Owners(f) \ {FirstOf(Owners(f))}}
             : f \in {g \in Addresses : Owners(g) # {}}}

\* Mutant: only funders further down the slice are looked up.
BuyerUnionsForward ==
    {e \in Buyers \X Buyers : e[1] < e[2] /\ e[2] \in funders[e[1]]}

BuyerUnions ==
    {e \in Buyers \X Buyers : e[1] # e[2] /\ e[2] \in funders[e[1]]}

\* What find(x) visits: the least set with x that holds its members' parents.
Path(x) ==
    {y \in Buyers : \A S \in SUBSET Buyers : x \in S /\ (\A z \in S : parent[z] \in S) => y \in S}

Root(x) == CHOOSE r \in Path(x) : parent[r] = r

Init ==
    /\ funders \in [Buyers -> {S \in SUBSET Addresses : Cardinality(S) <= MaxFunders}]
    /\ parent = [b \in Buyers |-> b]
    /\ phase = "owners"
    /\ pending = OwnerUnions
    /\ sharedFunder = {}
    /\ viaBuyer = {}

\* Mutant: the second node is moved alone, not its whole group.
UniteNodes(a, b) == [parent EXCEPT ![b] = a]

\* Mutant: no test that the two are apart already.
UniteUnderNode(a, b) == [parent EXCEPT ![Root(a)] = b]

\* find(a), find(b) with their path compression, then parent[rb] = ra.
Unite(a, b) ==
    [x \in Buyers |->
        IF x = Root(b) \/ x \in Path(a) THEN Root(a)
        ELSE IF x \in Path(b) THEN Root(b)
        ELSE parent[x]]

Union(a, b) ==
    /\ <<a, b>> \in pending
    /\ pending' = pending \ {<<a, b>>}
    /\ parent' = Unite(a, b)
    /\ UNCHANGED <<funders, phase, sharedFunder, viaBuyer>>

OwnersDone ==
    /\ phase = "owners"
    /\ pending = {}
    /\ phase' = "buyers"
    /\ pending' = BuyerUnions
    /\ UNCHANGED <<funders, parent, sharedFunder, viaBuyer>>

\* Grouping calls find on every buyer.
BuyersDone ==
    /\ phase = "buyers"
    /\ pending = {}
    /\ phase' = "explain"
    /\ parent' = [x \in Buyers |-> Root(x)]
    /\ UNCHANGED <<funders, pending, sharedFunder, viaBuyer>>

Groups == {{y \in Buyers : Root(y) = Root(x)} : x \in Buyers}

\* Mutant: off by one.
SharedInThree(group) == {f \in Addresses : Cardinality(Owners(f) \cap group) > 2}

\* Funders at least two members of the group name: the loop over the map stops
\* at any one of them.
SharedIn(group) == {f \in Addresses : Cardinality(Owners(f) \cap group) >= 2}

\* Otherwise: the first member, in order, one of whose funders is a member.
MemberFunders(group, b) == funders[b] \cap group

Via(group) ==
    LET funded == {b \in group : MemberFunders(group, b) # {}}
    IN  IF funded = {} THEN {None} ELSE MemberFunders(group, FirstOf(funded))

Explained(group) == \E e \in sharedFunder \cup viaBuyer : e[1] = group

Explain(group) ==
    /\ phase = "explain"
    /\ group \in Groups
    /\ Cardinality(group) > 1
    /\ ~Explained(group)
    /\ IF SharedIn(group) # {}
       THEN /\ \E f \in SharedIn(group) : sharedFunder' = sharedFunder \cup {<<group, f>>}
            /\ UNCHANGED viaBuyer
       ELSE /\ \E j \in Via(group) : viaBuyer' = viaBuyer \cup {<<group, j>>}
            /\ UNCHANGED sharedFunder
    /\ UNCHANGED <<funders, parent, pending, phase>>

ExplainDone ==
    /\ phase = "explain"
    /\ \A group \in Groups : Cardinality(group) > 1 => Explained(group)
    /\ phase' = "done"
    /\ UNCHANGED <<funders, parent, pending, sharedFunder, viaBuyer>>

Done == phase = "done" /\ UNCHANGED vars

Next ==
    \/ \E a, b \in Buyers : Union(a, b)
    \/ OwnersDone \/ BuyersDone
    \/ \E group \in Groups : Explain(group)
    \/ ExplainDone
    \/ Done

Spec == Init /\ [][Next]_vars

-----------------------------------------------------------------------------
(* Properties.                                                             *)

\* The forest never loses a root: find terminates from every buyer, on one root.
Forest ==
    /\ parent \in [Buyers -> Buyers]
    /\ \A x \in Buyers : Cardinality({r \in Path(x) : parent[r] = r}) = 1

\* Whatever order the maps are walked in, the groups are the connected
\* components of the funding links: no link is missed, none is invented.
GroupsAreComponents == phase = "done" => Groups = Components(Buyers, funders)

\* The union-find forest implements merging of groups, step by step; path
\* compression changes nothing.
Abstract == INSTANCE Partition WITH rep <- [x \in Buyers |-> Root(x)]
ImplementsPartition == Abstract!Spec

\* The reason of a collapse: a funder observed for at least two of the members,
\* or a member that funded another one of them.
TrulyExplained(group) ==
    \/ \E f \in Addresses : <<group, f>> \in sharedFunder /\ Cardinality(Owners(f) \cap group) >= 2
    \/ \E j \in group : <<group, j>> \in viaBuyer /\ \E b \in group \ {j} : j \in funders[b]

Collapsed == {group \in Groups : Cardinality(group) > 1}

\* "ViaBuyer is set when the collapse happened because one member's funder is
\* itself another buyer's own address" (cluster.go:50): every collapse the report
\* shows names its reason.  A member that lists itself breaks it, for the search
\* takes a buyer's own address for another's, which the union does not.
EveryCollapseExplained == phase = "done" => \A group \in Collapsed : TrulyExplained(group)

\* Where no member lists itself the search is right, whatever order the maps are
\* walked in: what made the group is what the report names.
ExplainedUnlessSelfFunded ==
    phase = "done" => \A group \in Collapsed :
        (\A b \in group : b \notin funders[b]) => TrulyExplained(group)
=============================================================================
