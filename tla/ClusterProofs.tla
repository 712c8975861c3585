---------------------------- MODULE ClusterProofs ----------------------------
(***************************************************************************)
(* The union-find of score.Cluster groups by connection, for any number of *)
(* buyers, any funders, and any order in which the maps are walked; and    *)
(* the census of the same funders agrees with it.                          *)
(***************************************************************************)
EXTENDS Census, SetProofs

(***************************************************************************)
(* Forests.  Path is the least set that holds a node and its members'      *)
(* parents, so what is to be shown of every node up to the root is shown   *)
(* by giving a set that holds the node and is closed under parents.        *)
(***************************************************************************)

Upward(p, S) == \A z \in S : p[z] \in S

PathIn(p, x) == {y \in Buyers : \A S \in SUBSET Buyers : x \in S /\ Upward(p, S) => y \in S}

RootIn(p, x) == CHOOSE r \in PathIn(p, x) : p[r] = r

Rooted(p) == \A x \in Buyers : \E r \in PathIn(p, x) : p[r] = r

LEMMA PathIsPathIn == \A x : Path(x) = PathIn(parent, x) /\ Root(x) = RootIn(parent, x)
BY DEF Path, Root, PathIn, RootIn, Upward

LEMMA PathInduction ==
    ASSUME NEW p, NEW x, NEW S \in SUBSET Buyers, x \in S, Upward(p, S)
    PROVE  PathIn(p, x) \subseteq S
BY DEF PathIn

LEMMA PathBase ==
    ASSUME NEW p \in [Buyers -> Buyers], NEW x \in Buyers
    PROVE  /\ x \in PathIn(p, x) /\ PathIn(p, x) \subseteq Buyers
           /\ Upward(p, PathIn(p, x))
BY DEF PathIn, Upward

LEMMA PathPrefix ==
    ASSUME NEW p \in [Buyers -> Buyers], NEW x \in Buyers, NEW y \in PathIn(p, x)
    PROVE  PathIn(p, y) \subseteq PathIn(p, x)
BY PathBase, PathInduction

LEMMA PathStep ==
    ASSUME NEW p \in [Buyers -> Buyers], NEW x \in Buyers
    PROVE  PathIn(p, x) = {x} \cup PathIn(p, p[x])
<1>1. p[x] \in PathIn(p, x) /\ p[x] \in Buyers
    BY PathBase DEF Upward
<1>2. {x} \cup PathIn(p, p[x]) \subseteq PathIn(p, x)
    BY <1>1, PathBase, PathPrefix
<1>3. Upward(p, {x} \cup PathIn(p, p[x]))
    BY <1>1, PathBase DEF Upward
<1>4. PathIn(p, x) \subseteq {x} \cup PathIn(p, p[x])
    BY <1>1, <1>3, PathBase, PathInduction
<1> QED
    BY <1>2, <1>4

\* From any node of a path the path's root is still ahead.
LEMMA RootAhead ==
    ASSUME NEW p \in [Buyers -> Buyers], NEW x \in Buyers, NEW r \in PathIn(p, x), p[r] = r,
           NEW y \in PathIn(p, x)
    PROVE  r \in PathIn(p, y)
<1> DEFINE S == {z \in PathIn(p, x) : r \in PathIn(p, z)}
<1>1. x \in S /\ S \in SUBSET Buyers
    BY PathBase
<1>2. ASSUME NEW z \in S PROVE p[z] \in S
    <2>1. p[z] \in PathIn(p, x) /\ z \in Buyers
        BY PathBase DEF Upward
    <2>2. r \in {z} \cup PathIn(p, p[z])
        BY <2>1, PathStep
    <2>3. r \in PathIn(p, p[z])
        BY <2>1, <2>2, PathBase
    <2> QED
        BY <2>1, <2>3
<1>3. PathIn(p, x) \subseteq S
    <2>1. Upward(p, S)
        BY <1>2 DEF Upward
    <2> HIDE DEF S
    <2> QED
        BY <1>1, <2>1, PathInduction
<1> QED
    BY <1>3

\* A path has one root: what find returns.
LEMMA OneRoot ==
    ASSUME NEW p \in [Buyers -> Buyers], Rooted(p), NEW x \in Buyers
    PROVE  /\ RootIn(p, x) \in PathIn(p, x) /\ RootIn(p, x) \in Buyers
           /\ p[RootIn(p, x)] = RootIn(p, x)
           /\ \A r \in PathIn(p, x) : p[r] = r => r = RootIn(p, x)
<1>1. RootIn(p, x) \in PathIn(p, x) /\ p[RootIn(p, x)] = RootIn(p, x)
    BY DEF Rooted, RootIn
<1>2. ASSUME NEW r \in PathIn(p, x), p[r] = r PROVE r = RootIn(p, x)
    <2>1. RootIn(p, x) \in PathIn(p, r)
        BY <1>1, <1>2, RootAhead
    <2>2. r \in Buyers /\ Upward(p, {r})
        BY <1>2, PathBase DEF Upward
    <2>3. PathIn(p, r) \subseteq {r}
        BY <2>2, PathInduction
    <2> QED
        BY <2>1, <2>3
<1> QED
    BY <1>1, <1>2, PathBase

LEMMA SameRoot ==
    ASSUME NEW p \in [Buyers -> Buyers], Rooted(p), NEW x \in Buyers, NEW y \in PathIn(p, x)
    PROVE  y \in Buyers /\ RootIn(p, y) = RootIn(p, x)
<1>1. y \in Buyers /\ PathIn(p, y) \subseteq PathIn(p, x)
    BY PathBase, PathPrefix
<1>2. RootIn(p, y) \in PathIn(p, y) /\ p[RootIn(p, y)] = RootIn(p, y)
    BY <1>1, OneRoot
<1> QED
    BY <1>1, <1>2, OneRoot

\* A root that is somewhere ahead is the root.
LEMMA RootFound ==
    ASSUME NEW p \in [Buyers -> Buyers], NEW root \in [Buyers -> Buyers],
           \A x \in Buyers : root[x] \in PathIn(p, x) /\ p[root[x]] = root[x]
    PROVE  Rooted(p) /\ \A x \in Buyers : RootIn(p, x) = root[x]
<1>1. Rooted(p)
    BY DEF Rooted
<1> QED
    BY <1>1, OneRoot

\* Before anything is united, and after the grouping, every node is one step
\* from its root.
LEMMA FlatForest ==
    ASSUME NEW p \in [Buyers -> Buyers], \A x \in Buyers : p[p[x]] = p[x]
    PROVE  Rooted(p) /\ \A x \in Buyers : RootIn(p, x) = p[x]
<1>1. \A x \in Buyers : p[x] \in PathIn(p, x)
    BY PathBase DEF Upward
<1> QED
    BY <1>1, RootFound

UniteIn(p, a, b) ==
    [x \in Buyers |->
        IF x = RootIn(p, b) \/ x \in PathIn(p, a) THEN RootIn(p, a)
        ELSE IF x \in PathIn(p, b) THEN RootIn(p, b)
        ELSE p[x]]

\* Uniting a and b moves the whole tree of b under the root of a, and nothing
\* else: the path compression on the way changes no node's root.
LEMMA UniteRoots ==
    ASSUME NEW p \in [Buyers -> Buyers], Rooted(p), NEW a \in Buyers, NEW b \in Buyers,
           NEW q, q = UniteIn(p, a, b)
    PROVE  /\ q \in [Buyers -> Buyers] /\ Rooted(q)
           /\ \A x \in Buyers :
                 RootIn(q, x) = IF RootIn(p, x) = RootIn(p, b) THEN RootIn(p, a) ELSE RootIn(p, x)
<1> DEFINE ra == RootIn(p, a)
           rb == RootIn(p, b)
           root == [x \in Buyers |-> IF RootIn(p, x) = rb THEN ra ELSE RootIn(p, x)]
<1>1. /\ ra \in Buyers /\ rb \in Buyers
      /\ \A x \in Buyers : RootIn(p, x) \in PathIn(p, x) /\ RootIn(p, x) \in Buyers /\ p[RootIn(p, x)] = RootIn(p, x)
    BY OneRoot
<1>2. \A x \in Buyers : /\ x \in PathIn(p, a) => RootIn(p, x) = ra
                        /\ x \in PathIn(p, b) => RootIn(p, x) = rb
    BY SameRoot
<1>3. \A x \in Buyers : RootIn(p, RootIn(p, x)) = RootIn(p, x)
    BY <1>1, SameRoot
<1>4. /\ q \in [Buyers -> Buyers]
      /\ root \in [Buyers -> Buyers]
    BY <1>1 DEF UniteIn
<1>5. ASSUME NEW x \in Buyers
      PROVE  \/ q[x] = ra /\ root[x] = ra
             \/ q[x] = rb /\ root[x] = ra
             \/ q[x] = p[x]
    <2>1. CASE x = rb
        BY <1>1, <1>3, <2>1 DEF UniteIn
    <2>2. CASE x \in PathIn(p, a)
        BY <1>2, <2>2 DEF UniteIn
    <2>3. CASE x # rb /\ x \notin PathIn(p, a) /\ x \in PathIn(p, b)
        BY <1>2, <2>3 DEF UniteIn
    <2>4. CASE x # rb /\ x \notin PathIn(p, a) /\ x \notin PathIn(p, b)
        BY <2>4 DEF UniteIn
    <2> QED
        BY <2>1, <2>2, <2>3, <2>4
\* Both roots lead to a's.
<1>6. q[rb] = ra /\ q[ra] = ra
    BY <1>1 DEF UniteIn
\* What is to be a node's root is a root.
<1>7. ASSUME NEW x \in Buyers PROVE q[root[x]] = root[x]
    <2>1. CASE root[x] = ra
        BY <1>6, <2>1
    <2>2. CASE root[x] # ra
        <3>1. root[x] = RootIn(p, x) /\ RootIn(p, x) # rb
            BY <2>2
        <3>2. RootIn(p, x) \notin PathIn(p, a) /\ RootIn(p, x) \notin PathIn(p, b)
            BY <1>1, <1>2, <1>3, <2>2, <3>1
        <3> QED
            BY <1>1, <3>1, <3>2 DEF UniteIn
    <2> QED
        BY <2>1, <2>2
\* It is ahead of the node: otherwise it would be ahead of none of the nodes up
\* to the old root, but it is ahead of that one.
<1>8. ASSUME NEW x \in Buyers PROVE root[x] \in PathIn(q, x)
    <2> DEFINE S == {y \in PathIn(p, x) : root[x] \notin PathIn(q, y)}
    <2>1. SUFFICES ASSUME root[x] \notin PathIn(q, x) PROVE FALSE
        OBVIOUS
    <2>2. x \in S /\ S \in SUBSET Buyers
        BY <2>1, PathBase
    <2>3. ASSUME NEW y \in S PROVE p[y] \in S
        <3>1. y \in Buyers /\ p[y] \in PathIn(p, x) /\ root[x] \notin PathIn(q, y) /\ q[y] \in Buyers
            BY <1>4, PathBase DEF Upward
        <3>2. root[y] = root[x]
            BY <3>1, SameRoot
        <3>3. root[x] \notin PathIn(q, q[y])
            BY <1>4, <3>1, PathStep
        <3>4. root[x] # q[y]
            BY <1>4, <3>1, <3>3, PathBase
        <3>5. q[y] = rb => root[x] # ra
            BY <1>1, <1>4, <1>6, <3>3, PathBase DEF Upward
        <3>6. q[y] = p[y]
            BY <1>5, <3>1, <3>2, <3>4, <3>5
        <3> QED
            BY <3>1, <3>3, <3>6
    <2>4. RootIn(p, x) \in S
        <3>1. Upward(p, S)
            BY <2>3 DEF Upward
        <3> HIDE DEF S
        <3>2. PathIn(p, x) \subseteq S
            BY <2>2, <3>1, PathInduction
        <3> QED
            BY <1>1, <3>2
    <2>5. root[x] \in PathIn(q, RootIn(p, x))
        <3>1. CASE RootIn(p, x) = rb
            <4>1. root[x] = ra /\ q[rb] = ra
                BY <1>6, <3>1
            <4>2. q[rb] \in PathIn(q, rb)
                BY <1>1, <1>4, PathBase DEF Upward
            <4> QED
                BY <3>1, <4>1, <4>2
        <3>2. CASE RootIn(p, x) # rb
            BY <1>1, <1>4, <3>2, PathBase
        <3> QED
            BY <3>1, <3>2
    <2> QED
        BY <2>4, <2>5
<1>9. Rooted(q) /\ \A x \in Buyers : RootIn(q, x) = root[x]
    <2> HIDE DEF root
    <2> QED
        BY <1>4, <1>7, <1>8, RootFound
<1> QED
    BY <1>4, <1>9

-----------------------------------------------------------------------------
(***************************************************************************)
(* The forest of a running Cluster, and the unions it has still to do.     *)
(***************************************************************************)

ClusterTypeOK ==
    /\ funders \in [Buyers -> SUBSET Addresses]
    /\ parent \in [Buyers -> Buyers]
    /\ phase \in {"owners", "buyers", "explain", "done"}

\* Only linked buyers are going to be united.
PendingLinked == \A e \in pending : e \in Buyers \X Buyers /\ Linked(funders, e[1], e[2])

ForestInv == ClusterTypeOK /\ Rooted(parent) /\ PendingLinked

\* Of any buyers there is a first, in the order of the slice.
LEMMA FirstExists ==
    ASSUME NEW S \in SUBSET Buyers, S # {}
    PROVE  FirstOf(S) \in S
<1> DEFINE Less == OpToRel(<, Nat)
<1>1. IsWellFoundedOn(Less, Nat)
    BY NatLessThanWellFounded
<1>2. \A x, y \in Nat : <<y, x>> \in Less <=> y < x
    BY DEF OpToRel
<1>3. S \subseteq Nat
    BY BuyersAssumption
<1> HIDE DEF Less
<1>4. PICK x \in S : \A y \in S : <<y, x>> \notin Less
    BY <1>1, <1>3, WFMin
<1>5. ASSUME NEW y \in S PROVE x <= y
    <2>1. x \in Nat /\ y \in Nat
        BY <1>3
    <2>2. ~(y < x)
        BY <1>2, <1>4, <2>1
    <2> QED
        BY <2>1, <2>2
<1> QED
    BY <1>4, <1>5 DEF FirstOf

\* The first owner of a funder is united with each of the others.
LEMMA OwnerPairs ==
    /\ \A e \in OwnerUnions :
          \E f \in Addresses : e[1] \in Owners(f) /\ e[2] \in Owners(f) /\ e = <<e[1], e[2]>>
    /\ \A f \in Addresses : \A x \in Owners(f) : 
          x = FirstOf(Owners(f)) \/ <<FirstOf(Owners(f)), x>> \in OwnerUnions
<1>1. ASSUME NEW e \in OwnerUnions
      PROVE  \E f \in Addresses : e[1] \in Owners(f) /\ e[2] \in Owners(f) /\ e = <<e[1], e[2]>>
    <2>1. PICK f \in Addresses : /\ Owners(f) # {}
                                 /\ e \in {<<FirstOf(Owners(f)), b>> : b \in Owners(f) \ {FirstOf(Owners(f))}}
        BY DEF OwnerUnions
    <2>2. PICK b \in Owners(f) : e = <<FirstOf(Owners(f)), b>>
        BY <2>1
    <2>3. FirstOf(Owners(f)) \in Owners(f)
        BY <2>1, FirstExists DEF Owners
    <2> QED
        BY <2>2, <2>3
<1>2. ASSUME NEW f \in Addresses, NEW x \in Owners(f), x # FirstOf(Owners(f))
      PROVE  <<FirstOf(Owners(f)), x>> \in OwnerUnions
    BY <1>2 DEF OwnerUnions
<1> QED
    BY <1>1, <1>2

LEMMA UnionsLinked ==
    \A e \in OwnerUnions \cup BuyerUnions : e \in Buyers \X Buyers /\ Linked(funders, e[1], e[2])
<1>1. ASSUME NEW e \in OwnerUnions PROVE e \in Buyers \X Buyers /\ Linked(funders, e[1], e[2])
    <2>1. PICK f \in Addresses : e[1] \in Owners(f) /\ e[2] \in Owners(f) /\ e = <<e[1], e[2]>>
        BY OwnerPairs
    <2>2. e[1] \in Buyers /\ e[2] \in Buyers /\ f \in funders[e[1]] /\ f \in funders[e[2]]
        BY <2>1 DEF Owners
    <2> QED
        BY <2>1, <2>2 DEF Linked
<1>2. ASSUME NEW e \in BuyerUnions PROVE e \in Buyers \X Buyers /\ Linked(funders, e[1], e[2])
    BY <1>2 DEF BuyerUnions, Linked
<1> QED
    BY <1>1, <1>2

LEMMA InitForest == Init => ForestInv /\ \A x \in Buyers : Root(x) = x
<1> SUFFICES ASSUME Init PROVE ForestInv /\ \A x \in Buyers : Root(x) = x
    OBVIOUS
<1>1. ClusterTypeOK
    BY DEF Init, ClusterTypeOK
<1>2. \A x \in Buyers : parent[x] = x /\ parent[parent[x]] = parent[x]
    BY DEF Init
<1>3. Rooted(parent) /\ \A x \in Buyers : RootIn(parent, x) = x
    BY <1>1, <1>2, FlatForest DEF ClusterTypeOK
<1>4. PendingLinked
    BY UnionsLinked DEF Init, PendingLinked
<1> QED
    BY <1>1, <1>3, <1>4, PathIsPathIn DEF ForestInv

\* One union: the groups of a and b become one, under the root of a.
LEMMA UnionRoots ==
    ASSUME ForestInv, NEW a \in Buyers, NEW b \in Buyers, Union(a, b)
    PROVE  /\ parent' \in [Buyers -> Buyers] /\ Rooted(parent')
           /\ \A x \in Buyers : Root(x)' = IF Root(x) = Root(b) THEN Root(a) ELSE Root(x)
<1>1. parent' = UniteIn(parent, a, b)
    BY PathIsPathIn DEF Union, Unite, UniteIn
<1>2. parent \in [Buyers -> Buyers] /\ Rooted(parent)
    BY DEF ForestInv, ClusterTypeOK
<1>3. /\ parent' \in [Buyers -> Buyers] /\ Rooted(parent')
      /\ \A x \in Buyers : RootIn(parent', x) = 
            IF RootIn(parent, x) = RootIn(parent, b) THEN RootIn(parent, a) ELSE RootIn(parent, x)
    BY <1>1, <1>2, UniteRoots
<1>4. \A x : Root(x)' = RootIn(parent', x)
    BY DEF Root, Path, RootIn, PathIn, Upward
<1> QED
    BY <1>3, <1>4, PathIsPathIn

\* The other steps leave every root where it is, the grouping's finds included.
LEMMA OtherRoots ==
    ASSUME ForestInv, [Next]_vars, ~\E a, b \in Buyers : Union(a, b)
    PROVE  /\ parent' \in [Buyers -> Buyers] /\ Rooted(parent')
           /\ \A x \in Buyers : Root(x)' = Root(x)
           /\ parent' = parent \/ BuyersDone
<1>1. parent \in [Buyers -> Buyers] /\ Rooted(parent)
    BY DEF ForestInv, ClusterTypeOK
<1>2. \A x : Root(x)' = RootIn(parent', x)
    BY DEF Root, Path, RootIn, PathIn, Upward
<1>3. parent' = parent \/ BuyersDone
    BY DEF Next, OwnersDone, Explain, ExplainDone, Done, vars
<1>4. CASE parent' = parent
    BY <1>1, <1>2, <1>4, PathIsPathIn
<1>5. CASE BuyersDone
    <2>1. parent' = [x \in Buyers |-> RootIn(parent, x)]
        BY <1>5, PathIsPathIn DEF BuyersDone
    <2>2. \A x \in Buyers : RootIn(parent, x) \in Buyers /\ RootIn(parent, RootIn(parent, x)) = RootIn(parent, x)
        BY <1>1, OneRoot, SameRoot
    <2>3. parent' \in [Buyers -> Buyers] /\ \A x \in Buyers : parent'[parent'[x]] = parent'[x]
        BY <2>1, <2>2
    <2>4. Rooted(parent') /\ \A x \in Buyers : RootIn(parent', x) = parent'[x]
        BY <2>3, FlatForest
    <2> QED
        BY <1>2, <1>5, <2>1, <2>3, <2>4, PathIsPathIn
<1> QED
    BY <1>3, <1>4, <1>5

LEMMA ForestNext == ForestInv /\ [Next]_vars => ForestInv'
<1> SUFFICES ASSUME ForestInv, [Next]_vars PROVE ForestInv'
    OBVIOUS
<1>1. parent' \in [Buyers -> Buyers] /\ Rooted(parent')
    <2>1. CASE \E a, b \in Buyers : Union(a, b)
        BY <2>1, UnionRoots
    <2>2. CASE ~\E a, b \in Buyers : Union(a, b)
        BY <2>2, OtherRoots
    <2> QED
        BY <2>1, <2>2
<1>2. funders' = funders
    BY DEF Next, Union, OwnersDone, BuyersDone, Explain, ExplainDone, Done, vars
<1>3. phase' \in {"owners", "buyers", "explain", "done"}
    BY DEF ForestInv, ClusterTypeOK, Next, Union, OwnersDone, BuyersDone, Explain, ExplainDone, Done, vars
<1>4. pending' \subseteq pending \cup BuyerUnions
    BY DEF Next, Union, OwnersDone, BuyersDone, Explain, ExplainDone, Done, vars
<1>5. PendingLinked'
    BY <1>2, <1>4, UnionsLinked DEF PendingLinked, ForestInv
<1> QED
    BY <1>1, <1>2, <1>3, <1>5 DEF ForestInv, ClusterTypeOK

\* find ends from every buyer, on one root, whatever has been united and
\* compressed so far.
THEOREM FindTerminates == Spec => []Forest
<1>1. ForestInv => Forest
    <2> SUFFICES ASSUME ForestInv, NEW x \in Buyers
                 PROVE  Cardinality({r \in Path(x) : parent[r] = r}) = 1
        BY DEF Forest, ForestInv, ClusterTypeOK
    <2>1. parent \in [Buyers -> Buyers] /\ Rooted(parent)
        BY DEF ForestInv, ClusterTypeOK
    <2>2. {r \in PathIn(parent, x) : parent[r] = r} = {RootIn(parent, x)}
        BY <2>1, OneRoot
    <2> QED
        BY <2>2, PathIsPathIn, FS_Singleton
<1> QED
    BY <1>1, InitForest, ForestNext, PTL DEF Spec

\* Step by step, the union-find merges the groups of two linked buyers, and does
\* nothing else to the groups.
THEOREM ClusterIsPartition == Spec => ImplementsPartition
<1>1. Init => Abstract!Init
    BY InitForest DEF Abstract!Init
<1>2. ForestInv /\ [Next]_vars => [Abstract!Next]_(Abstract!vars)
    <2> SUFFICES ASSUME ForestInv, [Next]_vars PROVE [Abstract!Next]_(Abstract!vars)
        OBVIOUS
    <2>1. funders' = funders
        BY DEF Next, Union, OwnersDone, BuyersDone, Explain, ExplainDone, Done, vars
    <2>2. ASSUME NEW a \in Buyers, NEW b \in Buyers, Union(a, b) PROVE Abstract!Next
        <3>1. Linked(funders, a, b)
            BY <2>2 DEF ForestInv, PendingLinked, Union
        <3>2. \A x \in Buyers : Root(x)' = IF Root(x) = Root(b) THEN Root(a) ELSE Root(x)
            BY <2>2, UnionRoots
        <3>3. Abstract!Merge(a, b)
            BY <2>1, <3>1, <3>2 DEF Abstract!Merge, Abstract!Linked, Linked
        <3> QED
            BY <3>3 DEF Abstract!Next
    <2>3. CASE ~\E a, b \in Buyers : Union(a, b)
        <3>1. \A x \in Buyers : Root(x)' = Root(x)
            BY <2>3, OtherRoots
        <3> QED
            BY <2>1, <3>1 DEF Abstract!vars
    <2> QED
        BY <2>2, <2>3
<1> QED
    BY <1>1, <1>2, InitForest, ForestNext, PTL DEF Spec, ImplementsPartition, Abstract!Spec

-----------------------------------------------------------------------------
(***************************************************************************)
(* The groups.  Nothing but connected buyers ever has one root, and a      *)
(* union is either still to do or its two buyers have one root for good;   *)
(* so when both passes are over the groups cannot be told from the         *)
(* components.                                                             *)
(***************************************************************************)

OnlyConnected == \A x, y \in Buyers : Root(x) = Root(y) => Connected(Buyers, funders, x, y)

NoUnionLost ==
    /\ \A e \in OwnerUnions : (phase = "owners" /\ e \in pending) \/ Root(e[1]) = Root(e[2])
    /\ \A e \in BuyerUnions : phase = "owners" \/ e \in pending \/ Root(e[1]) = Root(e[2])
    /\ phase \in {"explain", "done"} => pending = {}

GroupsInv == ForestInv /\ OnlyConnected /\ NoUnionLost

LEMMA LinkedIsConnected ==
    ASSUME NEW x \in Buyers, NEW y \in Buyers, Linked(funders, x, y)
    PROVE  Connected(Buyers, funders, x, y)
BY DEF Connected, Closed

LEMMA InitGroups == Init => GroupsInv
<1> SUFFICES ASSUME Init PROVE GroupsInv
    OBVIOUS
<1>1. OnlyConnected
    BY InitForest, ConnectedReflexive DEF OnlyConnected
<1>2. NoUnionLost
    BY DEF Init, NoUnionLost
<1> QED
    BY <1>1, <1>2, InitForest DEF GroupsInv

\* What is owed to the funders does not change: they are read only.
LEMMA FundersFixed ==
    ASSUME [Next]_vars
    PROVE  /\ funders' = funders /\ OwnerUnions' = OwnerUnions /\ BuyerUnions' = BuyerUnions
           /\ \A f : Owners(f)' = Owners(f)
<1>1. funders' = funders
    BY DEF Next, Union, OwnersDone, BuyersDone, Explain, ExplainDone, Done, vars
<1> QED
    BY <1>1 DEF OwnerUnions, BuyerUnions, Owners

LEMMA UnionKeepsGroups ==
    ASSUME GroupsInv, NEW a \in Buyers, NEW b \in Buyers, Union(a, b)
    PROVE  OnlyConnected' /\ NoUnionLost'
<1>1. \A x \in Buyers : Root(x)' = IF Root(x) = Root(b) THEN Root(a) ELSE Root(x)
    BY UnionRoots DEF GroupsInv
<1>2. /\ funders' = funders /\ OwnerUnions' = OwnerUnions /\ BuyerUnions' = BuyerUnions
      /\ phase' = phase /\ pending' = pending \ {<<a, b>>} /\ <<a, b>> \in pending
    BY FundersFixed DEF Next, Union
<1>3. Connected(Buyers, funders, a, b) /\ Connected(Buyers, funders, b, a)
    <2>1. Linked(funders, a, b)
        BY <1>2 DEF GroupsInv, ForestInv, PendingLinked
    <2> QED
        BY <2>1, LinkedIsConnected, ConnectedSymmetric
\* Whoever comes under the root of a is connected to a.
<1>4. ASSUME NEW x \in Buyers, NEW y \in Buyers, Root(x)' = Root(y)'
      PROVE  Connected(Buyers, funders, x, y)
    <2>1. \A z \in Buyers : Root(z) = Root(a) \/ Root(z) = Root(b) =>
              Connected(Buyers, funders, z, a) /\ Connected(Buyers, funders, a, z)
        BY <1>3, ConnectedTransitive, ConnectedSymmetric DEF GroupsInv, OnlyConnected
    <2>2. CASE Root(x) = Root(y)
        BY <2>2 DEF GroupsInv, OnlyConnected
    <2>3. CASE Root(x) # Root(y)
        <3>1. (Root(x) = Root(a) \/ Root(x) = Root(b)) /\ (Root(y) = Root(a) \/ Root(y) = Root(b))
            BY <1>1, <1>4, <2>3
        <3> QED
            BY <2>1, <3>1, ConnectedTransitive
    <2> QED
        BY <2>2, <2>3
<1>5. OnlyConnected'
    BY <1>2, <1>4 DEF OnlyConnected
\* A pair with one root keeps having one; the pair just done gets one.
<1>6. \A e \in Buyers \X Buyers : Root(e[1]) = Root(e[2]) => Root(e[1])' = Root(e[2])'
    BY <1>1
<1>7. Root(a)' = Root(b)'
    BY <1>1
<1>8. \A e \in OwnerUnions \cup BuyerUnions : e \in Buyers \X Buyers
    BY UnionsLinked
<1>9. ASSUME NEW e \in OwnerUnions
      PROVE  (phase' = "owners" /\ e \in pending') \/ Root(e[1])' = Root(e[2])'
    <2>1. CASE e = <<a, b>>
        BY <1>7, <2>1
    <2>2. CASE e # <<a, b>>
        BY <1>2, <1>6, <1>8, <2>2 DEF GroupsInv, NoUnionLost
    <2> QED
        BY <2>1, <2>2
<1>10. ASSUME NEW e \in BuyerUnions
       PROVE  phase' = "owners" \/ e \in pending' \/ Root(e[1])' = Root(e[2])'
    <2>1. CASE e = <<a, b>>
        BY <1>7, <2>1
    <2>2. CASE e # <<a, b>>
        BY <1>2, <1>6, <1>8, <2>2 DEF GroupsInv, NoUnionLost
    <2> QED
        BY <2>1, <2>2
<1>11. phase' \in {"explain", "done"} => pending' = {}
    BY <1>2 DEF GroupsInv, NoUnionLost
<1>12. NoUnionLost'
    BY <1>2, <1>9, <1>10, <1>11 DEF NoUnionLost
<1> QED
    BY <1>5, <1>12

LEMMA GroupsNext == GroupsInv /\ [Next]_vars => GroupsInv'
<1> SUFFICES ASSUME GroupsInv, [Next]_vars PROVE GroupsInv'
    OBVIOUS
<1>1. ForestInv'
    BY ForestNext DEF GroupsInv
<1>2. CASE \E a, b \in Buyers : Union(a, b)
    BY <1>1, <1>2, UnionKeepsGroups DEF GroupsInv
<1>3. CASE ~\E a, b \in Buyers : Union(a, b)
    <2>1. /\ \A x \in Buyers : Root(x)' = Root(x)
          /\ funders' = funders /\ OwnerUnions' = OwnerUnions /\ BuyerUnions' = BuyerUnions
        BY <1>3, OtherRoots, FundersFixed DEF GroupsInv
    <2>2. OnlyConnected'
        BY <2>1 DEF GroupsInv, OnlyConnected
    <2>3. \A e \in OwnerUnions \cup BuyerUnions : e[1] \in Buyers /\ e[2] \in Buyers
        BY UnionsLinked
    <2>4. \A e \in OwnerUnions \cup BuyerUnions : 
              Root(e[1]) = Root(e[2]) => Root(e[1])' = Root(e[2])'
        BY <2>1, <2>3
    <2>5. NoUnionLost'
        <3>1. CASE OwnersDone
            BY <2>1, <2>4, <3>1 DEF OwnersDone, GroupsInv, NoUnionLost
        <3>2. CASE BuyersDone
            BY <2>1, <2>4, <3>2 DEF BuyersDone, GroupsInv, NoUnionLost
        <3>3. CASE ExplainDone
            BY <2>1, <2>4, <3>3 DEF ExplainDone, GroupsInv, NoUnionLost
        <3>4. CASE phase' = phase /\ pending' = pending
            BY <2>1, <2>4, <3>4 DEF GroupsInv, NoUnionLost
        <3>5. OwnersDone \/ BuyersDone \/ ExplainDone \/ (phase' = phase /\ pending' = pending)
            BY <1>3 DEF Next, Explain, Done, vars
        <3> QED
            BY <3>1, <3>2, <3>3, <3>4, <3>5
    <2> QED
        BY <1>1, <2>2, <2>5 DEF GroupsInv
<1> QED
    BY <1>2, <1>3

\* When every link has been followed, the buyers under one root are a component.
LEMMA GroupIsComponent ==
    ASSUME GroupsInv, phase \in {"explain", "done"}, NEW x \in Buyers
    PROVE  {y \in Buyers : Root(y) = Root(x)} = Component(Buyers, funders, x)
<1> DEFINE G == {y \in Buyers : Root(y) = Root(x)}
<1>1. \A e \in OwnerUnions \cup BuyerUnions : Root(e[1]) = Root(e[2])
    BY DEF GroupsInv, NoUnionLost
<1>2. ASSUME NEW f \in Addresses, NEW u \in Owners(f) PROVE Root(u) = Root(FirstOf(Owners(f)))
    BY <1>1, <1>2, OwnerPairs
<1>3. ASSUME NEW u \in Buyers, NEW v \in Buyers, v \in funders[u] PROVE Root(u) = Root(v)
    <2>1. CASE u = v
        BY <2>1
    <2>2. CASE u # v
        <3>1. <<u, v>> \in BuyerUnions
            BY <1>3, <2>2 DEF BuyerUnions
        <3> QED
            BY <1>1, <3>1
    <2> QED
        BY <2>1, <2>2
<1>4. ASSUME NEW u \in Buyers, NEW v \in Buyers, Linked(funders, u, v) PROVE Root(u) = Root(v)
    <2>1. CASE funders[u] \cap funders[v] # {}
        <3>1. PICK f \in funders[u] : f \in funders[v]
            BY <2>1
        <3>2. f \in Addresses /\ u \in Owners(f) /\ v \in Owners(f)
            BY <3>1 DEF GroupsInv, ForestInv, ClusterTypeOK, Owners
        <3> QED
            BY <1>2, <3>2
    <2>2. CASE u \in funders[v] \/ v \in funders[u]
        BY <1>3, <2>2
    <2> QED
        BY <1>4, <2>1, <2>2 DEF Linked
<1>5. Closed(Buyers, funders, G)
    BY <1>4 DEF Closed
<1>6. x \in G /\ G \in SUBSET Buyers
    OBVIOUS
<1>7. Component(Buyers, funders, x) \subseteq G
    <2> HIDE DEF G
    <2> QED
        BY <1>5, <1>6 DEF Component, Connected
<1>8. G \subseteq Component(Buyers, funders, x)
    BY DEF GroupsInv, OnlyConnected, Component
<1> QED
    BY <1>7, <1>8

\* The groups are the connected components of the funding links, in whatever
\* order the two maps were walked.
THEOREM ClusterFindsComponents == Spec => []GroupsAreComponents
<1>1. GroupsInv => GroupsAreComponents
    BY GroupIsComponent DEF GroupsAreComponents, Groups, Components
<1> QED
    BY <1>1, InitGroups, GroupsNext, PTL DEF Spec

-----------------------------------------------------------------------------
(***************************************************************************)
(* The reasons.  A group of several buyers is a component, and a component *)
(* of several buyers in which no two name one funder has a member whose    *)
(* funder is a member: the second search always finds somebody.            *)
(***************************************************************************)

ReasonsTrue ==
    /\ \A e \in sharedFunder :
          \E f \in Addresses : e = <<e[1], f>> /\ Cardinality(Owners(f) \cap e[1]) >= 2
    /\ \A e \in viaBuyer : \E j, b \in e[1] : e = <<e[1], j>> /\ j \in funders[b]

AllExplained == phase = "done" => \A group \in Groups : Cardinality(group) > 1 => Explained(group)

ExplainInv == GroupsInv /\ ReasonsTrue /\ AllExplained

\* Two owners in a group are enough: the funder is found by the first search.
LEMMA TwoOwners ==
    ASSUME NEW f, NEW G \in SUBSET Buyers, NEW x \in Owners(f) \cap G, NEW y \in Owners(f) \cap G, x # y
    PROVE  Cardinality(Owners(f) \cap G) >= 2
<1>1. IsFiniteSet(Owners(f) \cap G)
    BY BuyersAssumption, FS_Subset
<1> QED
    BY <1>1, TwoElements

\* If the first search finds no funder, the second finds a member.
LEMMA ViaFinds ==
    ASSUME GroupsInv, phase = "explain", NEW group \in Groups, Cardinality(group) > 1,
           SharedIn(group) = {}
    PROVE  \A j \in Via(group) : j \in group /\ \E b \in group : j \in funders[b]
<1>1. PICK x \in Buyers : group = {y \in Buyers : Root(y) = Root(x)}
    BY DEF Groups
<1>2. group = Component(Buyers, funders, x) /\ x \in group /\ group \in SUBSET Buyers
    BY <1>1, GroupIsComponent
<1> DEFINE funded == {b \in group : MemberFunders(group, b) # {}}
<1>3. funded # {}
    <2> SUFFICES ASSUME funded = {} PROVE FALSE
        OBVIOUS
    <2>1. ASSUME NEW y \in Buyers, Linked(funders, x, y) PROVE y = x
        <3>1. y \in group
            BY <1>2, <2>1, LinkedIsConnected DEF Component
        <3>2. ASSUME NEW f \in funders[x], f \in funders[y], y # x PROVE FALSE
            <4>1. f \in Addresses
                BY <3>2 DEF GroupsInv, ForestInv, ClusterTypeOK
            <4>2. x \in Owners(f) \cap group /\ y \in Owners(f) \cap group
                BY <1>2, <3>1, <3>2 DEF Owners
            <4>3. Cardinality(Owners(f) \cap group) >= 2
                BY <1>2, <3>2, <4>2, TwoOwners
            <4> QED
                BY <4>1, <4>3 DEF SharedIn
        <3>3. x \notin funders[y] /\ y \notin funders[x]
            BY <1>2, <3>1 DEF MemberFunders
        <3> QED
            BY <2>1, <3>2, <3>3 DEF Linked
    <2>2. Closed(Buyers, funders, {x})
        BY <2>1 DEF Closed
    <2>3. group \subseteq {x}
        BY <1>2, <2>2 DEF Component, Connected
    <2>4. group = {x}
        BY <1>2, <2>3
    <2> QED
        BY <2>4, FS_Singleton
<1>4. FirstOf(funded) \in funded
    BY <1>2, <1>3, FirstExists
<1> QED
    BY <1>3, <1>4 DEF Via, MemberFunders

LEMMA InitExplain == Init => ExplainInv
BY InitGroups DEF Init, ExplainInv, ReasonsTrue, AllExplained

LEMMA ReasonsNext ==
    ASSUME ExplainInv, [Next]_vars
    PROVE  ReasonsTrue'
<1>1. funders' = funders /\ \A f : Owners(f)' = Owners(f)
    BY FundersFixed
<1>2. ASSUME NEW group \in Groups, Explain(group) PROVE ReasonsTrue'
    <2>1. CASE SharedIn(group) # {}
        <3>1. PICK f \in SharedIn(group) : sharedFunder' = sharedFunder \cup {<<group, f>>}
            BY <1>2, <2>1 DEF Explain
        <3>2. viaBuyer' = viaBuyer
            BY <1>2, <2>1 DEF Explain
        <3>3. f \in Addresses /\ Cardinality(Owners(f) \cap group) >= 2
            BY <3>1 DEF SharedIn
        <3>4. ASSUME NEW e \in sharedFunder'
              PROVE  \E g \in Addresses : e = <<e[1], g>> /\ Cardinality(Owners(g) \cap e[1]) >= 2
            <4>1. CASE e \in sharedFunder
                BY <4>1 DEF ExplainInv, ReasonsTrue
            <4>2. CASE e = <<group, f>>
                BY <3>3, <4>2
            <4> QED
                BY <3>1, <4>1, <4>2
        <3> QED
            BY <1>1, <3>2, <3>4 DEF ExplainInv, ReasonsTrue
    <2>2. CASE SharedIn(group) = {}
        <3>1. PICK j \in Via(group) : viaBuyer' = viaBuyer \cup {<<group, j>>}
            BY <1>2, <2>2 DEF Explain
        <3>2. sharedFunder' = sharedFunder
            BY <1>2, <2>2 DEF Explain
        <3>3. j \in group /\ \E b \in group : j \in funders[b]
            BY <1>2, <2>2, <3>1, ViaFinds DEF Explain, ExplainInv
        <3>4. ASSUME NEW e \in viaBuyer' PROVE \E i, b \in e[1] : e = <<e[1], i>> /\ i \in funders[b]
            <4>1. CASE e \in viaBuyer
                BY <4>1 DEF ExplainInv, ReasonsTrue
            <4>2. CASE e = <<group, j>>
                BY <3>3, <4>2
            <4> QED
                BY <3>1, <4>1, <4>2
        <3> QED
            BY <1>1, <3>2, <3>4 DEF ExplainInv, ReasonsTrue
    <2> QED
        BY <2>1, <2>2
<1>3. CASE UNCHANGED <<sharedFunder, viaBuyer>>
    BY <1>1, <1>3 DEF ExplainInv, ReasonsTrue
<1>4. (\E group \in Groups : Explain(group)) \/ UNCHANGED <<sharedFunder, viaBuyer>>
    BY DEF Next, Union, OwnersDone, BuyersDone, ExplainDone, Done, vars
<1> QED
    BY <1>2, <1>3, <1>4

\* The search ends when every group has its reason, and nothing moves after it.
LEMMA AllExplainedNext ==
    ASSUME ExplainInv, [Next]_vars
    PROVE  AllExplained'
<1> SUFFICES ASSUME phase' = "done"
             PROVE  (\A group \in Groups : Cardinality(group) > 1 => Explained(group))'
    BY DEF AllExplained
<1>1. ExplainDone \/ (phase = "done" /\ UNCHANGED vars)
    <2>1. pending = {} \/ phase # "done"
        BY DEF ExplainInv, GroupsInv, NoUnionLost
    <2> QED
        BY <2>1 DEF Next, Union, OwnersDone, BuyersDone, Explain, ExplainDone, Done, vars
<1>2. UNCHANGED <<parent, sharedFunder, viaBuyer>>
    BY <1>1 DEF ExplainDone, vars
<1>3. \A group \in Groups : Cardinality(group) > 1 => Explained(group)
    BY <1>1 DEF ExplainDone, ExplainInv, AllExplained
<1>4. Groups' = Groups /\ \A group : Explained(group)' = Explained(group)
    BY <1>2 DEF Groups, Root, Path, Explained
<1> QED
    BY <1>3, <1>4

\* Every collapse of several buyers, none of which lists itself as its funder,
\* has its reason on record: a funder that two of them name, or one of them that
\* another names.
THEOREM CollapsesExplained == Spec => []ExplainedUnlessSelfFunded
<1>1. ExplainInv => ExplainedUnlessSelfFunded
    <2> SUFFICES ASSUME ExplainInv, phase = "done", NEW group \in Collapsed,
                        \A b \in group : b \notin funders[b]
                 PROVE  TrulyExplained(group)
        BY DEF ExplainedUnlessSelfFunded
    <2>1. PICK e \in sharedFunder \cup viaBuyer : e[1] = group
        BY DEF ExplainInv, AllExplained, Explained, Collapsed
    <2>2. CASE e \in sharedFunder
        BY <2>1, <2>2 DEF ExplainInv, ReasonsTrue, TrulyExplained
    <2>3. CASE e \in viaBuyer
        <3>1. PICK j \in group, b \in group : e = <<group, j>> /\ j \in funders[b]
            BY <2>1, <2>3 DEF ExplainInv, ReasonsTrue
        <3>2. b \in group \ {j}
            BY <3>1
        <3> QED
            BY <2>3, <3>1, <3>2 DEF TrulyExplained
    <2> QED
        BY <2>1, <2>2, <2>3
<1>2. ExplainInv /\ [Next]_vars => ExplainInv'
    BY GroupsNext, ReasonsNext, AllExplainedNext DEF ExplainInv
<1> QED
    BY <1>1, <1>2, InitExplain, PTL DEF Spec

-----------------------------------------------------------------------------
(***************************************************************************)
(* The census.  What it counts does not change while the groups form, so   *)
(* all but the last of these facts are about the funders alone.            *)
(***************************************************************************)

CensusTypeOK == funders \in [Buyers -> SUBSET Addresses]

SharedOnes == {a \in Named : counts[a] > 1}

LEMMA CountsAreCounts ==
    ASSUME CensusTypeOK
    PROVE  /\ IsFiniteSet(Named) /\ Named \subseteq Nat
           /\ \A a \in Named : counts[a] = Cardinality(Owners(a)) /\ IsFiniteSet(Owners(a)) 
                                 /\ counts[a] \in Nat /\ Owners(a) \in SUBSET Buyers
<1>1. IsFiniteSet(Addresses) /\ Addresses \subseteq Nat
    BY BuyersAssumption, OrderAssumption, FS_Union DEF Addresses
<1>2. IsFiniteSet(Named) /\ Named \subseteq Nat
    BY <1>1, FS_Subset DEF Named
<1>3. ASSUME NEW a \in Named PROVE /\ IsFiniteSet(Owners(a)) /\ Cardinality(Owners(a)) \in Nat
                                   /\ Owners(a) \in SUBSET Buyers
    <2>1. Owners(a) \in SUBSET Buyers
        BY DEF Owners
    <2> QED
        BY <2>1, BuyersAssumption, FS_Subset, FS_CardinalityType
<1> QED
    BY <1>2, <1>3 DEF counts

Listing == {e \in Named \X Named : CountedBefore(e[1], e[2])}

LEMMA ListingOrders ==
    ASSUME CensusTypeOK
    PROVE  /\ StrictOrder(Listing, Named)
           /\ \A a \in Named : Preceding(Listing, Named, a) = {b \in Named : CountedBefore(b, a)}
<1>1. \A a \in Named : a \in Nat /\ counts[a] \in Nat
    BY CountsAreCounts
<1>2. \A a, b \in Named : <<a, b>> \in Listing <=> CountedBefore(a, b)
    BY DEF Listing
<1>3. \A a \in Named : ~CountedBefore(a, a)
    BY <1>1 DEF CountedBefore
<1>4. \A a, b, c \in Named : CountedBefore(a, b) /\ CountedBefore(b, c) => CountedBefore(a, c)
    BY <1>1 DEF CountedBefore
<1>5. \A a, b \in Named : a # b => CountedBefore(a, b) \/ CountedBefore(b, a)
    BY <1>1 DEF CountedBefore
<1>6. \A a \in Named : Preceding(Listing, Named, a) = {b \in Named : CountedBefore(b, a)}
    BY <1>2 DEF Preceding
<1> QED
    BY <1>2, <1>3, <1>4, <1>5, <1>6 DEF StrictOrder

\* Each funder stands in the list behind as many as come before it.
LEMMA ListPlaces ==
    ASSUME CensusTypeOK
    PROVE  /\ TopFunders \in [1..Cardinality(Named) -> Named]
           /\ \A a \in Named : \E i \in 1..Cardinality(Named) : TopFunders[i] = a
           /\ \A i, h \in 1..Cardinality(Named) : h < i => CountedBefore(TopFunders[h], TopFunders[i])
<1> DEFINE n == Cardinality(Named)
           place(a) == Cardinality(Preceding(Listing, Named, a))
<1>1. n \in Nat /\ IsFiniteSet(Named)
    BY CountsAreCounts, FS_CardinalityType
<1>2. Placed(Listing, Named)
    BY <1>1, ListingOrders, OrderPlaces
<1>3. \A i \in 1..n : TopFunders[i] = CHOOSE a \in Named : place(a) = i - 1
    BY ListingOrders DEF TopFunders
<1>4. ASSUME NEW i \in 1..n PROVE TopFunders[i] \in Named /\ place(TopFunders[i]) = i - 1
    <2>1. \E a \in Named : place(a) = i - 1
        BY <1>2 DEF Placed
    <2> QED
        BY <1>3, <2>1
<1>5. ASSUME NEW a \in Named PROVE \E i \in 1..n : TopFunders[i] = a
    <2>1. place(a) \in 0..(n - 1)
        BY <1>2 DEF Placed
    <2>2. PICK i \in 1..n : i = place(a) + 1
        BY <1>1, <2>1
    <2>3. TopFunders[i] \in Named /\ place(TopFunders[i]) = place(a)
        BY <1>4, <2>1, <2>2
    <2> QED
        BY <1>2, <2>3 DEF Placed
<1>6. ASSUME NEW i \in 1..n, NEW h \in 1..n, h < i PROVE CountedBefore(TopFunders[h], TopFunders[i])
    <2>1. place(TopFunders[h]) < place(TopFunders[i])
        BY <1>4, <1>6
    <2>2. <<TopFunders[h], TopFunders[i]>> \in Listing
        BY <1>2, <1>4, <2>1 DEF Placed
    <2> QED
        BY <2>2 DEF Listing
<1>7. TopFunders = [i \in 1..n |-> TopFunders[i]]
    <2> DEFINE InPlace(i) == CHOOSE a \in Named : Cardinality({b \in Named : CountedBefore(b, a)}) = i - 1
    <2>1. TopFunders = [i \in 1..n |-> InPlace(i)]
        BY DEF TopFunders
    <2> HIDE DEF InPlace
    <2> QED
        BY <2>1
<1>8. TopFunders \in [1..n -> Named]
    BY <1>4, <1>7
<1> QED
    BY <1>5, <1>6, <1>8

\* The sum stops at the first funder of one wallet, and misses none of more.
LEMMA HeadlineReadsAllShared ==
    ASSUME CensusTypeOK
    PROVE  Headlined = SharedOnes
<1> DEFINE n == Cardinality(Named)
           read == {j \in 1..n : \A h \in 1..j : counts[TopFunders[h]] > 1}
<1>1. Headlined = {TopFunders[i] : i \in read}
    BY DEF Headlined, TopFunders
<1>2. n \in Nat
    BY CountsAreCounts, FS_CardinalityType
<1>3. ASSUME NEW i \in read PROVE TopFunders[i] \in SharedOnes
    <2>1. i \in 1..i /\ TopFunders[i] \in Named
        BY <1>2, ListPlaces
    <2> QED
        BY <2>1 DEF SharedOnes
<1>4. ASSUME NEW a \in SharedOnes PROVE \E i \in read : TopFunders[i] = a
    <2>1. PICK i \in 1..n : TopFunders[i] = a
        BY ListPlaces DEF SharedOnes
    <2>2. ASSUME NEW h \in 1..i PROVE counts[TopFunders[h]] > 1
        <3>1. h \in 1..n /\ (h = i \/ h < i)
            BY <1>2
        <3>2. CASE h = i
            BY <2>1, <3>2 DEF SharedOnes
        <3>3. CASE h < i
            <4>1. CountedBefore(TopFunders[h], a) /\ TopFunders[h] \in Named /\ a \in Named
                BY <2>1, <3>1, <3>3, ListPlaces
            <4>2. counts[TopFunders[h]] \in Nat /\ counts[a] \in Nat /\ counts[a] > 1
                BY <4>1, CountsAreCounts DEF SharedOnes
            <4> QED
                BY <4>1, <4>2 DEF CountedBefore
        <3> QED
            BY <3>1, <3>2, <3>3
    <2> QED
        BY <2>1, <2>2
<1> QED
    BY <1>1, <1>3, <1>4

SharedOwners == [a \in SharedOnes |-> Owners(a)]

LEMMA TracedCounts ==
    ASSUME CensusTypeOK
    PROVE  /\ IsFiniteSet(SharedOnes) /\ SharedFunders = Cardinality(SharedOnes) 
           /\ Traced = SumOf(counts, SharedOnes)
           /\ Traced \in Int /\ SharedFunders \in Nat
           /\ IsFiniteSet(Together(SharedOwners, SharedOnes))
           /\ Cardinality(Together(SharedOwners, SharedOnes)) <= Traced
           /\ Disjoint(SharedOwners, SharedOnes) => Cardinality(Together(SharedOwners, SharedOnes)) = Traced
<1>1. IsFiniteSet(SharedOnes) /\ SharedOnes \subseteq Named
    BY CountsAreCounts, FS_Subset DEF SharedOnes
<1>2. Traced = SumOf(counts, SharedOnes)
    BY HeadlineReadsAllShared DEF Traced, SumOf
<1>3. \A a \in SharedOnes : IsFiniteSet(SharedOwners[a]) /\ counts[a] = Cardinality(SharedOwners[a])
    BY <1>1, CountsAreCounts DEF SharedOwners
<1>4. SumOf(counts, SharedOnes) \in Int
    BY <1>1, CountsAreCounts, SumLaws
<1>5. SharedFunders = Cardinality(SharedOnes) /\ Cardinality(SharedOnes) \in Nat
    BY <1>1, FS_CardinalityType DEF SharedFunders, SharedOnes
<1> QED
    BY <1>1, <1>2, <1>3, <1>4, <1>5, UnionCounts

\* A wallet names a shared funder just if it is among those counted for one.
LEMMA TracedAreOwners ==
    ASSUME CensusTypeOK
    PROVE  {b \in Buyers : NamesSharedFunder(b)} = Together(SharedOwners, SharedOnes)
<1>1. ASSUME NEW b \in Buyers, NamesSharedFunder(b) PROVE b \in Together(SharedOwners, SharedOnes)
    <2>1. PICK a \in funders[b], c \in Buyers \ {b} : a \in funders[c]
        BY <1>1 DEF NamesSharedFunder
    <2>2. a \in Addresses /\ b \in Owners(a) /\ c \in Owners(a) /\ b # c /\ Owners(a) \subseteq Buyers
        BY <1>1, <2>1 DEF CensusTypeOK, Owners
    <2>3. a \in Named
        BY <2>2 DEF Named
    <2>4. Cardinality(Owners(a) \cap Buyers) >= 2
        BY <2>2, TwoOwners
    <2>5. Owners(a) \cap Buyers = Owners(a)
        BY <2>2
    <2>6. counts[a] >= 2 /\ counts[a] \in Nat
        BY <2>3, <2>4, <2>5, CountsAreCounts
    <2>7. a \in SharedOnes
        BY <2>3, <2>6 DEF SharedOnes
    <2> QED
        BY <2>2, <2>7 DEF Together, SharedOwners
<1>2. ASSUME NEW b \in Together(SharedOwners, SharedOnes) PROVE b \in Buyers /\ NamesSharedFunder(b)
    <2>1. PICK a \in SharedOnes : b \in Owners(a)
        BY DEF Together, SharedOwners
    <2>2. a \in Named /\ counts[a] > 1
        BY DEF SharedOnes
    <2>3. Cardinality(Owners(a)) # 1 /\ Owners(a) \subseteq Buyers
        BY <2>2, CountsAreCounts
    <2>4. Owners(a) # {b}
        BY <2>3, FS_Singleton
    <2>5. PICK c \in Owners(a) : c # b
        BY <2>1, <2>4
    <2> QED
        BY <2>1, <2>3, <2>5 DEF Owners, NamesSharedFunder
<1> QED
    BY <1>1, <1>2

\* The headline is right: "N of M" is at least the number of wallets that name a
\* shared funder, and that number if none names two.
THEOREM HeadlineIsRight == Spec => []HeadlineCountsWallets
<1>1. ForestInv => HeadlineCountsWallets
    <2> SUFFICES ASSUME ForestInv PROVE HeadlineCountsWallets
        OBVIOUS
    <2> DEFINE traced == {b \in Buyers : NamesSharedFunder(b)}
    <2>1. CensusTypeOK
        BY DEF ForestInv, ClusterTypeOK, CensusTypeOK
    <2>2. Cardinality(traced) <= Traced /\ (Disjoint(SharedOwners, SharedOnes) => Cardinality(traced) = Traced)
        BY <2>1, TracedAreOwners, TracedCounts
    <2>3. ASSUME \A b \in Buyers : Cardinality(funders[b] \cap Headlined) <= 1
          PROVE  Disjoint(SharedOwners, SharedOnes)
        <3>1. SUFFICES ASSUME NEW a \in SharedOnes, NEW c \in SharedOnes, a # c,
                              NEW b \in Owners(a) \cap Owners(c)
                       PROVE  FALSE
            BY DEF Disjoint, SharedOwners
        <3> DEFINE two == funders[b] \cap Headlined
        <3>2. b \in Buyers /\ a \in two /\ c \in two
            BY <2>1, HeadlineReadsAllShared DEF Owners
        <3>3. IsFiniteSet(two)
            BY <2>1, TracedCounts, HeadlineReadsAllShared, FS_Intersection
        <3>4. Cardinality(two) \in Nat /\ Cardinality(two) >= 2
            BY <3>1, <3>2, <3>3, TwoElements
        <3>5. Cardinality(two) <= 1
            BY <2>3, <3>2
        <3> QED
            BY <3>4, <3>5
    <2>4. Traced \in Int /\ Cardinality(traced) \in Int
        <3>1. IsFiniteSet(traced)
            BY BuyersAssumption, FS_Subset
        <3> QED
            BY <2>1, <3>1, TracedCounts, FS_CardinalityType
    <2> QED
        BY <2>2, <2>3, <2>4 DEF HeadlineCountsWallets
<1> QED
    BY <1>1, InitForest, ForestNext, PTL DEF Spec

-----------------------------------------------------------------------------
(***************************************************************************)
(* The census beside the groups.  Every union takes at most one root away  *)
(* and is used up by it, so no more roots are lost than there were unions. *)
(***************************************************************************)

Roots == {Root(x) : x \in Buyers}

AllUnions == IF phase = "owners" THEN Cardinality(OwnerUnions)
             ELSE Cardinality(OwnerUnions) + Cardinality(BuyerUnions)

RootsAccounted ==
    /\ IsFiniteSet(pending)
    /\ Cardinality(Buyers) + Cardinality(pending) <= Cardinality(Roots) + AllUnions

CensusInv == GroupsInv /\ RootsAccounted

LEMMA UnionsFinite ==
    /\ IsFiniteSet(OwnerUnions) /\ Cardinality(OwnerUnions) \in Nat
    /\ IsFiniteSet(BuyerUnions) /\ Cardinality(BuyerUnions) \in Nat
    /\ IsFiniteSet(Buyers) /\ Cardinality(Buyers) \in Nat
<1>1. IsFiniteSet(Buyers \X Buyers) /\ IsFiniteSet(Buyers)
    BY BuyersAssumption, FS_Product
<1>2. OwnerUnions \subseteq Buyers \X Buyers /\ BuyerUnions \subseteq Buyers \X Buyers
    BY UnionsLinked
<1> QED
    BY <1>1, <1>2, FS_Subset, FS_CardinalityType

LEMMA RootsFinite ==
    ASSUME GroupsInv
    PROVE  IsFiniteSet(Roots) /\ Cardinality(Roots) \in Nat /\ Roots \subseteq Buyers
<1>1. Roots \subseteq Buyers
    BY OneRoot, PathIsPathIn DEF Roots, GroupsInv, ForestInv, ClusterTypeOK
<1> QED
    BY <1>1, BuyersAssumption, FS_Subset, FS_CardinalityType

LEMMA InitCensus == Init => CensusInv
<1> SUFFICES ASSUME Init PROVE RootsAccounted
    BY InitGroups DEF CensusInv
<1>1. Roots = Buyers
    BY InitForest DEF Roots
<1> QED
    BY <1>1, UnionsFinite DEF Init, RootsAccounted, AllUnions

LEMMA AccountedNext ==
    ASSUME CensusInv, GroupsInv', [Next]_vars
    PROVE  RootsAccounted'
<1>1. /\ OwnerUnions' = OwnerUnions /\ BuyerUnions' = BuyerUnions
      /\ IsFiniteSet(Roots) /\ Cardinality(Roots) \in Nat
      /\ IsFiniteSet(Roots') /\ Cardinality(Roots') \in Nat
    <2>1. parent' \in [Buyers -> Buyers] /\ Rooted(parent')
        BY DEF GroupsInv, ForestInv, ClusterTypeOK, Rooted, PathIn, Upward
    <2>2. \A x : Root(x)' = RootIn(parent', x)
        BY DEF Root, Path, RootIn, PathIn, Upward
    <2>3. Roots' \subseteq Buyers
        BY <2>1, <2>2, OneRoot DEF Roots
    <2>4. IsFiniteSet(Roots') /\ Cardinality(Roots') \in Nat
        BY <2>3, BuyersAssumption, FS_Subset, FS_CardinalityType
    <2> QED
        BY <2>4, FundersFixed, RootsFinite DEF CensusInv
<1>2. /\ IsFiniteSet(pending) /\ Cardinality(pending) \in Nat
      /\ Cardinality(Buyers) + Cardinality(pending) <= Cardinality(Roots) + AllUnions
    BY FS_CardinalityType DEF CensusInv, RootsAccounted
<1>3. ASSUME NEW a \in Buyers, NEW b \in Buyers, Union(a, b) PROVE RootsAccounted'
    <2>1. \A x \in Buyers : Root(x)' = IF Root(x) = Root(b) THEN Root(a) ELSE Root(x)
        BY <1>3, UnionRoots DEF CensusInv, GroupsInv
    <2>2. Roots \ {Root(b)} \subseteq Roots'
        BY <2>1 DEF Roots
    <2>3. Cardinality(Roots \ {Root(b)}) = Cardinality(Roots) - 1 /\ IsFiniteSet(Roots \ {Root(b)})
        <3>1. Root(b) \in Roots
            BY DEF Roots
        <3> QED
            BY <1>1, <3>1, FS_RemoveElement
    <2>4. Cardinality(Roots \ {Root(b)}) <= Cardinality(Roots') /\ Cardinality(Roots \ {Root(b)}) \in Nat
        BY <1>1, <2>2, <2>3, FS_Subset, FS_CardinalityType
    <2>5. phase' = phase /\ pending' = pending \ {<<a, b>>} /\ <<a, b>> \in pending
        BY <1>3 DEF Union
    <2>6. IsFiniteSet(pending') /\ Cardinality(pending') = Cardinality(pending) - 1
        BY <1>2, <2>5, FS_RemoveElement
    <2>7. AllUnions' = AllUnions /\ AllUnions \in Nat
        BY <1>1, <2>5, UnionsFinite DEF AllUnions
    <2> QED
        BY <1>1, <1>2, <2>3, <2>4, <2>6, <2>7, UnionsFinite DEF RootsAccounted
<1>4. CASE ~\E a, b \in Buyers : Union(a, b)
    <2>1. \A x \in Buyers : Root(x)' = Root(x)
        BY <1>4, OtherRoots DEF CensusInv, GroupsInv
    <2>2. Roots' = Roots
        BY <2>1 DEF Roots
    <2>3. CASE OwnersDone
        <3>1. pending' = BuyerUnions /\ pending = {} /\ phase = "owners" /\ phase' = "buyers"
            BY <2>3 DEF OwnersDone
        <3>2. AllUnions = Cardinality(OwnerUnions) /\ AllUnions' = Cardinality(OwnerUnions) + Cardinality(BuyerUnions)
            BY <1>1, <3>1 DEF AllUnions
        <3>3. Cardinality(pending) = 0
            BY <3>1, FS_EmptySet
        <3> QED
            BY <1>1, <1>2, <2>2, <3>1, <3>2, <3>3, UnionsFinite DEF RootsAccounted
    <2>4. CASE ~OwnersDone
        <3>1. pending' = pending /\ (phase' = "owners" <=> phase = "owners")
            BY <1>4, <2>4 DEF Next, BuyersDone, Explain, ExplainDone, Done, vars
        <3>2. AllUnions' = AllUnions
            BY <1>1, <3>1 DEF AllUnions
        <3> QED
            BY <1>2, <2>2, <3>1, <3>2 DEF RootsAccounted
    <2> QED
        BY <2>3, <2>4
<1> QED
    BY <1>3, <1>4

LEMMA CensusNext == CensusInv /\ [Next]_vars => CensusInv'
BY GroupsNext, AccountedNext DEF CensusInv

\* Every root stands for a group of its own.
LEMMA RootPerGroup ==
    ASSUME GroupsInv
    PROVE  Cardinality(Roots) <= Cardinality(Groups) /\ Cardinality(Groups) \in Nat
<1> DEFINE Led(r) == {y \in Buyers : Root(y) = r}
           led == [r \in Roots |-> Led(r)]
<1>1. ASSUME NEW r \in Roots PROVE r \in Led(r) /\ Led(r) \in Groups
    <2>1. PICK x \in Buyers : r = Root(x)
        BY DEF Roots
    <2>2. Root(Root(x)) = Root(x) /\ Root(x) \in Buyers
        BY OneRoot, SameRoot, PathIsPathIn DEF GroupsInv, ForestInv, ClusterTypeOK
    <2> QED
        BY <2>1, <2>2 DEF Groups
<1>2. led \in [Roots -> Groups]
    BY <1>1
<1>3. ASSUME NEW r \in Roots, NEW s \in Roots, led[r] = led[s] PROVE r = s
    <2>1. r \in Led(s)
        BY <1>1, <1>3
    <2>2. r \in Led(r)
        BY <1>1
    <2> QED
        BY <2>1, <2>2
<1>4. led \in Injection(Roots, Groups)
    BY <1>2, <1>3 DEF Injection, IsInjective
<1>5. IsFiniteSet(Groups)
    <2>1. Groups \subseteq SUBSET Buyers
        BY DEF Groups
    <2> QED
        BY <2>1, BuyersAssumption, FS_SUBSET, FS_Subset
<1> QED
    BY <1>4, <1>5, FS_Injection, FS_CardinalityType

\* The unions for one funder: one for each owner but the first.
Links(a) == {<<FirstOf(Owners(a)), b>> : b \in Owners(a) \ {FirstOf(Owners(a))}}

LEMMA LinksCount ==
    ASSUME CensusTypeOK, NEW a \in Named
    PROVE  IsFiniteSet(Links(a)) /\ Cardinality(Links(a)) = counts[a] - 1
<1>1. FirstOf(Owners(a)) \in Owners(a) /\ IsFiniteSet(Owners(a)) /\ counts[a] = Cardinality(Owners(a))
    BY CountsAreCounts, FirstExists DEF Named
<1> DEFINE rest == Owners(a) \ {FirstOf(Owners(a))}
           pair == [b \in rest |-> <<FirstOf(Owners(a)), b>>]
<1>2. IsFiniteSet(rest) /\ Cardinality(rest) = counts[a] - 1
    BY <1>1, FS_RemoveElement
<1>3. pair \in Surjection(rest, Links(a))
    BY DEF Surjection, Links
<1>4. pair \in Injection(rest, Links(a))
    BY <1>3 DEF Surjection, Injection, IsInjective
<1> QED
    BY <1>2, <1>3, <1>4, FS_Surjection

LEMMA OwnerUnionsCounted ==
    ASSUME CensusTypeOK
    PROVE  Cardinality(OwnerUnions) <= Traced - SharedFunders
<1> DEFINE links == [a \in SharedOnes |-> Links(a)]
           most == [a \in SharedOnes |-> counts[a] - 1]
<1>1. IsFiniteSet(SharedOnes) /\ SharedOnes \subseteq Named
    BY TracedCounts DEF SharedOnes
<1>2. \A a \in SharedOnes : /\ IsFiniteSet(links[a]) /\ most[a] = Cardinality(links[a])
                            /\ counts[a] \in Int /\ most[a] = counts[a] - 1
    BY <1>1, LinksCount, CountsAreCounts
<1>3. OwnerUnions \subseteq Together(links, SharedOnes)
    <2> SUFFICES ASSUME NEW e \in OwnerUnions PROVE e \in Together(links, SharedOnes)
        OBVIOUS
    <2>1. PICK a \in Addresses : Owners(a) # {} /\ e \in Links(a)
        BY DEF OwnerUnions, Links
    <2>2. a \in Named
        BY <2>1 DEF Named
    <2>3. Cardinality(Links(a)) # 0
        BY <2>1, <2>2, LinksCount, FS_EmptySet
    <2>4. counts[a] \in Nat /\ counts[a] # 1 /\ counts[a] # 0
        BY <2>1, <2>2, <2>3, LinksCount, CountsAreCounts, FS_EmptySet
    <2>5. a \in SharedOnes
        BY <2>2, <2>4 DEF SharedOnes
    <2> QED
        BY <2>1, <2>5 DEF Together
<1>4. IsFiniteSet(Together(links, SharedOnes)) /\ Cardinality(Together(links, SharedOnes)) <= SumOf(most, SharedOnes)
    BY <1>1, <1>2, UnionCounts
<1>5. Cardinality(OwnerUnions) <= Cardinality(Together(links, SharedOnes))
    BY <1>3, <1>4, FS_Subset
<1>6. SumOf(most, SharedOnes) = SumOf(counts, SharedOnes) - Cardinality(SharedOnes)
    BY <1>1, <1>2, SumLess
<1>7. Traced = SumOf(counts, SharedOnes) /\ SharedFunders = Cardinality(SharedOnes)
    BY TracedCounts
<1>8. SumOf(most, SharedOnes) \in Int /\ Cardinality(Together(links, SharedOnes)) \in Nat
    BY <1>1, <1>2, <1>4, SumLaws, FS_CardinalityType
<1> QED
    BY <1>4, <1>5, <1>6, <1>7, <1>8, UnionsFinite

\* The census and the collapse agree: the wallets counted for a funder are in
\* one group, and every collapse is paid for by the funders that are counted.
THEOREM CensusIsRight == Spec => []CensusAgreesWithGroups
<1>1. CensusInv => CensusAgreesWithGroups
    <2> SUFFICES ASSUME CensusInv, phase = "done" PROVE CensusAgreesWithGroups
        BY DEF CensusAgreesWithGroups
    <2>1. CensusTypeOK /\ GroupsInv
        BY DEF CensusInv, GroupsInv, ForestInv, ClusterTypeOK, CensusTypeOK
    <2>2. ASSUME NEW a \in Headlined PROVE \E group \in Groups : Owners(a) \subseteq group
        <3>1. a \in Named
            BY <2>1, HeadlineReadsAllShared DEF SharedOnes
        <3>2. PICK x \in Owners(a) : TRUE
            BY <3>1 DEF Named
        <3>3. ASSUME NEW y \in Owners(a) PROVE y \in Component(Buyers, funders, x)
            <4>1. x \in Buyers /\ y \in Buyers /\ Linked(funders, x, y)
                BY <3>2 DEF Owners, Linked
            <4> QED
                BY <4>1, LinkedIsConnected DEF Component
        <3>4. x \in Buyers /\ {y \in Buyers : Root(y) = Root(x)} = Component(Buyers, funders, x)
            BY <2>1, <3>2, GroupIsComponent DEF Owners
        <3> QED
            BY <3>3, <3>4 DEF Groups
    <2>3. SharedFunders = Cardinality(Headlined)
        BY <2>1, HeadlineReadsAllShared, TracedCounts
    <2>4. Cardinality(Buyers) - Cardinality(Groups) <= (Traced - SharedFunders) + Cardinality(FundedByAnother)
        <3>1. pending = {} /\ Cardinality(pending) = 0
            BY <2>1, FS_EmptySet DEF GroupsInv, NoUnionLost
        <3>2. Cardinality(Buyers) <= Cardinality(Roots) + Cardinality(OwnerUnions) + Cardinality(BuyerUnions)
            BY <2>1, <3>1, UnionsFinite, RootsFinite DEF CensusInv, RootsAccounted, AllUnions
        <3>3. Cardinality(Roots) <= Cardinality(Groups) /\ Cardinality(Groups) \in Nat
            BY <2>1, RootPerGroup
        <3>4. Cardinality(OwnerUnions) <= Traced - SharedFunders
            BY <2>1, OwnerUnionsCounted
        <3>5. FundedByAnother = BuyerUnions
            BY DEF FundedByAnother, BuyerUnions
        <3>6. Traced - SharedFunders \in Int
            BY <2>1, TracedCounts
        <3> QED
            BY <2>1, <3>2, <3>3, <3>4, <3>5, <3>6, UnionsFinite, RootsFinite
    <2> QED
        BY <2>2, <2>3, <2>4 DEF CensusAgreesWithGroups
<1> QED
    BY <1>1, InitCensus, CensusNext, PTL DEF Spec
=============================================================================
