------------------------------ MODULE SetProofs ------------------------------
(***************************************************************************)
(* Facts about finite sets that the proofs of several components rest on:  *)
(* a sum over a set does not depend on the order in which it is folded, an *)
(* order of a finite set gives every element a place of its own,           *)
(* and the groups that funding links make of a set of buyers are those of  *)
(* an equivalence, which funders not looked up can only split.             *)
(***************************************************************************)
EXTENDS FunderGraph, Integers, FiniteSetsExt, FiniteSetTheorems, WellFoundedInduction, TLAPS

\* A set of numbers that has 0 and goes up has them all.
LEMMA CountingUp ==
    ASSUME NEW T, 0 \in T, \A n \in Nat : n \in T => n + 1 \in T
    PROVE  \A n \in Nat : n \in T
<1> SUFFICES ASSUME NEW k \in Nat, k \notin T PROVE FALSE
    OBVIOUS
<1> DEFINE Less == OpToRel(<, Nat)
<1>1. IsWellFoundedOn(Less, Nat)
    BY NatLessThanWellFounded
<1>2. \A x, y \in Nat : <<y, x>> \in Less <=> y < x
    BY DEF OpToRel
<1> HIDE DEF Less
<1>3. PICK x \in Nat \ T : \A y \in Nat \ T : <<y, x>> \notin Less
    BY <1>1, WFMin
<1>4. x # 0 /\ x \in Nat
    BY <1>3
<1>5. x - 1 \in Nat /\ x - 1 < x /\ (x - 1) + 1 = x
    BY <1>4
<1>6. x - 1 \in T
    BY <1>2, <1>3, <1>4, <1>5
<1> QED
    BY <1>3, <1>5, <1>6

\* Two elements are two.
LEMMA TwoElements ==
    ASSUME NEW S, IsFiniteSet(S), NEW x \in S, NEW y \in S, x # y
    PROVE  Cardinality(S) \in Nat /\ Cardinality(S) >= 2
<1>1. IsFiniteSet({x}) /\ Cardinality({x}) = 1 /\ {x, y} = {x} \cup {y} /\ y \notin {x}
    BY FS_Singleton
<1>2. Cardinality({x} \cup {y}) = Cardinality({x}) + 1
    BY <1>1, FS_AddElement
<1>3. Cardinality({x, y}) <= Cardinality(S) /\ Cardinality(S) \in Nat
    BY FS_Subset, FS_CardinalityType
<1> QED
    BY <1>1, <1>2, <1>3

LEMMA DisjointSets ==
    ASSUME NEW A, NEW B, IsFiniteSet(A), IsFiniteSet(B), A \cap B = {}
    PROVE  IsFiniteSet(A \cup B) /\ Cardinality(A \cup B) = Cardinality(A) + Cardinality(B)
<1>1. IsFiniteSet(A \cup B) /\ Cardinality(A \cup B) = Cardinality(A) + Cardinality(B) - Cardinality(A \cap B)
    BY FS_Union
<1>2. Cardinality(A \cap B) = 0 /\ Cardinality(A) \in Nat /\ Cardinality(B) \in Nat
    BY FS_EmptySet, FS_CardinalityType
<1> QED
    BY <1>1, <1>2

-----------------------------------------------------------------------------

\* The sum of a function over a set.
SumOf(f, S) == MapThenSumSet(LAMBDA x : f[x], S)

\* What the fold goes down by.
First(s) == CHOOSE x \in s : TRUE

\* The fold's own equation, at one subset and at all.
Step(g, f, s) == IF s = {} THEN 0 ELSE f[First(s)] + g[s \ {First(s)}]
Folds(g, f, S) == g = [s \in SUBSET S |-> Step(g, f, s)]

LEMMA SumIsFold ==
    ASSUME NEW f, NEW S
    PROVE  SumOf(f, S) = (CHOOSE g : Folds(g, f, S))[S]
BY DEF SumOf, MapThenSumSet, MapThenFoldSet, Folds, First, Step

LEMMA FirstIn ==
    ASSUME NEW S, NEW s \in SUBSET S, s # {}
    PROVE  First(s) \in s /\ First(s) \in S
BY DEF First

\* One less.
LEMMA Smaller ==
    ASSUME NEW S, IsFiniteSet(S), NEW s \in SUBSET S, NEW x \in s
    PROVE  /\ s \ {x} \in SUBSET S
           /\ Cardinality(s) \in Nat
           /\ Cardinality(s \ {x}) \in Nat
           /\ Cardinality(s \ {x}) = Cardinality(s) - 1
<1>1. IsFiniteSet(s) /\ IsFiniteSet(s \ {x})
    BY FS_Subset
<1> QED
    BY <1>1, FS_RemoveElement, FS_CardinalityType

\* The fold of whole numbers exists, and is a whole number.
LEMMA FoldExists ==
    ASSUME NEW S, IsFiniteSet(S), NEW f, \A x \in S : f[x] \in Int
    PROVE  \E g : Folds(g, f, S) /\ g \in [SUBSET S -> Int]
<1> DEFINE Upto(g, n) == \A s \in SUBSET S : Cardinality(s) <= n => g[s] = Step(g, f, s)
           T == {n \in Nat : \E g \in [SUBSET S -> Int] : Upto(g, n)}
<1>1. 0 \in T
    <2> DEFINE g == [s \in SUBSET S |-> 0]
    <2>1. ASSUME NEW s \in SUBSET S, Cardinality(s) <= 0 PROVE s = {}
        BY <2>1, FS_Subset, FS_EmptySet, FS_CardinalityType
    <2>2. g \in [SUBSET S -> Int] /\ Upto(g, 0)
        BY <2>1 DEF Step
    <2> QED
        BY <2>2
<1>2. ASSUME NEW n \in Nat, n \in T PROVE n + 1 \in T
    <2>1. PICK g \in [SUBSET S -> Int] : Upto(g, n)
        BY <1>2
    <2> DEFINE h == [s \in SUBSET S |-> Step(g, f, s)]
    <2>2. ASSUME NEW s \in SUBSET S PROVE Step(g, f, s) \in Int
        BY FirstIn DEF Step
    <2>3. h \in [SUBSET S -> Int]
        BY <2>2
    <2>4. ASSUME NEW s \in SUBSET S, Cardinality(s) <= n + 1 PROVE h[s] = Step(h, f, s)
        <3>1. CASE s = {}
            BY <3>1 DEF Step
        <3>2. CASE s # {}
            <4> DEFINE r == s \ {First(s)}
            <4>1. First(s) \in s
                BY <3>2, FirstIn
            <4>2. r \in SUBSET S /\ Cardinality(r) <= n
                BY <2>4, <4>1, Smaller
            <4>3. g[r] = Step(g, f, r)
                BY <2>1, <4>2
            <4>4. h[r] = g[r]
                BY <4>2, <4>3
            <4> QED
                BY <3>2, <4>4 DEF Step
        <3> QED
            BY <3>1, <3>2
    <2>5. Upto(h, n + 1)
        BY <2>4
    <2> HIDE DEF h, Upto
    <2> QED
        BY <2>3, <2>5
<1>3. Cardinality(S) \in Nat
    BY FS_CardinalityType
<1>4. Cardinality(S) \in T
    <2>1. \A n \in Nat : n \in T => n + 1 \in T
        BY <1>2
    <2> HIDE DEF T
    <2> QED
        BY <1>1, <1>3, <2>1, CountingUp
<1>5. PICK g \in [SUBSET S -> Int] : Upto(g, Cardinality(S))
    BY <1>4
<1>6. ASSUME NEW s \in SUBSET S PROVE g[s] = Step(g, f, s)
    BY <1>5, FS_Subset
<1>7. g = [s \in SUBSET S |-> Step(g, f, s)]
    BY <1>5, <1>6
<1> QED
    BY <1>5, <1>7 DEF Folds

\* Two folds agree wherever both are defined.
LEMMA FoldUnique ==
    ASSUME NEW S, IsFiniteSet(S), NEW f, NEW R \in SUBSET S, NEW g, NEW h, Folds(g, f, S), Folds(h, f, R)
    PROVE  \A s \in SUBSET R : g[s] = h[s]
<1> DEFINE T == {n \in Nat : \A s \in SUBSET R : Cardinality(s) <= n => g[s] = h[s]}
<1>1. \A s \in SUBSET R : s \in SUBSET S
    OBVIOUS
<1>2. \A s \in SUBSET R : g[s] = Step(g, f, s) /\ h[s] = Step(h, f, s)
    BY <1>1 DEF Folds
<1>3. IsFiniteSet(R)
    BY FS_Subset
<1>4. 0 \in T
    <2>1. ASSUME NEW s \in SUBSET R, Cardinality(s) <= 0 PROVE s = {}
        BY <1>3, <2>1, FS_Subset, FS_EmptySet, FS_CardinalityType
    <2> QED
        BY <1>2, <2>1 DEF Step
<1>5. ASSUME NEW n \in Nat, n \in T PROVE n + 1 \in T
    <2>1. ASSUME NEW s \in SUBSET R, Cardinality(s) <= n + 1 PROVE g[s] = h[s]
        <3>1. CASE s = {}
            BY <1>2, <3>1 DEF Step
        <3>2. CASE s # {}
            <4> DEFINE r == s \ {First(s)}
            <4>1. First(s) \in s
                BY <3>2, FirstIn
            <4>2. r \in SUBSET R /\ Cardinality(r) <= n
                BY <1>3, <2>1, <4>1, Smaller
            <4>3. g[r] = h[r]
                BY <1>5, <4>2
            <4> QED
                BY <1>2, <3>2, <4>3 DEF Step
        <3> QED
            BY <3>1, <3>2
    <2> QED
        BY <2>1
<1>6. ASSUME NEW s \in SUBSET R PROVE g[s] = h[s]
    <2>1. Cardinality(s) \in Nat
        BY <1>3, FS_Subset, FS_CardinalityType
    <2>2. Cardinality(s) \in T
        <3>1. \A n \in Nat : n \in T => n + 1 \in T
            BY <1>5
        <3> HIDE DEF T
        <3> QED
            BY <1>4, <2>1, <3>1, CountingUp
    <2> QED
        BY <2>1, <2>2
<1> QED
    BY <1>6

Commutes(g, f, S) == \A s \in SUBSET S : \A x \in s : g[s] = f[x] + g[s \ {x}]

\* Whatever is taken first, the rest makes up the sum.
LEMMA FoldCommutes ==
    ASSUME NEW S, IsFiniteSet(S), NEW f, \A x \in S : f[x] \in Int,
           NEW g, g \in [SUBSET S -> Int], Folds(g, f, S)
    PROVE  Commutes(g, f, S)
<1> DEFINE T == {n \in Nat : \A s \in SUBSET S : Cardinality(s) <= n => \A x \in s : g[s] = f[x] + g[s \ {x}]}
<1>1. \A s \in SUBSET S : g[s] = Step(g, f, s) /\ g[s] \in Int
    BY DEF Folds
<1>2. 0 \in T
    <2>1. ASSUME NEW s \in SUBSET S, Cardinality(s) <= 0 PROVE s = {}
        BY <2>1, FS_Subset, FS_EmptySet, FS_CardinalityType
    <2> QED
        BY <2>1
<1>3. ASSUME NEW n \in Nat, n \in T PROVE n + 1 \in T
    <2>1. ASSUME NEW s \in SUBSET S, Cardinality(s) <= n + 1, NEW x \in s PROVE g[s] = f[x] + g[s \ {x}]
        <3>1. PICK y : y = First(s)
            OBVIOUS
        <3>2. y \in s /\ s # {}
            BY <3>1, FirstIn
        <3>3. g[s] = f[y] + g[s \ {y}]
            BY <1>1, <3>1, <3>2 DEF Step
        <3>4. CASE x = y
            BY <3>3, <3>4
        <3>5. CASE x # y
            <4>1. /\ s \ {y} \in SUBSET S /\ s \ {x} \in SUBSET S
                  /\ Cardinality(s \ {y}) <= n /\ Cardinality(s \ {x}) <= n
                BY <2>1, <3>2, Smaller
            <4>2. x \in s \ {y} /\ y \in s \ {x}
                BY <3>2, <3>5
            <4>3. g[s \ {y}] = f[x] + g[(s \ {y}) \ {x}]
                BY <1>3, <4>1, <4>2
            <4>4. g[s \ {x}] = f[y] + g[(s \ {x}) \ {y}]
                BY <1>3, <4>1, <4>2
            <4>5. (s \ {x}) \ {y} = (s \ {y}) \ {x}
                OBVIOUS
            <4>6. f[x] \in Int /\ f[y] \in Int /\ g[(s \ {y}) \ {x}] \in Int
                BY <3>2
            <4>7. PICK rest \in Int : rest = g[(s \ {y}) \ {x}]
                BY <4>6
            <4>8. g[s \ {x}] = f[y] + rest /\ g[s] = f[y] + (f[x] + rest)
                BY <3>3, <4>3, <4>4, <4>5, <4>7
            <4> HIDE DEF T
            <4> QED
                BY <4>6, <4>7, <4>8
        <3> QED
            BY <3>4, <3>5
    <2> QED
        BY <2>1
<1>4. ASSUME NEW s \in SUBSET S, NEW x \in s PROVE g[s] = f[x] + g[s \ {x}]
    <2>1. Cardinality(s) \in Nat
        BY Smaller
    <2>2. Cardinality(s) \in T
        <3>1. \A n \in Nat : n \in T => n + 1 \in T
            BY <1>3
        <3> HIDE DEF T
        <3> QED
            BY <1>2, <2>1, <3>1, CountingUp
    <2> QED
        BY <2>1, <2>2
<1> QED
    BY <1>4 DEF Commutes

-----------------------------------------------------------------------------

\* A sum over a finite set is a number, none over nothing, and goes up by what an
\* element adds.
LEMMA SumLaws ==
    ASSUME NEW S, IsFiniteSet(S), NEW f, \A x \in S : f[x] \in Int
    PROVE  /\ SumOf(f, S) \in Int
           /\ S = {} => SumOf(f, S) = 0
           /\ \A x \in S : SumOf(f, S) = f[x] + SumOf(f, S \ {x})
<1>1. ASSUME NEW R \in SUBSET S
      PROVE  \E h : Folds(h, f, R) /\ SumOf(f, R) = h[R]
    <2>1. IsFiniteSet(R) /\ \A x \in R : f[x] \in Int
        BY <1>1, FS_Subset
    <2>2. \E h : Folds(h, f, R)
        BY <2>1, FoldExists
    <2> DEFINE h == CHOOSE g : Folds(g, f, R)
    <2>3. Folds(h, f, R)
        BY <2>2
    <2>4. SumOf(f, R) = h[R]
        BY SumIsFold
    <2> QED
        BY <2>3, <2>4
<1>2. PICK g \in [SUBSET S -> Int] : Folds(g, f, S)
    BY FoldExists
<1>3. ASSUME NEW R \in SUBSET S PROVE SumOf(f, R) = g[R]
    <2>1. PICK h : Folds(h, f, R) /\ SumOf(f, R) = h[R]
        BY <1>1
    <2>2. R \in SUBSET R
        OBVIOUS
    <2> QED
        BY <1>2, <2>1, <2>2, FoldUnique
<1>4. S \in SUBSET S /\ \A x \in S : S \ {x} \in SUBSET S
    OBVIOUS
<1>5. S = {} => g[S] = 0
    BY <1>2, <1>4 DEF Folds, Step
<1>6. Commutes(g, f, S)
    <2>1. Folds(g, f, S)
        BY <1>2
    <2> QED
        BY <2>1, FoldCommutes
<1> QED
    BY <1>2, <1>3, <1>4, <1>5, <1>6 DEF Commutes

\* What holds of no element, and of one more whenever it holds, holds of a finite set.
LEMMA AddingUp ==
    ASSUME NEW S, IsFiniteSet(S), NEW Z, {} \in Z,
           \A s \in SUBSET S : \A x \in S \ s : s \in Z => s \cup {x} \in Z
    PROVE  S \in Z
<1> DEFINE T == {n \in Nat : \A s \in SUBSET S : Cardinality(s) <= n => s \in Z}
<1>1. 0 \in T
    <2>1. ASSUME NEW s \in SUBSET S, Cardinality(s) <= 0 PROVE s = {}
        BY <2>1, FS_Subset, FS_EmptySet, FS_CardinalityType
    <2> QED
        BY <2>1
<1>2. ASSUME NEW n \in Nat, n \in T PROVE n + 1 \in T
    <2>1. ASSUME NEW s \in SUBSET S, Cardinality(s) <= n + 1, s # {} PROVE s \in Z
        <3>1. PICK x \in s : TRUE
            BY <2>1
        <3>2. s \ {x} \in SUBSET S /\ Cardinality(s \ {x}) <= n
            BY <2>1, Smaller
        <3>3. s \ {x} \in Z /\ x \in S \ (s \ {x})
            BY <1>2, <3>2
        <3>4. (s \ {x}) \cup {x} = s
            OBVIOUS
        <3> QED
            BY <3>2, <3>3, <3>4
    <2> QED
        BY <2>1
<1>3. Cardinality(S) \in Nat
    BY FS_CardinalityType
<1>4. Cardinality(S) \in T
    <2>1. \A n \in Nat : n \in T => n + 1 \in T
        BY <1>2
    <2> HIDE DEF T
    <2> QED
        BY <1>1, <1>3, <2>1, CountingUp
<1> QED
    BY <1>3, <1>4

\* One more element adds what it is worth.
LEMMA SumAdd ==
    ASSUME NEW S, IsFiniteSet(S), NEW x, x \notin S, NEW f, \A y \in S \cup {x} : f[y] \in Int
    PROVE  SumOf(f, S \cup {x}) = f[x] + SumOf(f, S)
<1>1. IsFiniteSet(S \cup {x}) /\ (S \cup {x}) \ {x} = S
    BY FS_AddElement
<1> QED
    BY <1>1, SumLaws

\* Sums of what is no larger are no larger.
LEMMA SumAtMost ==
    ASSUME NEW S, IsFiniteSet(S), NEW f, NEW h,
           \A x \in S : f[x] \in Int /\ h[x] \in Int /\ f[x] <= h[x]
    PROVE  SumOf(f, S) <= SumOf(h, S)
<1> DEFINE Z == {s \in SUBSET S : SumOf(f, s) <= SumOf(h, s)}
<1>1. {} \in Z
    <2>1. SumOf(f, {}) = 0 /\ SumOf(h, {}) = 0
        BY FS_EmptySet, SumLaws
    <2> QED
        BY <2>1
<1>2. ASSUME NEW s \in SUBSET S, NEW x \in S \ s, s \in Z PROVE s \cup {x} \in Z
    <2>1. IsFiniteSet(s)
        BY FS_Subset
    <2>2. SumOf(f, s \cup {x}) = f[x] + SumOf(f, s) /\ SumOf(h, s \cup {x}) = h[x] + SumOf(h, s)
        BY <2>1, SumAdd
    <2>3. SumOf(f, s) \in Int /\ SumOf(h, s) \in Int
        BY <2>1, SumLaws
    <2>4. SumOf(f, s) <= SumOf(h, s) /\ f[x] <= h[x] /\ f[x] \in Int /\ h[x] \in Int
        BY <1>2
    <2>5. SumOf(f, s \cup {x}) <= SumOf(h, s \cup {x})
        BY <2>2, <2>3, <2>4
    <2> QED
        BY <2>5
<1>3. S \in Z
    <2> HIDE DEF Z
    <2> QED
        BY <1>1, <1>2, AddingUp
<1> QED
    BY <1>3

\* Only the values on the set count.
LEMMA SumSame ==
    ASSUME NEW S, IsFiniteSet(S), NEW f, NEW h, \A x \in S : f[x] \in Int /\ f[x] = h[x]
    PROVE  SumOf(f, S) = SumOf(h, S)
<1>1. SumOf(f, S) <= SumOf(h, S) /\ SumOf(h, S) <= SumOf(f, S)
    BY SumAtMost
<1>2. SumOf(f, S) \in Int /\ SumOf(h, S) \in Int
    BY SumLaws
<1> QED
    BY <1>1, <1>2

\* Nothing adds up to nothing.
LEMMA SumOfNothing ==
    ASSUME NEW S, IsFiniteSet(S), NEW f, \A x \in S : f[x] = 0
    PROVE  SumOf(f, S) = 0
<1> DEFINE Z == {s \in SUBSET S : SumOf(f, s) = 0}
<1>1. {} \in Z
    BY FS_EmptySet, SumLaws
<1>2. ASSUME NEW s \in SUBSET S, NEW x \in S \ s, s \in Z PROVE s \cup {x} \in Z
    <2>1. IsFiniteSet(s) /\ \A y \in s \cup {x} : f[y] \in Int
        BY FS_Subset
    <2>2. SumOf(f, s \cup {x}) = f[x] + SumOf(f, s)
        BY <2>1, SumAdd
    <2> QED
        BY <1>2, <2>2
<1>3. S \in Z
    <2> HIDE DEF Z
    <2> QED
        BY <1>1, <1>2, AddingUp
<1> QED
    BY <1>3

LEMMA SumNatural ==
    ASSUME NEW S, IsFiniteSet(S), NEW f, \A x \in S : f[x] \in Nat
    PROVE  SumOf(f, S) \in Nat
<1> DEFINE h == [x \in S |-> 0]
<1>1. SumOf(h, S) = 0
    BY SumOfNothing
<1>2. SumOf(h, S) <= SumOf(f, S)
    <2>1. \A x \in S : h[x] \in Int /\ f[x] \in Int /\ h[x] <= f[x]
        OBVIOUS
    <2> HIDE DEF h
    <2> QED
        BY <2>1, SumAtMost
<1>3. SumOf(f, S) \in Int
    BY SumLaws
<1> QED
    BY <1>1, <1>2, <1>3

\* One value changed changes the sum by as much.
LEMMA SumChange ==
    ASSUME NEW S, IsFiniteSet(S), NEW f, NEW h, NEW x \in S,
           \A y \in S : f[y] \in Int /\ h[y] \in Int /\ (y # x => f[y] = h[y])
    PROVE  SumOf(h, S) - SumOf(f, S) = h[x] - f[x]
<1>1. IsFiniteSet(S \ {x})
    BY FS_Subset
<1>2. SumOf(f, S \ {x}) = SumOf(h, S \ {x}) /\ SumOf(f, S \ {x}) \in Int
    BY <1>1, SumSame, SumLaws
<1>3. SumOf(f, S) = f[x] + SumOf(f, S \ {x}) /\ SumOf(h, S) = h[x] + SumOf(h, S \ {x})
    BY SumLaws
<1> QED
    BY <1>2, <1>3

\* One less of each.
LEMMA SumLess ==
    ASSUME NEW S, IsFiniteSet(S), NEW f, NEW h, \A x \in S : f[x] \in Int /\ h[x] = f[x] - 1
    PROVE  SumOf(h, S) = SumOf(f, S) - Cardinality(S)
<1> DEFINE Z == {s \in SUBSET S : SumOf(h, s) = SumOf(f, s) - Cardinality(s)}
<1>1. {} \in Z
    BY FS_EmptySet, SumLaws
<1>2. ASSUME NEW s \in SUBSET S, NEW x \in S \ s, s \in Z PROVE s \cup {x} \in Z
    <2>1. IsFiniteSet(s) /\ \A y \in s \cup {x} : f[y] \in Int /\ h[y] \in Int
        BY FS_Subset
    <2>2. SumOf(f, s \cup {x}) = f[x] + SumOf(f, s) /\ SumOf(h, s \cup {x}) = h[x] + SumOf(h, s)
        BY <2>1, SumAdd
    <2>3. SumOf(f, s) \in Int /\ SumOf(h, s) \in Int
        BY <2>1, SumLaws
    <2>4. Cardinality(s \cup {x}) = Cardinality(s) + 1 /\ Cardinality(s) \in Nat
        BY <2>1, FS_AddElement, FS_CardinalityType
    <2>5. f[x] \in Int /\ h[x] = f[x] - 1 /\ SumOf(h, s) = SumOf(f, s) - Cardinality(s)
        BY <1>2
    <2>6. SumOf(h, s \cup {x}) = SumOf(f, s \cup {x}) - Cardinality(s \cup {x})
        BY <2>2, <2>3, <2>4, <2>5
    <2> QED
        BY <2>6
<1>3. S \in Z
    <2> HIDE DEF Z
    <2> QED
        BY <1>1, <1>2, AddingUp
<1> QED
    BY <1>3

\* What the sets F[a] hold between them.
Together(F, S) == UNION {F[a] : a \in S}

Disjoint(F, S) == \A a, b \in S : a # b => F[a] \cap F[b] = {}

\* A union has at most the sum of its parts, and just that if they are disjoint.
LEMMA UnionCounts ==
    ASSUME NEW S, IsFiniteSet(S), NEW F, \A a \in S : IsFiniteSet(F[a]),
           NEW f, \A a \in S : f[a] = Cardinality(F[a])
    PROVE  /\ IsFiniteSet(Together(F, S))
           /\ Cardinality(Together(F, S)) <= SumOf(f, S)
           /\ Disjoint(F, S) => Cardinality(Together(F, S)) = SumOf(f, S)
<1> DEFINE Good(s) == /\ IsFiniteSet(Together(F, s))
                      /\ Cardinality(Together(F, s)) <= SumOf(f, s)
                      /\ Disjoint(F, S) => Cardinality(Together(F, s)) = SumOf(f, s)
           Z == {s \in SUBSET S : Good(s)}
<1>1. {} \in Z
    <2>1. Together(F, {}) = {} /\ SumOf(f, {}) = 0
        BY FS_EmptySet, SumLaws DEF Together
    <2> QED
        BY <2>1, FS_EmptySet
<1>2. ASSUME NEW s \in SUBSET S, NEW x \in S \ s, s \in Z PROVE s \cup {x} \in Z
    <2>1. IsFiniteSet(s) /\ \A y \in s \cup {x} : f[y] \in Int
        BY FS_Subset, FS_CardinalityType
    <2>2. SumOf(f, s \cup {x}) = f[x] + SumOf(f, s) /\ SumOf(f, s) \in Int
        BY <2>1, SumAdd, SumLaws
    <2>3. Together(F, s \cup {x}) = Together(F, s) \cup F[x]
        BY DEF Together
    <2>4. IsFiniteSet(Together(F, s)) /\ IsFiniteSet(F[x]) /\ IsFiniteSet(Together(F, s) \cap F[x])
        BY <1>2, FS_Intersection
    <2>10. /\ Cardinality(Together(F, s)) \in Nat /\ Cardinality(F[x]) \in Nat
           /\ Cardinality(Together(F, s) \cap F[x]) \in Nat
        BY <2>4, FS_CardinalityType
    <2>5. PICK u \in Nat, v \in Nat, w \in Nat :
             u = Cardinality(Together(F, s)) /\ v = Cardinality(F[x]) /\ w = Cardinality(Together(F, s) \cap F[x])
        BY <2>10
    <2>6. IsFiniteSet(Together(F, s \cup {x})) /\ Cardinality(Together(F, s \cup {x})) = u + v - w
        <3>1. /\ IsFiniteSet(Together(F, s) \cup F[x])
              /\ Cardinality(Together(F, s) \cup F[x]) =
                    Cardinality(Together(F, s)) + Cardinality(F[x]) - Cardinality(Together(F, s) \cap F[x])
            BY <2>4, FS_Union
        <3> QED
            BY <2>3, <2>5, <3>1
    <2>7. u <= SumOf(f, s) /\ f[x] = v
        BY <1>2, <2>5
    <2>8. Cardinality(Together(F, s \cup {x})) <= SumOf(f, s \cup {x})
        BY <2>2, <2>6, <2>7
    <2>9. ASSUME Disjoint(F, S) PROVE Cardinality(Together(F, s \cup {x})) = SumOf(f, s \cup {x})
        <3>1. Together(F, s) \cap F[x] = {}
            BY <2>9 DEF Together, Disjoint
        <3>2. w = 0
            BY <2>5, <3>1, FS_EmptySet
        <3>3. u = SumOf(f, s)
            BY <1>2, <2>5, <2>9
        <3> QED
            BY <2>2, <2>6, <2>7, <3>2, <3>3
    <2> QED
        BY <2>6, <2>8, <2>9
<1>3. S \in Z
    <2> HIDE DEF Z
    <2> QED
        BY <1>1, <1>2, AddingUp
<1> QED
    BY <1>3

-----------------------------------------------------------------------------
(* Orders.                                                                 *)

StrictOrder(R, S) ==
    /\ \A x \in S : <<x, x>> \notin R
    /\ \A x, y, z \in S : <<x, y>> \in R /\ <<y, z>> \in R => <<x, z>> \in R
    /\ \A x, y \in S : x # y => <<x, y>> \in R \/ <<y, x>> \in R

\* What comes before x.
Preceding(R, S, x) == {y \in S : <<y, x>> \in R}

LEMMA BeforeGrows ==
    ASSUME NEW S, IsFiniteSet(S), NEW R, StrictOrder(R, S), NEW x \in S, NEW y \in S, <<x, y>> \in R
    PROVE  /\ Cardinality(Preceding(R, S, x)) \in Nat /\ Cardinality(Preceding(R, S, y)) \in Nat
           /\ Cardinality(Preceding(R, S, x)) < Cardinality(Preceding(R, S, y))
<1>1. IsFiniteSet(Preceding(R, S, x)) /\ IsFiniteSet(Preceding(R, S, y))
    BY FS_Subset DEF Preceding
<1>2. Preceding(R, S, x) \in SUBSET Preceding(R, S, y)
    BY DEF Preceding, StrictOrder
<1>3. x \in Preceding(R, S, y) /\ x \notin Preceding(R, S, x)
    BY DEF Preceding, StrictOrder
<1>4. Cardinality(Preceding(R, S, x)) <= Cardinality(Preceding(R, S, y))
    BY <1>1, <1>2, FS_Subset
<1>5. Cardinality(Preceding(R, S, x)) # Cardinality(Preceding(R, S, y))
    BY <1>1, <1>2, <1>3, FS_Subset
<1>6. Cardinality(Preceding(R, S, x)) \in Nat /\ Cardinality(Preceding(R, S, y)) \in Nat
    BY <1>1, FS_CardinalityType
<1> QED
    BY <1>4, <1>5, <1>6

\* A finite set in order: every place is taken, by one element.
Placed(R, S) ==
    /\ \A x, y \in S : <<x, y>> \in R <=> Cardinality(Preceding(R, S, x)) < Cardinality(Preceding(R, S, y))
    /\ \A x, y \in S : Cardinality(Preceding(R, S, x)) = Cardinality(Preceding(R, S, y)) => x = y
    /\ \A x \in S : Cardinality(Preceding(R, S, x)) \in 0..(Cardinality(S) - 1)
    /\ \A i \in 1..Cardinality(S) : \E x \in S : Cardinality(Preceding(R, S, x)) = i - 1

LEMMA OrderPlaces ==
    ASSUME NEW S, IsFiniteSet(S), NEW R, StrictOrder(R, S)
    PROVE  Placed(R, S)
<1> DEFINE place == [x \in S |-> Cardinality(Preceding(R, S, x)) + 1]
           n == Cardinality(S)
<1>1. n \in Nat
    BY FS_CardinalityType
<1>2. ASSUME NEW x \in S PROVE Cardinality(Preceding(R, S, x)) \in 0..(n - 1)
    <2>1. Preceding(R, S, x) \in SUBSET (S \ {x})
        BY DEF Preceding, StrictOrder
    <2>2. IsFiniteSet(S \ {x}) /\ Cardinality(S \ {x}) = n - 1
        BY FS_RemoveElement
    <2>3. IsFiniteSet(Preceding(R, S, x)) /\ Cardinality(Preceding(R, S, x)) <= n - 1
        BY <2>1, <2>2, FS_Subset
    <2>4. Cardinality(Preceding(R, S, x)) \in Nat
        BY <2>3, FS_CardinalityType
    <2> QED
        BY <1>1, <2>3, <2>4
<1>3. \A x, y \in S : <<x, y>> \in R => Cardinality(Preceding(R, S, x)) < Cardinality(Preceding(R, S, y))
    BY BeforeGrows
<1>4. ASSUME NEW x \in S, NEW y \in S, Cardinality(Preceding(R, S, x)) = Cardinality(Preceding(R, S, y))
      PROVE  x = y
    <2>1. Cardinality(Preceding(R, S, x)) \in Nat /\ Cardinality(Preceding(R, S, y)) \in Nat
        BY <1>1, <1>2
    <2>2. ~(Cardinality(Preceding(R, S, x)) < Cardinality(Preceding(R, S, y)))
          /\ ~(Cardinality(Preceding(R, S, y)) < Cardinality(Preceding(R, S, x)))
        BY <1>4, <2>1
    <2> QED
        BY <1>3, <2>2 DEF StrictOrder
<1>5. ASSUME NEW x \in S, NEW y \in S, Cardinality(Preceding(R, S, x)) < Cardinality(Preceding(R, S, y))
      PROVE  <<x, y>> \in R
    <2>1. Cardinality(Preceding(R, S, x)) \in Nat /\ Cardinality(Preceding(R, S, y)) \in Nat
        BY <1>1, <1>2
    <2>2. x # y /\ ~(Cardinality(Preceding(R, S, y)) < Cardinality(Preceding(R, S, x)))
        BY <1>5, <2>1
    <2> QED
        BY <1>3, <2>2 DEF StrictOrder
<1>6. place \in [S -> 1..n]
    <2>1. ASSUME NEW x \in S PROVE Cardinality(Preceding(R, S, x)) + 1 \in 1..n
        BY <1>1, <1>2
    <2> QED
        BY <2>1
<1>7. place \in Injection(S, 1..n)
    <2>1. ASSUME NEW x \in S, NEW y \in S, place[x] = place[y] PROVE x = y
        <3>1. Cardinality(Preceding(R, S, x)) \in Nat /\ Cardinality(Preceding(R, S, y)) \in Nat
            BY <1>1, <1>2
        <3>2. Cardinality(Preceding(R, S, x)) = Cardinality(Preceding(R, S, y))
            BY <2>1, <3>1
        <3> QED
            BY <1>4, <3>2
    <2> QED
        BY <1>6, <2>1 DEF Injection, IsInjective
<1>8. place \in Surjection(S, 1..n)
    <2>1. IsFiniteSet(1..n) /\ Cardinality(1..n) = n
        BY <1>1, FS_Interval
    <2> QED
        BY <1>7, <2>1, FS_Injection
<1>9. ASSUME NEW i \in 1..n PROVE \E x \in S : Cardinality(Preceding(R, S, x)) = i - 1
    <2>1. PICK x \in S : place[x] = i
        BY <1>8 DEF Surjection
    <2>2. Cardinality(Preceding(R, S, x)) \in Nat
        BY <1>1, <1>2
    <2> QED
        BY <2>1, <2>2
<1> QED
    BY <1>2, <1>3, <1>4, <1>5, <1>9 DEF Placed

\* Something is at the end of every finite line, ties or not.
LEMMA GreatestExists ==
    ASSUME NEW S, IsFiniteSet(S), S # {}, NEW R,
           \A x, y \in S : <<x, y>> \in R \/ <<y, x>> \in R,
           \A x, y, z \in S : <<x, y>> \in R /\ <<y, z>> \in R => <<x, z>> \in R
    PROVE  \E x \in S : \A y \in S : <<y, x>> \in R
<1> DEFINE Z == {s \in SUBSET S : s = {} \/ \E x \in s : \A y \in s : <<y, x>> \in R}
<1>1. {} \in Z
    OBVIOUS
<1>2. ASSUME NEW s \in SUBSET S, NEW x \in S \ s, s \in Z PROVE s \cup {x} \in Z
    <2>1. CASE s = {}
        <3>1. \A y \in s \cup {x} : <<y, x>> \in R
            BY <2>1
        <3> QED
            BY <3>1
    <2>2. CASE s # {}
        <3>1. PICK g \in s : \A y \in s : <<y, g>> \in R
            BY <1>2, <2>2
        <3>2. CASE <<x, g>> \in R
            <4>1. g \in s \cup {x} /\ \A y \in s \cup {x} : <<y, g>> \in R
                BY <3>1, <3>2
            <4> QED
                BY <4>1
        <3>3. CASE <<x, g>> \notin R
            <4>1. <<g, x>> \in R /\ <<x, x>> \in R
                BY <3>1, <3>3
            <4>2. ASSUME NEW y \in s PROVE <<y, x>> \in R
                BY <3>1, <4>1
            <4>3. x \in s \cup {x} /\ \A y \in s \cup {x} : <<y, x>> \in R
                BY <4>1, <4>2
            <4> QED
                BY <4>3
        <3> QED
            BY <3>2, <3>3
    <2> QED
        BY <2>1, <2>2
<1>3. S \in Z
    <2> HIDE DEF Z
    <2> QED
        BY <1>1, <1>2, AddingUp
<1> QED
    BY <1>3

LEMMA MaxExists ==
    ASSUME NEW S \in SUBSET Int, IsFiniteSet(S), S # {}
    PROVE  Max(S) \in S /\ \A y \in S : y <= Max(S)
<1> DEFINE R == {e \in S \X S : e[1] <= e[2]}
<1>1. /\ \A x, y \in S : <<x, y>> \in R <=> x <= y
      /\ \A x \in S : x \in Int
    OBVIOUS
<1> HIDE DEF R
<1>2. \E x \in S : \A y \in S : <<y, x>> \in R
    <2>1. \A x, y \in S : <<x, y>> \in R \/ <<y, x>> \in R
        <3>1. \A x, y \in Int : x <= y \/ y <= x
            OBVIOUS
        <3> QED
            BY <1>1, <3>1
    <2>2. \A x, y, z \in S : <<x, y>> \in R /\ <<y, z>> \in R => <<x, z>> \in R
        <3>1. \A x, y, z \in Int : x <= y /\ y <= z => x <= z
            OBVIOUS
        <3> QED
            BY <1>1, <3>1
    <2> QED
        BY <2>1, <2>2, GreatestExists
<1> QED
    BY <1>1, <1>2 DEF Max

LEMMA MinExists ==
    ASSUME NEW S \in SUBSET Int, IsFiniteSet(S), S # {}
    PROVE  Min(S) \in S /\ \A y \in S : Min(S) <= y
<1> DEFINE R == {e \in S \X S : e[1] >= e[2]}
<1>1. /\ \A x, y \in S : <<x, y>> \in R <=> x >= y
      /\ \A x \in S : x \in Int
    OBVIOUS
<1> HIDE DEF R
<1>2. \E x \in S : \A y \in S : <<y, x>> \in R
    <2>1. \A x, y \in S : <<x, y>> \in R \/ <<y, x>> \in R
        <3>1. \A x, y \in Int : x >= y \/ y >= x
            OBVIOUS
        <3> QED
            BY <1>1, <3>1
    <2>2. \A x, y, z \in S : <<x, y>> \in R /\ <<y, z>> \in R => <<x, z>> \in R
        <3>1. \A x, y, z \in Int : x >= y /\ y >= z => x >= z
            OBVIOUS
        <3> QED
            BY <1>1, <3>1
    <2> QED
        BY <2>1, <2>2, GreatestExists
<1> QED
    BY <1>1, <1>2 DEF Min

Images(s, A) == {s[i] : i \in A}

OneEach(s, D) == \A i, j \in D : s[i] = s[j] => i = j

\* As many values as arguments, if no value is taken twice.
LEMMA ImageCounts ==
    ASSUME NEW D, NEW s, OneEach(s, D), NEW A \in SUBSET D, IsFiniteSet(A)
    PROVE  IsFiniteSet(Images(s, A)) /\ Cardinality(Images(s, A)) = Cardinality(A)
<1> DEFINE f == [i \in A |-> s[i]]
           B == Images(s, A)
<1>1. f \in Surjection(A, B)
    BY DEF Surjection, Images
<1>2. f \in Injection(A, B)
    BY <1>1 DEF Surjection, Injection, IsInjective, OneEach
<1> QED
    BY <1>1, <1>2, FS_Surjection

-----------------------------------------------------------------------------
(* Funding links.                                                          *)

\* Links have no direction.
LEMMA LinkedSymmetric ==
    ASSUME NEW f, NEW x, NEW y, Linked(f, x, y)
    PROVE  Linked(f, y, x)
BY DEF Linked

\* The buyers outside a closed set are a closed set too.
LEMMA ComplementClosed ==
    ASSUME NEW B, NEW f, NEW S \in SUBSET B, Closed(B, f, S)
    PROVE  Closed(B, f, B \ S)
BY LinkedSymmetric DEF Closed

\* A buyer is connected to itself.
LEMMA ConnectedReflexive ==
    ASSUME NEW B, NEW f, NEW x
    PROVE  Connected(B, f, x, x)
BY DEF Connected

\* A set that separates y from x, turned inside out, separates x from y.
LEMMA ConnectedSymmetric ==
    ASSUME NEW B, NEW f, NEW x \in B, NEW y \in B, Connected(B, f, x, y)
    PROVE  Connected(B, f, y, x)
<1> SUFFICES ASSUME NEW S \in SUBSET B, y \in S, Closed(B, f, S), x \notin S
             PROVE  FALSE
    BY DEF Connected
<1>1. Closed(B, f, B \ S)
    BY ComplementClosed
<1> QED
    BY <1>1 DEF Connected

\* Connections chain.
LEMMA ConnectedTransitive ==
    ASSUME NEW B, NEW f, NEW x, NEW y, NEW z, Connected(B, f, x, y), Connected(B, f, y, z)
    PROVE  Connected(B, f, x, z)
BY DEF Connected

\* A group is named by any of its members.
LEMMA ComponentOfMember ==
    ASSUME NEW B, NEW f, NEW x \in B, NEW y \in B, Connected(B, f, x, y)
    PROVE  Component(B, f, x) = Component(B, f, y)
<1>1. Connected(B, f, y, x)
    BY ConnectedSymmetric
<1>2. ASSUME NEW z \in B PROVE Connected(B, f, x, z) <=> Connected(B, f, y, z)
    BY <1>1, ConnectedTransitive
<1> QED
    BY <1>2 DEF Component

\* There are as many groups as representatives, so no more groups than buyers.
LEMMA ComponentsBounded ==
    ASSUME NEW B, IsFiniteSet(B), NEW f
    PROVE  /\ IsFiniteSet(Components(B, f))
           /\ Cardinality(Components(B, f)) <= Cardinality(B)
<1> DEFINE g == [x \in B |-> Component(B, f, x)]
<1>1. g \in Surjection(B, Components(B, f))
    BY DEF Surjection, Components
<1> QED
    BY <1>1, FS_Surjection

\* What is known of the funders of some buyers is part of the truth.
Understates(B, f, truth) == \A x \in B : f[x] \subseteq truth[x]

\* Buyers found connected are connected.
LEMMA FoundConnected ==
    ASSUME NEW B, NEW f, NEW truth, Understates(B, f, truth), NEW x \in B, NEW y \in B,
           Connected(B, f, x, y)
    PROVE  Connected(B, truth, x, y)
<1> SUFFICES ASSUME NEW S \in SUBSET B, x \in S, Closed(B, truth, S)
             PROVE  y \in S
    BY DEF Connected
<1>1. ASSUME NEW u \in B, NEW v \in B, Linked(f, u, v) PROVE Linked(truth, u, v)
    BY <1>1 DEF Linked, Understates
<1>2. Closed(B, f, S)
    BY <1>1 DEF Closed
<1> QED
    BY <1>2 DEF Connected

\* Funders that are not known never make fewer groups of the buyers: M is at
\* least what the whole data would give.
THEOREM UnknownFundersSplit ==
    ASSUME NEW B, IsFiniteSet(B), NEW f, NEW truth, Understates(B, f, truth)
    PROVE  Cardinality(Components(B, truth)) <= Cardinality(Components(B, f))
<1> DEFINE member(C) == CHOOSE x \in B : C = Component(B, f, x)
           merge == [C \in Components(B, f) |-> Component(B, truth, member(C))]
<1>1. ASSUME NEW C \in Components(B, f)
      PROVE  member(C) \in B /\ C = Component(B, f, member(C))
    BY DEF Components
<1>2. merge \in [Components(B, f) -> Components(B, truth)]
    BY <1>1 DEF Components
<1>3. ASSUME NEW D \in Components(B, truth)
      PROVE  \E C \in Components(B, f) : merge[C] = D
    <2>1. PICK y \in B : D = Component(B, truth, y)
        BY DEF Components
    <2> DEFINE C == Component(B, f, y)
    <2>2. C \in Components(B, f)
        BY DEF Components
    <2> HIDE DEF C
    <2>3. y \in C
        BY ConnectedReflexive DEF C, Component
    <2>4. member(C) \in B /\ C = Component(B, f, member(C))
        BY <1>1, <2>2
    <2> HIDE DEF member
    <2>5. Connected(B, f, member(C), y)
        BY <2>3, <2>4 DEF Component
    <2>6. Component(B, truth, member(C)) = Component(B, truth, y)
        BY <2>4, <2>5, FoundConnected, ComponentOfMember
    <2> QED
        BY <2>1, <2>2, <2>6
<1>4. merge \in Surjection(Components(B, f), Components(B, truth))
    BY <1>2, <1>3 DEF Surjection
<1>5. IsFiniteSet(Components(B, f))
    BY ComponentsBounded
<1> QED
    BY <1>4, <1>5, FS_Surjection

\* There are fewer groups than buyers exactly if two buyers are connected.
LEMMA CollapseMeansConnected ==
    ASSUME NEW B, IsFiniteSet(B), NEW f
    PROVE  Cardinality(Components(B, f)) < Cardinality(B)
             <=> \E x, y \in B : x # y /\ Connected(B, f, x, y)
<1> DEFINE g == [x \in B |-> Component(B, f, x)]
<1>1. g \in Surjection(B, Components(B, f))
    BY DEF Surjection, Components
<1>2. /\ Cardinality(Components(B, f)) <= Cardinality(B)
      /\ Cardinality(Components(B, f)) = Cardinality(B) <=> g \in Injection(B, Components(B, f))
      /\ IsFiniteSet(Components(B, f))
    BY <1>1, FS_Surjection
<1>3. Cardinality(Components(B, f)) \in Nat /\ Cardinality(B) \in Nat
    BY <1>2, FS_CardinalityType
<1>4. ASSUME NEW x \in B, NEW y \in B
      PROVE  Component(B, f, x) = Component(B, f, y) <=> Connected(B, f, x, y)
    BY ComponentOfMember, ConnectedReflexive DEF Component
<1>5. g \in Injection(B, Components(B, f)) <=> \A x, y \in B : x # y => ~Connected(B, f, x, y)
    BY <1>1, <1>4 DEF Injection, IsInjective, Surjection
<1> QED
    BY <1>2, <1>3, <1>5
=============================================================================
