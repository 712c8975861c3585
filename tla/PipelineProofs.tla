---------------------------- MODULE PipelineProofs ----------------------------
(***************************************************************************)
(* What Pipeline's verdicts are worth, for any seed, any funders, any      *)
(* --max-wallets and any pattern of failed calls and interruption.         *)
(***************************************************************************)
EXTENDS Pipeline, SetProofs

\* Whatever is decided is a verdict (score.DecideVerdict is total).
LEMMA DecideTotal ==
    ASSUME NEW n, NEW m, NEW covered, NEW smart, NEW exchange, NEW checkable, NEW bought, NEW floor
    PROVE  decideWithFloor(n, m, covered, smart, exchange, checkable, bought, floor) \in Verdicts
BY DEF decideWithFloor, DecideVerdict, Verdicts

\* A clean verdict takes as many groups as buyers, and all of them covered.
LEMMA DecideCleared ==
    ASSUME NEW n \in Nat, NEW m \in Nat, NEW covered \in Nat, m <= n, covered <= n,
           NEW smart, NEW exchange, NEW checkable, NEW bought, NEW floor,
           decideWithFloor(n, m, covered, smart, exchange, checkable, bought, floor) \in Cleared
    PROVE  m = n /\ covered = n
BY DEF decideWithFloor, DecideVerdict, Withheld, Cleared, Collapse

\* An accusing verdict takes fewer groups than buyers, THIN a single one.
LEMMA DecideCollapse ==
    ASSUME NEW n \in Nat, NEW m \in Nat, NEW covered \in Nat,
           NEW smart, NEW exchange, NEW checkable, NEW bought, NEW floor,
           decideWithFloor(n, m, covered, smart, exchange, checkable, bought, floor) \in Collapse
    PROVE  /\ m < n
           /\ decideWithFloor(n, m, covered, smart, exchange, checkable, bought, floor) = "THIN" => m = 1
BY DEF decideWithFloor, DecideVerdict, Withheld, Cleared, Collapse

\* A verdict that reports an exit, and CONFIRMED, rest on an exchange side that
\* was observed and on the signs of the two flows.
LEMMA DecideExit ==
    ASSUME NEW n \in Nat, NEW m \in Nat, NEW covered \in Nat, NEW smart \in Int, NEW exchange \in Int,
           NEW checkable \in BOOLEAN, NEW bought, NEW floor,
           NEW v, v = decideWithFloor(n, m, covered, smart, exchange, checkable, bought, floor)
    PROVE  /\ v \in {"BOTH", "DISTRIBUTING", "EXIT_ONLY"} => checkable /\ smart > 0 /\ exchange > 0
           /\ v = "CONFIRMED" => checkable /\ ~(smart > 0 /\ exchange > 0)
BY DEF decideWithFloor, DecideVerdict, Distributing, Withheld, Collapse

-----------------------------------------------------------------------------
(* The invariant.  TypeOK alone says nothing about what the run knows; the *)
(* induction needs, for every chain of a wallet that still counts as       *)
(* covered, that its call is yet to return or its answer is there.         *)

\* Everything known of a wallet is true.
KnownIsTrue == \A w \in Wallets : related[w] \subseteq AllRows(w)

Answered(p) == rows[p] \subseteq related[p[1]]

CoveredPairs == {p \in Pairs : p[1] \in kept /\ relatedOK[p[1]]}

\* A covered wallet's chains are answered, or under way.
CoveredAnswered ==
    /\ stage \in {"seed", "aborted"} => kept = {}
    /\ stage = "related" => \A p \in CoveredPairs : p \in waiting \/ Answered(p)
    /\ stage \in {"tokens", "judge", "done"} /\ ~cancelled => \A p \in CoveredPairs : Answered(p)

\* The same of the tokens' flows, of which a token has one row at most, and
\* what a run without failures may rely on.
FlowAnswered ==
    /\ \A t \in Tokens : /\ flowRow[t] = {} \/ \E f \in FlowRows : flowRow[t] = {f}
                         /\ flow[t] = {} \/ flow[t] = flowRow[t]
    /\ failures = {} => \A w \in Wallets : relatedOK[w]
    /\ stage = "tokens" /\ failures = {} =>
          \A t \in Universe : t \in waiting \/ flow[t] = flowRow[t]
    /\ stage \in {"judge", "done"} /\ failures = {} /\ ~cancelled =>
          \A t \in Universe : flow[t] = flowRow[t]

\* The verdicts are those of what the run has got hold of.
VerdictsAsJudged ==
    stage = "done" => \A t \in Tokens :
        verdict[t] = IF t \in Universe THEN Judged(t, related, relatedOK, flow[t]) ELSE NoVerdict

IInv == TypeOK /\ KnownIsTrue /\ CoveredAnswered /\ FlowAnswered /\ VerdictsAsJudged

\* Nothing is known at the start, and nothing has been judged.
LEMMA InitIInv == Init => IInv
<1> SUFFICES ASSUME Init PROVE IInv
    OBVIOUS
<1>1. TypeOK
    <2>1. rows \in [Pairs -> SUBSET Rows]
        <3>1. Answers \in [Pairs -> SUBSET SUBSET Rows]
            BY UniverseAssumption
        <3>2. ASSUME NEW p \in Pairs PROVE rows[p] \in SUBSET Rows
            <4>1. rows[p] \in Answers[p]
                BY DEF Init
            <4> QED
                BY <3>1, <4>1
        <3>3. rows = [p \in Pairs |-> rows[p]]
            BY DEF Init
        <3> QED
            BY <3>2, <3>3
    <2>2. flowRow \in [Tokens -> SUBSET FlowRows]
        <3>1. {{}} \cup {{f} : f \in FlowRows} \subseteq SUBSET FlowRows
            OBVIOUS
        <3> QED
            BY <3>1 DEF Init
    <2>3. /\ related \in [Wallets -> SUBSET Rows]
          /\ relatedOK \in [Wallets -> BOOLEAN]
          /\ flow \in [Tokens -> SUBSET FlowRows]
          /\ verdict \in [Tokens -> Verdicts \cup {NoVerdict}]
        BY DEF Init
    <2>4. /\ stage \in {"seed", "related", "tokens", "judge", "done", "aborted"}
          /\ kept \subseteq Wallets
          /\ waiting \subseteq (Pairs \cup Tokens)
          /\ failures \subseteq (Pairs \cup Tokens)
          /\ cancelled \in BOOLEAN
        BY DEF Init
    <2> QED
        BY <2>1, <2>2, <2>3, <2>4 DEF TypeOK
<1>2. KnownIsTrue /\ CoveredAnswered /\ VerdictsAsJudged
    BY DEF Init, KnownIsTrue, CoveredAnswered, CoveredPairs, VerdictsAsJudged
<1>3. FlowAnswered
    <2>1. ASSUME NEW t \in Tokens PROVE flowRow[t] = {} \/ \E f \in FlowRows : flowRow[t] = {f}
        <3>1. flowRow[t] \in {{}} \cup {{f} : f \in FlowRows}
            BY DEF Init
        <3> QED
            BY <3>1
    <2> QED
        BY <2>1 DEF Init, FlowAnswered
<1> QED
    BY <1>1, <1>2, <1>3 DEF IInv

\* Only the pairs of kept wallets are called for.
LEMMA StepType == TypeOK /\ [Next]_vars => TypeOK'
<1> SUFFICES ASSUME TypeOK, [Next]_vars PROVE TypeOK'
    OBVIOUS
<1> USE DEF TypeOK, world
<1>1. CASE SeedArrives
    BY <1>1 DEF SeedArrives
<1>2. CASE SeedFails
    BY <1>2 DEF SeedFails
<1>3. ASSUME NEW p \in Pairs, RelatedDone(p) PROVE TypeOK'
    BY <1>3 DEF RelatedDone, RelatedRows
<1>4. ASSUME NEW p \in Pairs, RelatedFailed(p) PROVE TypeOK'
    BY <1>4 DEF RelatedFailed, OKAfter
<1>5. CASE RelatedReturns
    BY <1>5 DEF RelatedReturns, Universe
<1>6. ASSUME NEW t \in Tokens, FlowDone(t) PROVE TypeOK'
    BY <1>6 DEF FlowDone
<1>7. ASSUME NEW t \in Tokens, FlowFailed(t) PROVE TypeOK'
    BY <1>7 DEF FlowFailed
<1>8. CASE TokensReturn
    BY <1>8 DEF TokensReturn
<1>9. CASE Judge
    <2>1. ASSUME NEW t \in Tokens
          PROVE  Judged(t, related, relatedOK, flow[t]) \in Verdicts
        BY DecideTotal DEF Judged
    <2>2. verdict' \in [Tokens -> Verdicts \cup {NoVerdict}]
        BY <1>9, <2>1 DEF Judge
    <2> QED
        BY <1>9, <2>2 DEF Judge
<1>10. CASE Interrupt
    BY <1>10 DEF Interrupt
<1>11. CASE UNCHANGED vars
    BY <1>11 DEF vars
<1> QED
    BY <1>1, <1>2, <1>3, <1>4, <1>5, <1>6, <1>7, <1>8, <1>9, <1>10, <1>11 DEF Next, Over

\* A related-wallets answer only adds what is true, and answers its pair.
LEMMA StepKnown == TypeOK /\ KnownIsTrue /\ [Next]_vars => KnownIsTrue'
<1> SUFFICES ASSUME TypeOK, KnownIsTrue, [Next]_vars PROVE KnownIsTrue'
    OBVIOUS
<1>1. UNCHANGED rows
    BY DEF Next, vars, world, SeedArrives, SeedFails, RelatedDone, RelatedFailed, RelatedReturns,
           FlowDone, FlowFailed, TokensReturn, Judge, Interrupt, Over
<1>2. ASSUME NEW p \in Pairs, RelatedDone(p) PROVE KnownIsTrue'
    <2>1. rows[p] \subseteq AllRows(p[1])
        BY DEF AllRows
    <2>2. ASSUME NEW w \in Wallets PROVE related'[w] \subseteq AllRows(w)
        BY <1>2, <2>1 DEF RelatedDone, RelatedRows, KnownIsTrue, TypeOK
    <2> QED
        BY <1>1, <2>2 DEF KnownIsTrue, AllRows
<1>3. CASE UNCHANGED related
    BY <1>1, <1>3 DEF KnownIsTrue, AllRows
<1> QED
    BY <1>2, <1>3 DEF Next, vars, SeedArrives, SeedFails, RelatedFailed, RelatedReturns,
                      FlowDone, FlowFailed, TokensReturn, Judge, Interrupt, Over

\* The pool answers a pair or takes its wallet out of the covered ones; it
\* returns with none under way, unless the run was interrupted.
LEMMA StepCovered ==
    TypeOK /\ CoveredAnswered /\ [Next]_vars => CoveredAnswered'
<1> SUFFICES ASSUME TypeOK, CoveredAnswered, [Next]_vars PROVE CoveredAnswered'
    OBVIOUS
<1> USE DEF CoveredAnswered, CoveredPairs, Answered, world
<1>1. CASE SeedArrives
    BY <1>1 DEF SeedArrives
<1>2. CASE SeedFails
    BY <1>2 DEF SeedFails
<1>3. ASSUME NEW p \in Pairs, RelatedDone(p) PROVE CoveredAnswered'
    <2>1. ASSUME NEW q \in Pairs PROVE related[q[1]] \subseteq related'[q[1]]
        BY <1>3, <2>1 DEF RelatedDone, RelatedRows, TypeOK
    <2>2. p[1] \in kept => rows[p] \subseteq related'[p[1]]
        BY <1>3 DEF RelatedDone, RelatedRows, TypeOK
    <2>3. ASSUME NEW q \in CoveredPairs' PROVE q \in waiting' \/ Answered(q)'
        BY <1>3, <2>1, <2>2, <2>3 DEF RelatedDone
    <2> QED
        BY <1>3, <2>3 DEF RelatedDone
<1>4. ASSUME NEW p \in Pairs, RelatedFailed(p) PROVE CoveredAnswered'
    <2>1. ASSUME NEW q \in CoveredPairs' PROVE q \in CoveredPairs /\ q[1] # p[1]
        BY <1>4, <2>1 DEF RelatedFailed, OKAfter, TypeOK
    <2>2. ASSUME NEW q \in CoveredPairs' PROVE q \in waiting' \/ Answered(q)'
        BY <1>4, <2>1, <2>2 DEF RelatedFailed
    <2> QED
        BY <1>4, <2>2 DEF RelatedFailed
<1>5. CASE RelatedReturns
    BY <1>5 DEF RelatedReturns, PoolReturns
<1>6. ASSUME NEW t \in Tokens, FlowDone(t) \/ FlowFailed(t) PROVE CoveredAnswered'
    BY <1>6 DEF FlowDone, FlowFailed
<1>7. CASE TokensReturn
    BY <1>7 DEF TokensReturn
<1>8. CASE Judge
    BY <1>8 DEF Judge
<1>9. CASE Interrupt
    BY <1>9 DEF Interrupt
<1>10. CASE UNCHANGED vars
    BY <1>10 DEF vars
<1> QED
    BY <1>1, <1>2, <1>3, <1>4, <1>5, <1>6, <1>7, <1>8, <1>9, <1>10 DEF Next, Over

\* A flow answer is the token's rows; every failure is on the list.
LEMMA StepFlow == TypeOK /\ FlowAnswered /\ [Next]_vars => FlowAnswered'
<1> SUFFICES ASSUME TypeOK, FlowAnswered, [Next]_vars PROVE FlowAnswered'
    OBVIOUS
<1> USE DEF FlowAnswered, world
<1>1. Universe \subseteq Tokens
    BY DEF Universe
<1>2. kept' = kept => Universe' = Universe
    BY DEF Universe
<1>3. CASE SeedArrives
    BY <1>3 DEF SeedArrives
<1>4. CASE SeedFails
    BY <1>4, <1>2 DEF SeedFails
<1>5. ASSUME NEW p \in Pairs, RelatedDone(p) PROVE FlowAnswered'
    BY <1>5 DEF RelatedDone
<1>6. ASSUME NEW p \in Pairs, RelatedFailed(p) PROVE FlowAnswered'
    BY <1>6 DEF RelatedFailed
<1>7. CASE RelatedReturns
    BY <1>7, <1>2 DEF RelatedReturns
<1>8. ASSUME NEW t \in Tokens, FlowDone(t) PROVE FlowAnswered'
    BY <1>8, <1>1, <1>2 DEF FlowDone, TypeOK
<1>9. ASSUME NEW t \in Tokens, FlowFailed(t) PROVE FlowAnswered'
    BY <1>9, <1>2 DEF FlowFailed
<1>10. CASE TokensReturn
    BY <1>10, <1>2 DEF TokensReturn, PoolReturns
<1>11. CASE Judge
    BY <1>11, <1>2 DEF Judge
<1>12. CASE Interrupt
    BY <1>12, <1>2 DEF Interrupt
<1>13. CASE UNCHANGED vars
    BY <1>13, <1>2 DEF vars
<1> QED
    BY <1>3, <1>4, <1>5, <1>6, <1>7, <1>8, <1>9, <1>10, <1>11, <1>12, <1>13 DEF Next, Over

\* Nothing a verdict was computed from changes after Judge.
LEMMA StepJudged == TypeOK /\ VerdictsAsJudged /\ [Next]_vars => VerdictsAsJudged'
<1> SUFFICES ASSUME TypeOK, VerdictsAsJudged, [Next]_vars, stage' = "done" PROVE VerdictsAsJudged'
    BY DEF VerdictsAsJudged
<1>1. Judge \/ UNCHANGED vars
    BY DEF Next, Over, SeedArrives, SeedFails, RelatedDone, RelatedFailed, RelatedReturns,
           FlowDone, FlowFailed, TokensReturn, Interrupt, TypeOK
<1>2. UNCHANGED <<kept, related, relatedOK, flow>>
    BY <1>1 DEF Judge, vars
<1>3. Universe' = Universe
    BY <1>2 DEF Universe
<1>4. ASSUME NEW t \in Tokens
      PROVE  Judged(t, related, relatedOK, flow[t])' = Judged(t, related, relatedOK, flow[t])
    <2>1. BuyersOf(t)' = BuyersOf(t) /\ Bought(t)' = Bought(t)
        BY <1>2 DEF BuyersOf, Bought
    <2> QED
        BY <1>2, <2>1 DEF Judged
<1>5. CASE Judge
    BY <1>3, <1>4, <1>5 DEF Judge, VerdictsAsJudged
<1>6. CASE UNCHANGED vars
    BY <1>3, <1>4, <1>6 DEF vars, VerdictsAsJudged
<1> QED
    BY <1>1, <1>5, <1>6

\* The invariant holds in every reachable state.
THEOREM Invariance == Spec => []IInv
<1>1. IInv /\ [Next]_vars => IInv'
    BY StepType, StepKnown, StepCovered, StepFlow, StepJudged DEF IInv
<1> QED
    BY InitIInv, <1>1, PTL DEF Spec

-----------------------------------------------------------------------------
(* The properties follow from the invariant.                               *)

\* A covered wallet's related rows are all of Nansen's rows for it.
THEOREM CoveredComplete == Spec => []CoveredIsComplete
<1>1. IInv => CoveredIsComplete
    <2> SUFFICES ASSUME IInv, NEW w \in kept, stage \notin {"seed", "related"}, ~cancelled, relatedOK[w]
                 PROVE  AllRows(w) \subseteq related[w]
        BY DEF IInv, TypeOK, KnownIsTrue, CoveredIsComplete
    <2> QED
        BY DEF IInv, TypeOK, CoveredAnswered, CoveredPairs, Answered, AllRows
<1> QED
    BY <1>1, Invariance, PTL

Found(t) == [w \in BuyersOf(t) |-> FundersOf(related[w])]
Truth(B) == [w \in B |-> TrueFunders(w)]
CoveredOf(t) == {w \in BuyersOf(t) : relatedOK[w]}

\* A token's buyers are finitely many, and so are the numbers it is judged on.
LEMMA BuyersFinite ==
    ASSUME TypeOK, NEW t \in Tokens
    PROVE  IsFiniteSet(BuyersOf(t))
BY UniverseAssumption, FS_Subset DEF TypeOK, BuyersOf

\* The numbers Judge hands to decideWithFloor are those of buyers, groups and
\* covered buyers: naturals, neither of the last two above the first.
LEMMA JudgedNumbers ==
    ASSUME TypeOK, NEW t \in Tokens
    PROVE  /\ Cardinality(BuyersOf(t)) \in Nat
           /\ Cardinality(Components(BuyersOf(t), Found(t))) \in Nat
           /\ Cardinality(CoveredOf(t)) \in Nat
           /\ Cardinality(Components(BuyersOf(t), Found(t))) <= Cardinality(BuyersOf(t))
           /\ Cardinality(CoveredOf(t)) <= Cardinality(BuyersOf(t))
           /\ Cardinality(CoveredOf(t)) = Cardinality(BuyersOf(t)) => CoveredOf(t) = BuyersOf(t)
<1>1. IsFiniteSet(BuyersOf(t))
    BY BuyersFinite
<1>2. CoveredOf(t) \in SUBSET BuyersOf(t)
    BY DEF CoveredOf
<1>3. /\ IsFiniteSet(CoveredOf(t))
      /\ Cardinality(CoveredOf(t)) <= Cardinality(BuyersOf(t))
      /\ Cardinality(BuyersOf(t)) = Cardinality(CoveredOf(t)) => BuyersOf(t) = CoveredOf(t)
    BY <1>1, <1>2, FS_Subset
<1>4. /\ IsFiniteSet(Components(BuyersOf(t), Found(t)))
      /\ Cardinality(Components(BuyersOf(t), Found(t))) <= Cardinality(BuyersOf(t))
    BY <1>1, ComponentsBounded
<1> QED
    BY <1>1, <1>3, <1>4, FS_CardinalityType

\* The row Judge reads the flows of token t from.
Row(t) == IF flow[t] = {} THEN NoRow ELSE CHOOSE row \in flow[t] : TRUE

\* A token that has a verdict was judged on what the run found.
LEMMA VerdictIsDecided ==
    ASSUME IInv, stage = "done", NEW t \in Tokens, verdict[t] # NoVerdict
    PROVE  verdict[t] = decideWithFloor(Cardinality(BuyersOf(t)),
                                        Cardinality(Components(BuyersOf(t), Found(t))),
                                        Cardinality(CoveredOf(t)),
                                        Row(t).smart, Row(t).exchange, ExitCheckable(flow[t]),
                                        Bought(t), Floor)
<1>1. verdict[t] = Judged(t, related, relatedOK, flow[t])
    BY DEF IInv, VerdictsAsJudged
<1> QED
    BY <1>1 DEF Judged, Row, CoveredOf, Found

\* What Run filters out of all of a wallet's rows is its true funders.
LEMMA TrueFundersFound ==
    \A w \in Wallets : FundersOf(AllRows(w)) = TrueFunders(w)
BY DEF FundersOf, TrueFunders

\* A covered wallet's funders are the true ones.
LEMMA CoveredFunders ==
    ASSUME IInv, stage = "done", ~cancelled, NEW w \in kept, relatedOK[w]
    PROVE  related[w] = AllRows(w)
BY DEF IInv, TypeOK, KnownIsTrue, CoveredAnswered, CoveredPairs, Answered, AllRows

\* "Missing data never inflates M" of every run that is not interrupted: a
\* cleared token has as many groups as buyers on the whole data too, because a
\* clean verdict asks for all its buyers to be covered.
THEOREM ClearedIndependent == Spec => []UninterruptedClearedAreIndependent
<1>1. ASSUME IInv, ~cancelled, stage = "done", NEW t \in Tokens, verdict[t] \in Cleared
      PROVE  Cardinality(TrueGroups(BuyersOf(t))) = Cardinality(BuyersOf(t))
    <2> DEFINE B == BuyersOf(t)
    <2>1. Cardinality(Components(B, Found(t))) = Cardinality(B) /\ Cardinality(CoveredOf(t)) = Cardinality(B)
        <3>1. verdict[t] # NoVerdict
            BY <1>1 DEF Cleared, NoVerdict
        <3> QED
            BY <1>1, <3>1, VerdictIsDecided, JudgedNumbers, DecideCleared DEF IInv
    <2>2. \A w \in B : relatedOK[w]
        BY <1>1, <2>1, JudgedNumbers DEF IInv, CoveredOf
    <2>3. Found(t) = Truth(B)
        BY <1>1, <2>2, CoveredFunders, TrueFundersFound DEF IInv, TypeOK, Found, Truth, BuyersOf
    <2> QED
        BY <2>1, <2>3 DEF TrueGroups, Truth
<1>2. IInv => UninterruptedClearedAreIndependent
    BY <1>1 DEF UninterruptedClearedAreIndependent, ClearedAreIndependent
<1> QED
    BY <1>2, Invariance, PTL

\* Whatever was lost, what was found is part of the truth.
LEMMA FoundUnderstates ==
    ASSUME IInv, NEW t \in Tokens
    PROVE  Understates(BuyersOf(t), Found(t), Truth(BuyersOf(t)))
<1>1. \A w \in BuyersOf(t) : w \in Wallets /\ TrueFunders(w) = FundersOf(AllRows(w))
    BY TrueFundersFound DEF IInv, TypeOK, BuyersOf
<1>2. \A w \in BuyersOf(t) : FundersOf(related[w]) \subseteq FundersOf(AllRows(w))
    BY <1>1 DEF IInv, KnownIsTrue, FundersOf
<1> QED
    BY <1>1, <1>2 DEF Understates, Found, Truth

\* What an accusing verdict was computed from: fewer groups found than buyers,
\* a single one for THIN.
LEMMA AccusedFound ==
    ASSUME IInv, stage = "done", NEW t \in Tokens, verdict[t] \in Collapse
    PROVE  /\ Cardinality(Components(BuyersOf(t), Found(t))) < Cardinality(BuyersOf(t))
           /\ verdict[t] = "THIN" => Cardinality(Components(BuyersOf(t), Found(t))) = 1
<1>1. verdict[t] # NoVerdict
    BY DEF Collapse, NoVerdict
<1> QED
    BY <1>1, VerdictIsDecided, JudgedNumbers, DecideCollapse DEF IInv

\* No failed call, no interruption and no cut ever makes the report accuse a
\* token whose buyers are not funded together.
THEOREM AccusationsTrue == Spec => []AccusationsAreTrue
<1>1. ASSUME IInv, stage = "done", NEW t \in Tokens, verdict[t] \in Collapse
      PROVE  /\ Cardinality(TrueGroups(BuyersOf(t))) < Cardinality(BuyersOf(t))
             /\ verdict[t] = "THIN" => Cardinality(TrueGroups(BuyersOf(t))) = 1
    <2> DEFINE B == BuyersOf(t)
               found == Components(B, Found(t))
               true == Components(B, Truth(B))
    <2>1. IsFiniteSet(B) /\ TrueGroups(B) = true
        BY <1>1, BuyersFinite DEF IInv, TrueGroups, Truth
    <2>2. Cardinality(true) <= Cardinality(found)
        BY <1>1, <2>1, FoundUnderstates, UnknownFundersSplit
    <2>3. Cardinality(found) < Cardinality(B) /\ (verdict[t] = "THIN" => Cardinality(found) = 1)
        BY <1>1, AccusedFound
    <2>4. IsFiniteSet(true) /\ IsFiniteSet(found)
        BY <2>1, ComponentsBounded
    <2>5. Cardinality(true) \in Nat /\ Cardinality(found) \in Nat /\ Cardinality(B) \in Nat
        BY <2>1, <2>4, FS_CardinalityType
    <2>6. B # {}
        BY <2>3, <2>5, FS_EmptySet
    <2>7. true # {}
        BY <2>6 DEF Components
    <2>8. Cardinality(true) # 0
        BY <2>4, <2>7, FS_EmptySet
    <2> HIDE DEF found, true
    <2>9. Cardinality(true) < Cardinality(B) /\ (verdict[t] = "THIN" => Cardinality(true) = 1)
        BY <2>2, <2>3, <2>5, <2>8
    <2> QED
        BY <2>1, <2>9
<1>2. IInv => AccusationsAreTrue
    BY <1>1 DEF AccusationsAreTrue, Collapse
<1> QED
    BY <1>2, Invariance, PTL

\* The row Judge reads is Nansen's, whenever there is an exchange side in it.
LEMMA RowIsTrue ==
    ASSUME IInv, NEW t \in Tokens, ExitCheckable(flow[t])
    PROVE  flowRow[t] = {Row(t)} /\ Row(t).observed /\ Row(t) \in FlowRows
<1>1. flow[t] # {}
    BY DEF ExitCheckable
<1>2. PICK f \in FlowRows : flowRow[t] = {f} /\ flow[t] = {f}
    BY <1>1 DEF IInv, FlowAnswered
<1>3. Row(t) = f
    BY <1>2 DEF Row
<1> QED
    BY <1>2, <1>3 DEF ExitCheckable

\* The row Judge reads holds two amounts.
LEMMA RowType ==
    ASSUME TypeOK, NEW t \in Tokens
    PROVE  Row(t).smart \in Int /\ Row(t).exchange \in Int
<1>1. CASE flow[t] = {}
    BY <1>1 DEF Row, NoRow
<1>2. CASE flow[t] # {}
    <2>1. Row(t) \in flow[t]
        BY <1>2 DEF Row
    <2> QED
        BY <2>1, UniverseAssumption DEF TypeOK
<1> QED
    BY <1>1, <1>2

\* Exits are reported, and CONFIRMED is, only on flows Nansen has: a failed flow
\* call or a token without an exchange side can do neither.
THEOREM ExitVerdictsTrue == Spec => []ExitVerdictsAreTrue
<1>1. ASSUME IInv, stage = "done", NEW t \in Tokens,
             verdict[t] \in {"BOTH", "DISTRIBUTING", "EXIT_ONLY", "CONFIRMED"}
      PROVE  /\ verdict[t] # "CONFIRMED" => TrueExit(t)
             /\ verdict[t] = "CONFIRMED" => ~TrueExit(t) /\ \E f \in flowRow[t] : f.observed
    <2>1. verdict[t] # NoVerdict
        BY <1>1 DEF NoVerdict
    <2>2. ExitCheckable(flow[t]) \in BOOLEAN
        BY DEF ExitCheckable
    <2>3. /\ verdict[t] # "CONFIRMED" =>
                ExitCheckable(flow[t]) /\ Row(t).smart > 0 /\ Row(t).exchange > 0
          /\ verdict[t] = "CONFIRMED" =>
                ExitCheckable(flow[t]) /\ ~(Row(t).smart > 0 /\ Row(t).exchange > 0)
        BY <1>1, <2>1, <2>2, VerdictIsDecided, JudgedNumbers, RowType, DecideExit DEF IInv
    <2>4. flowRow[t] = {Row(t)} /\ Row(t).observed
        BY <1>1, <2>3, RowIsTrue
    <2> QED
        BY <2>3, <2>4 DEF TrueExit
<1>2. IInv => ExitVerdictsAreTrue
    BY <1>1 DEF ExitVerdictsAreTrue
<1> QED
    BY <1>2, Invariance, PTL

\* A run that lost nothing reports what the whole data says: neither the order
\* in which calls return nor the spread of a wallet over chains shows.
THEOREM CompleteExact == Spec => []CompleteRunIsExact
<1> DEFINE all == [w \in Wallets |-> AllRows(w)]
           covered == [w \in Wallets |-> TRUE]
<1>1. ASSUME IInv, stage = "done", Complete, NEW t \in Universe
      PROVE  verdict[t] = Judged(t, all, covered, flowRow[t])
    <2>1. t \in Tokens /\ ~cancelled /\ failures = {} /\ BuyersOf(t) \subseteq kept /\ kept \subseteq Wallets
        BY <1>1 DEF Universe, Complete, BuyersOf, IInv, TypeOK
    <2>2. flow[t] = flowRow[t] /\ \A w \in Wallets : relatedOK[w]
        BY <1>1, <2>1 DEF IInv, FlowAnswered
    <2>3. \A w \in BuyersOf(t) : related[w] = all[w] /\ relatedOK[w] = covered[w]
        BY <1>1, <2>1, <2>2, CoveredFunders DEF IInv, TypeOK
    <2> HIDE DEF all, covered
    <2>4. /\ [w \in BuyersOf(t) |-> FundersOf(related[w])] = [w \in BuyersOf(t) |-> FundersOf(all[w])]
          /\ {w \in BuyersOf(t) : relatedOK[w]} = {w \in BuyersOf(t) : covered[w]}
        BY <2>3
    <2>5. Judged(t, related, relatedOK, flow[t]) = Judged(t, all, covered, flowRow[t])
        BY <2>2, <2>4 DEF Judged
    <2> QED
        BY <1>1, <2>1, <2>5 DEF IInv, VerdictsAsJudged
<1>2. IInv => CompleteRunIsExact
    BY <1>1 DEF CompleteRunIsExact
<1> QED
    BY <1>2, Invariance, PTL
=============================================================================
