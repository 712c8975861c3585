---------------------------- MODULE CallPlanProofs ----------------------------
(***************************************************************************)
(* What the operator is told a run will cost is what it costs, for every   *)
(* seed, every limit on the wallets and however many runs share the cache. *)
(***************************************************************************)
EXTENDS CallPlan, SetProofs

Stages == {"pnl", "related", "tokens", "prices"}

\* Where all runs start alike.
Fresh == plan = NoPlan /\ paid = [e \in Endpoints |-> 0]

TypeOK ==
    /\ stage \in Stages \cup {"start", "plan", "seed", "over"}
    /\ kept \in SUBSET Wallets
    /\ \A c \in left : c[1] \in Endpoints /\ c \in PlannedCalls(c[1], kept)
    /\ stage \notin Stages => left = {}
    /\ stage \in Stages => Cut(kept)
    /\ paid \in [Endpoints -> Nat]
    /\ spoilt \in BOOLEAN /\ cancelled \in BOOLEAN /\ settled \in BOOLEAN
    /\ stage \in {"start", "plan"} => Fresh

-----------------------------------------------------------------------------
(* The universe is the same for the plan and for the run.                  *)

LEMMA TotalIsNumber ==
    ASSUME NEW w \in Wallets
    PROVE  Total(w) \in Int
<1>1. Total(w) = SumOf(Spent[w], Tokens)
    BY DEF Total, SumOf
<1>2. IsFiniteSet(Tokens) /\ \A t \in Tokens : Spent[w][t] \in Int
    BY SeedAssumption
<1> QED
    BY <1>1, <1>2, SumLaws

\* The cut falls in one place: no two wallets are each before the other.
LEMMA CutIsUnique ==
    ASSUME NEW K \in SUBSET Wallets, NEW L \in SUBSET Wallets, Cut(K), Cut(L)
    PROVE  K = L
<1>1. CASE ~Limited
    BY <1>1 DEF Cut
<1>2. CASE Limited
    <2>1. IsFiniteSet(K) /\ IsFiniteSet(L) /\ Cardinality(K) = Cardinality(L)
        BY <1>2, SeedAssumption, FS_Subset DEF Cut
    <2>2. ASSUME NEW w \in K \ L, NEW v \in L \ K PROVE FALSE
        <3>1. Before(w, v) /\ Before(v, w)
            BY <1>2, <2>2 DEF Cut
        <3>2. Total(w) \in Int /\ Total(v) \in Int /\ w \in Nat /\ v \in Nat
            BY TotalIsNumber, SeedAssumption
        <3> QED
            BY <3>1, <3>2 DEF Before
    <2>3. K \subseteq L \/ L \subseteq K
        BY <2>2
    <2> QED
        BY <2>1, <2>3, FS_Subset
<1> QED
    BY <1>1, <1>2

LEMMA OnFinite ==
    ASSUME NEW e, NEW S, IsFiniteSet(S)
    PROVE  IsFiniteSet(On(e, S))
<1> DEFINE g == [s \in S |-> <<e, s>>]
<1>1. g \in Surjection(S, On(e, S))
    BY DEF Surjection, On
<1> QED
    BY <1>1, FS_Surjection

\* A line of the plan counts finitely many calls, all of its own endpoint.
LEMMA PlannedCallsOf ==
    ASSUME NEW K \in SUBSET Wallets, NEW e \in Endpoints
    PROVE  IsFiniteSet(PlannedCalls(e, K)) /\ \A c \in PlannedCalls(e, K) : c[1] = e
<1>1. /\ IsFiniteSet(K) /\ IsFiniteSet({p \in Pairs : p[1] \in K})
      /\ IsFiniteSet(Universe(K)) /\ IsFiniteSet({t \in Universe(K) : Bought(t)})
    <2>1. Universe(K) \subseteq Tokens /\ {t \in Universe(K) : Bought(t)} \subseteq Tokens
        BY DEF Universe, TokensOf
    <2> QED
        BY <2>1, SeedAssumption, FS_Subset
<1>2. IsFiniteSet({Seed})
    BY FS_Singleton
<1>3. IsFiniteSet(PlannedCalls(e, K))
    BY <1>1, <1>2, OnFinite DEF PlannedCalls, Endpoints
<1>4. \A c \in PlannedCalls(e, K) : c[1] = e
    BY DEF PlannedCalls, On, Seed, Endpoints
<1> QED
    BY <1>3, <1>4

\* What a stage asks for was planned, as long as it prices what may be priced.
LEMMA AskedWasPlanned ==
    ASSUME NEW K \in SUBSET Wallets, NEW s, NEW P \in SUBSET Priceable(K),
           NEW c \in AskedCalls(s, K, P)
    PROVE  c[1] \in Endpoints /\ c \in PlannedCalls(c[1], K)
<1>1. CASE s = "pnl"
    BY <1>1 DEF AskedCalls, PlannedCalls, On, Endpoints
<1>2. CASE s = "related"
    BY <1>2 DEF AskedCalls, PlannedCalls, On, Endpoints
<1>3. CASE s = "tokens"
    BY <1>3 DEF AskedCalls, PlannedCalls, On, Endpoints
<1>4. CASE s = "prices"
    BY <1>4 DEF AskedCalls, PlannedCalls, On, Endpoints, Priceable
<1> QED
    BY <1>1, <1>2, <1>3, <1>4 DEF AskedCalls

\* Nothing is left outside the pools, and what a pool starts with was planned.
LEMMA LeftWasPlanned ==
    ASSUME NEW K \in SUBSET Wallets, NEW s, NEW P \in SUBSET Tokens, s = "prices" => Priced(K, P),
           s # "prices" => P = {}
    PROVE  /\ \A c \in AskedCalls(s, K, P) : c[1] \in Endpoints /\ c \in PlannedCalls(c[1], K)
           /\ s \notin Stages => AskedCalls(s, K, P) = {}
<1>1. P \in SUBSET Priceable(K)
    BY DEF Priced
<1> QED
    BY <1>1, AskedWasPlanned DEF AskedCalls, Stages

LEMMA TypeInit == PlanInit => TypeOK
<1> SUFFICES ASSUME PlanInit PROVE TypeOK
    OBVIOUS
<1>1. paid \in [Endpoints -> Nat] /\ Fresh
    BY DEF PlanInit, Fresh
<1> QED
    BY <1>1 DEF PlanInit, TypeOK, Stages

LEMMA TypeNext == TypeOK /\ [PlanNext]_planVars => TypeOK'
<1> SUFFICES ASSUME TypeOK, [PlanNext]_planVars PROVE TypeOK'
    OBVIOUS
<1>1. CASE ImportSeed
    BY <1>1 DEF ImportSeed, TypeOK, Stages, Fresh
<1>2. CASE MakePlan
    BY <1>2 DEF MakePlan, TypeOK, Stages, Fresh
<1>3. CASE SkipPlan
    BY <1>3 DEF SkipPlan, TypeOK, Stages, Fresh
<1>4. CASE SeedArrives
    <2>1. PICK K \in SUBSET Wallets : Cut(K) /\ kept' = K /\ left' = AskedCalls("pnl", K, {})
        BY <1>4 DEF SeedArrives
    <2>2. \A c \in left' : c[1] \in Endpoints /\ c \in PlannedCalls(c[1], kept')
        BY <2>1, LeftWasPlanned
    <2>3. paid' \in [Endpoints -> Nat]
        BY <1>4 DEF SeedArrives, Pay, TypeOK
    <2> QED
        BY <1>4, <2>1, <2>2, <2>3 DEF SeedArrives, TypeOK, Stages
<1>5. CASE SeedFails
    BY <1>5 DEF SeedFails, TypeOK, Stages, Fresh
<1>6. ASSUME NEW c \in left, Answered(c) PROVE TypeOK'
    <2>1. stage \in Stages
        BY <1>6 DEF TypeOK
    <2>2. paid' \in [Endpoints -> Nat]
        BY <1>6 DEF Answered, Pay, TypeOK
    <2> QED
        BY <1>6, <2>1, <2>2 DEF Answered, TypeOK, Stages
<1>7. ASSUME NEW c \in left, Failed(c) PROVE TypeOK'
    <2>1. stage \in Stages
        BY <1>7 DEF TypeOK
    <2> QED
        BY <1>7, <2>1 DEF Failed, TypeOK, Stages
<1>8. CASE StageDone
    <2>1. PICK P \in SUBSET Tokens : /\ stage' = "prices" => Priced(kept, P)
                                     /\ stage' # "prices" => P = {}
                                     /\ left' = AskedCalls(stage', kept, P)
        BY <1>8 DEF StageDone
    <2>2. kept \in SUBSET Wallets
        BY DEF TypeOK
    <2>3. PICK s : s = stage'
        OBVIOUS
    <2>4. /\ \A c \in left' : c[1] \in Endpoints /\ c \in PlannedCalls(c[1], kept)
          /\ s \notin Stages => left' = {}
        BY <2>1, <2>2, <2>3, LeftWasPlanned
    <2>5. stage' \in Stages \cup {"over"}
        BY <1>8 DEF StageDone, Following, Stages
    <2>6. UNCHANGED <<kept, cache, plan, paid, spoilt, cancelled, settled>> /\ stage \in Stages
        BY <1>8 DEF StageDone, Stages
    <2> QED
        BY <2>3, <2>4, <2>5, <2>6 DEF TypeOK, Stages
<1>9. CASE Interrupt
    BY <1>9 DEF Interrupt, TypeOK, Stages, Fresh
<1>10. CASE RunAgain
    <2>1. TypeOK!4' /\ TypeOK!6'
        BY <1>10 DEF RunAgain, Endpoints, Stages
    <2> QED
        BY <1>10, <2>1 DEF RunAgain, TypeOK, Stages, Fresh
<1>11. CASE UNCHANGED planVars
    BY <1>11 DEF planVars, TypeOK, Fresh
<1> QED
    BY <1>1, <1>2, <1>3, <1>4, <1>5, <1>6, <1>7, <1>8, <1>9, <1>10, <1>11 DEF PlanNext, Over

-----------------------------------------------------------------------------
(* What is paid and what is still planned and not in the cache are what    *)
(* the plan said: the two together never change.                           *)

NewCalls(e, K) == Cardinality(PlannedCalls(e, K) \ cache)

Balanced(K) == \A e \in Endpoints : paid[e] + NewCalls(e, K) = plan[e]

PlanInv == FullPlan => Seed \in cache /\ \E K \in SUBSET Wallets : Cut(K) /\ Balanced(K)

\* Paying for a planned call takes it off what is new in its own line.
LEMMA PayKeepsBalance ==
    ASSUME TypeOK, NEW K \in SUBSET Wallets, NEW c, c[1] \in Endpoints, c \in PlannedCalls(c[1], K),
           Pay(c), plan' = plan, Balanced(K)
    PROVE  Balanced(K)'
<1>1. CASE c \in cache
    BY <1>1 DEF Pay, Balanced, NewCalls
<1>2. CASE c \notin cache
    <2> SUFFICES ASSUME NEW e \in Endpoints
                 PROVE  paid'[e] + Cardinality(PlannedCalls(e, K) \ cache') = plan[e]
        BY DEF Balanced, NewCalls
    <2>1. PICK new : new = PlannedCalls(e, K) \ cache
        OBVIOUS
    <2>2. IsFiniteSet(new)
        BY <2>1, PlannedCallsOf, FS_Subset
    <2>3. paid[e] + Cardinality(new) = plan[e] /\ paid[e] \in Nat /\ Cardinality(new) \in Nat
        BY <2>1, <2>2, FS_CardinalityType DEF Balanced, NewCalls, TypeOK
    <2>4. cache' = cache \cup {c} /\ paid' = [paid EXCEPT ![c[1]] = @ + 1]
        BY <1>2 DEF Pay
    <2>5. CASE c[1] = e
        <3>1. c \in new /\ PlannedCalls(e, K) \ cache' = new \ {c}
            BY <1>2, <2>1, <2>4, <2>5
        <3>2. Cardinality(new \ {c}) = Cardinality(new) - 1
            BY <2>2, <3>1, FS_RemoveElement, FS_CardinalityType
        <3>3. paid'[e] = paid[e] + 1
            BY <2>4, <2>5 DEF TypeOK
        <3>4. PICK n \in Nat : n = Cardinality(new)
            BY <2>3
        <3>5. Cardinality(PlannedCalls(e, K) \ cache') = n - 1
            BY <3>1, <3>2, <3>4
        <3> QED
            BY <2>3, <3>3, <3>4, <3>5
    <2>6. CASE c[1] # e
        <3>1. c \notin PlannedCalls(e, K)
            BY <2>6, PlannedCallsOf
        <3>2. PlannedCalls(e, K) \ cache' = new
            BY <2>1, <2>4, <3>1
        <3>3. paid'[e] = paid[e]
            BY <2>4, <2>6 DEF TypeOK
        <3> QED
            BY <2>3, <3>2, <3>3
    <2> QED
        BY <2>5, <2>6
<1> QED
    BY <1>1, <1>2

LEMMA PlanInvInit == PlanInit => PlanInv
BY DEF PlanInit, PlanInv, FullPlan, NoPlan, Endpoints

\* A step that leaves cache, plan and payments alone.
LEMMA PlanInvSame ==
    ASSUME PlanInv, UNCHANGED <<cache, plan, paid>>
    PROVE  PlanInv'
BY DEF PlanInv, FullPlan, Balanced, NewCalls

LEMMA PlanInvNext == TypeOK /\ PlanInv /\ [PlanNext]_planVars => PlanInv'
<1> SUFFICES ASSUME TypeOK, PlanInv, [PlanNext]_planVars PROVE PlanInv'
    OBVIOUS
<1>1. CASE ImportSeed
    <2>1. plan' = NoPlan
        BY <1>1 DEF ImportSeed, TypeOK, Fresh
    <2> QED
        BY <2>1 DEF PlanInv, FullPlan, NoPlan, Endpoints
<1>2. CASE MakePlan
    <2> SUFFICES ASSUME FullPlan' PROVE Seed \in cache' /\ \E L \in SUBSET Wallets : Cut(L) /\ Balanced(L)'
        BY DEF PlanInv
    <2>1. PICK K \in SUBSET Wallets :
              /\ Cut(K)
              /\ plan' = [e \in IF Seed \in cache THEN Endpoints ELSE {"dex-trades"} |->
                            Cardinality(PlannedCalls(e, K) \ cache)]
        BY <1>2 DEF MakePlan
    <2>2. Seed \in cache
        BY <2>1 DEF FullPlan, Endpoints
    <2>3. UNCHANGED <<cache, paid>> /\ paid = [e \in Endpoints |-> 0]
        BY <1>2 DEF MakePlan, TypeOK, Fresh
    <2>4. ASSUME NEW e \in Endpoints PROVE paid'[e] + Cardinality(PlannedCalls(e, K) \ cache') = plan'[e]
        <3>1. Cardinality(PlannedCalls(e, K) \ cache) \in Nat
            BY PlannedCallsOf, FS_Subset, FS_CardinalityType
        <3> QED
            BY <2>1, <2>2, <2>3, <3>1
    <2> QED
        BY <2>1, <2>2, <2>3, <2>4 DEF Balanced, NewCalls
<1>3. CASE SkipPlan
    BY <1>3, PlanInvSame DEF SkipPlan
<1>4. CASE SeedArrives
    <2>1. FullPlan => Seed \in cache
        BY DEF PlanInv
    <2>2. Seed \in cache => UNCHANGED <<cache, plan, paid>>
        BY <1>4 DEF SeedArrives, Pay
    <2>3. plan' = plan
        BY <1>4 DEF SeedArrives
    <2> QED
        BY <2>1, <2>2, <2>3, PlanInvSame DEF PlanInv, FullPlan
<1>5. CASE SeedFails
    BY <1>5, PlanInvSame DEF SeedFails
<1>6. ASSUME NEW c \in left, Answered(c) PROVE PlanInv'
    <2> SUFFICES ASSUME FullPlan' PROVE Seed \in cache' /\ \E L \in SUBSET Wallets : Cut(L) /\ Balanced(L)'
        BY DEF PlanInv
    <2>1. FullPlan /\ Pay(c) /\ plan' = plan
        BY <1>6 DEF Answered, FullPlan
    <2>2. cache \subseteq cache'
        BY <2>1 DEF Pay
    <2>3. kept \in SUBSET Wallets /\ Cut(kept) /\ c[1] \in Endpoints /\ c \in PlannedCalls(c[1], kept)
        BY <1>6 DEF TypeOK
    <2>4. PICK K \in SUBSET Wallets : Cut(K) /\ Balanced(K)
        BY <2>1 DEF PlanInv
    <2>5. K = kept
        BY <2>3, <2>4, CutIsUnique
    <2>6. Balanced(K)'
        BY <2>1, <2>3, <2>4, <2>5, PayKeepsBalance
    <2>7. Seed \in cache'
        BY <2>1, <2>2 DEF PlanInv
    <2> QED
        BY <2>4, <2>6, <2>7
<1>7. ASSUME NEW c \in left, Failed(c) PROVE PlanInv'
    BY <1>7, PlanInvSame DEF Failed
<1>8. CASE StageDone
    BY <1>8, PlanInvSame DEF StageDone
<1>9. CASE Interrupt
    BY <1>9, PlanInvSame DEF Interrupt
<1>10. CASE RunAgain
    BY <1>10 DEF RunAgain, PlanInv, FullPlan, NoPlan, Endpoints
<1>11. CASE UNCHANGED planVars
    BY <1>11, PlanInvSame DEF planVars
<1> QED
    BY <1>1, <1>2, <1>3, <1>4, <1>5, <1>6, <1>7, <1>8, <1>9, <1>10, <1>11 DEF PlanNext, Over

\* A plan made from a cached seed is a ceiling for every line of what the run
\* goes on to spend: whatever fails, and whichever verdicts come of it.
THEOREM PlanNeverExceeded == PlanSpec => []PlanIsCeiling
<1>1. TypeOK /\ PlanInv => PlanIsCeiling
    <2> SUFFICES ASSUME TypeOK, PlanInv, FullPlan, NEW e \in Endpoints PROVE paid[e] <= plan[e]
        BY DEF PlanIsCeiling
    <2>1. PICK K \in SUBSET Wallets : Cut(K) /\ Balanced(K)
        BY DEF PlanInv
    <2>2. paid[e] + NewCalls(e, K) = plan[e]
        BY <2>1 DEF Balanced
    <2>3. NewCalls(e, K) \in Nat /\ paid[e] \in Nat
        BY PlannedCallsOf, FS_Subset, FS_CardinalityType DEF NewCalls, TypeOK
    <2> QED
        BY <2>2, <2>3
<1> QED
    BY <1>1, TypeInit, TypeNext, PlanInvInit, PlanInvNext, PTL DEF PlanSpec

-----------------------------------------------------------------------------
(* A run that nothing went wrong in asks for everything it planned, and    *)
(* leaves everything it asked for in the cache.                            *)

\* What a stage asks for if the verdicts rest on the full data.
Full(s, K) == AskedCalls(s, K, Worthy \cap Priceable(K))

Behind(s) ==
    CASE stage = "related" -> s = "pnl"
      [] stage = "tokens"  -> s \in {"pnl", "related"}
      [] stage = "prices"  -> s \in {"pnl", "related", "tokens"}
      [] stage = "over"    -> TRUE
      [] OTHER             -> FALSE

CacheInv ==
    ~spoilt =>
        /\ ~cancelled
        /\ stage \in Stages \cup {"over"} => Seed \in cache /\ kept \in SUBSET Wallets /\ Cut(kept)
        /\ stage \in Stages => left \subseteq Full(stage, kept) /\ Full(stage, kept) \subseteq cache \cup left
        /\ \A s \in Stages : Behind(s) => Full(s, kept) \subseteq cache

LEMMA CacheInvInit == PlanInit => CacheInv
BY DEF PlanInit, CacheInv, Behind, Stages

LEMMA CacheInvNext == TypeOK /\ CacheInv /\ [PlanNext]_planVars => CacheInv'
<1> SUFFICES ASSUME TypeOK, CacheInv, [PlanNext]_planVars, ~spoilt' PROVE CacheInv'
    BY DEF CacheInv
<1>1. CASE ImportSeed
    BY <1>1 DEF ImportSeed, CacheInv, Behind, Stages
<1>2. CASE MakePlan
    BY <1>2 DEF MakePlan, CacheInv, Behind, Stages
<1>3. CASE SkipPlan
    BY <1>3 DEF SkipPlan, CacheInv, Behind, Stages
<1>4. CASE SeedArrives
    <2>1. PICK K \in SUBSET Wallets : Cut(K) /\ kept' = K /\ left' = AskedCalls("pnl", K, {})
        BY <1>4 DEF SeedArrives
    <2>2. Seed \in cache' /\ stage' = "pnl" /\ UNCHANGED <<spoilt, cancelled>>
        BY <1>4 DEF SeedArrives, Pay
    <2>3. left' = Full("pnl", K)
        BY <2>1 DEF Full, AskedCalls
    <2>4. ~cancelled
        BY <2>2 DEF CacheInv
    <2> QED
        BY <2>1, <2>2, <2>3, <2>4 DEF CacheInv, Behind, Stages
<1>5. CASE SeedFails
    BY <1>5 DEF SeedFails, TypeOK
<1>6. ASSUME NEW c \in left, Answered(c) PROVE CacheInv'
    <2>1. cache' = cache \cup {c} /\ left' = left \ {c} /\ UNCHANGED <<stage, kept, spoilt, cancelled>>
        BY <1>6 DEF Answered, Pay
    <2>2. \A s : Behind(s)' <=> Behind(s)
        BY <2>1 DEF Behind
    <2> QED
        BY <2>1, <2>2 DEF CacheInv
<1>7. ASSUME NEW c \in left, Failed(c) PROVE CacheInv'
    BY <1>7 DEF Failed, TypeOK
<1>8. CASE StageDone
    <2>1. PICK P \in SUBSET Tokens : /\ stage' = "prices" => Priced(kept, P)
                                     /\ left' = AskedCalls(stage', kept, P)
        BY <1>8 DEF StageDone
    <2>2. UNCHANGED <<kept, cache, spoilt, cancelled>> /\ stage' = Following(stage) /\ stage \in Stages
        BY <1>8 DEF StageDone, Stages
    <2>3. ~spoilt /\ ~cancelled /\ left = {}
        BY <1>8, <2>2 DEF StageDone, CacheInv
    <2>4. left' = Full(stage', kept)
        BY <2>1, <2>3 DEF Full, AskedCalls, Priced
    <2>5. Full(stage, kept) \subseteq cache /\ Seed \in cache /\ kept \in SUBSET Wallets /\ Cut(kept)
        BY <2>2, <2>3 DEF CacheInv
    <2>6. \A s \in Stages : Behind(s)' => s = stage \/ Behind(s)
        BY <2>2 DEF Behind, Following, Stages
    <2>7. \A s \in Stages : Behind(s)' => Full(s, kept) \subseteq cache
        BY <2>3, <2>5, <2>6 DEF CacheInv
    <2> QED
        BY <2>2, <2>3, <2>4, <2>5, <2>7 DEF CacheInv
<1>9. CASE Interrupt
    BY <1>9 DEF Interrupt
<1>10. CASE RunAgain
    BY <1>10 DEF RunAgain, CacheInv, Behind, Stages
<1>11. CASE UNCHANGED planVars
    BY <1>11 DEF planVars, CacheInv, Behind
<1> QED
    BY <1>1, <1>2, <1>3, <1>4, <1>5, <1>6, <1>7, <1>8, <1>9, <1>10, <1>11 DEF PlanNext, Over

\* What the plan counts, but for the prices, is what the stages ask for.
LEMMA PlannedIsAsked ==
    ASSUME NEW K \in SUBSET Wallets, NEW e \in Endpoints \ {"token-ohlcv"}, NEW c \in PlannedCalls(e, K)
    PROVE  c = Seed \/ \E s \in Stages : c \in Full(s, K)
<1>1. CASE e = "dex-trades"
    BY <1>1 DEF PlannedCalls
<1>2. CASE e = "pnl-summary"
    <2>1. c \in Full("pnl", K)
        BY <1>2 DEF PlannedCalls, Full, AskedCalls
    <2> QED
        BY <2>1 DEF Stages
<1>3. CASE e = "related-wallets"
    <2>1. c \in Full("related", K)
        BY <1>3 DEF PlannedCalls, Full, AskedCalls
    <2> QED
        BY <2>1 DEF Stages
<1>4. CASE e \in {"flow-intelligence", "token-information"}
    <2>1. c \in Full("tokens", K)
        BY <1>4 DEF PlannedCalls, Full, AskedCalls
    <2> QED
        BY <2>1 DEF Stages
<1> QED
    BY <1>1, <1>2, <1>3, <1>4 DEF Endpoints

\* And it is exact but for the prices, once a run went through unspoilt.
THEOREM PlanIsWhatItCosts == PlanSpec => []PlanIsExact
<1>1. TypeOK /\ PlanInv /\ CacheInv => PlanIsExact
    <2> SUFFICES ASSUME TypeOK, PlanInv, CacheInv, FullPlan, stage = "over", ~spoilt,
                        NEW e \in Endpoints \ {"token-ohlcv"}
                 PROVE  paid[e] = plan[e]
        BY DEF PlanIsExact
    <2>1. PICK K \in SUBSET Wallets : Cut(K) /\ Balanced(K)
        BY DEF PlanInv
    <2>2. K = kept /\ Seed \in cache
        BY <2>1, CutIsUnique DEF CacheInv
    <2>3. \A s \in Stages : Full(s, K) \subseteq cache
        BY <2>2 DEF CacheInv, Behind, Stages
    <2>4. PlannedCalls(e, K) \ cache = {}
        BY <2>2, <2>3, PlannedIsAsked
    <2>5. paid[e] + NewCalls(e, K) = plan[e] /\ NewCalls(e, K) = 0 /\ paid[e] \in Nat
        BY <2>1, <2>4, FS_EmptySet DEF Balanced, NewCalls, TypeOK
    <2> QED
        BY <2>5
<1> QED
    BY <1>1, TypeInit, TypeNext, PlanInvInit, PlanInvNext, CacheInvInit, CacheInvNext, PTL DEF PlanSpec

-----------------------------------------------------------------------------
(* After that, nothing is new.                                             *)

AllKnown == Seed \in cache /\ \A K \in SUBSET Wallets, s \in Stages : Cut(K) => Full(s, K) \subseteq cache

\* Where less than the full data can move a verdict, nothing is sent any more.
FreeInv ==
    settled =>
        /\ AllKnown
        /\ paid = [e \in Endpoints |-> 0]
        /\ cancelled \/ left \subseteq cache
        /\ spoilt => cancelled \/ stage = "over"

LEMMA FreeInvInit == PlanInit => FreeInv
BY DEF PlanInit, FreeInv

LEMMA FreeInvNext == TypeOK /\ CacheInv /\ FreeInv /\ [PlanNext]_planVars => FreeInv'
<1> SUFFICES ASSUME TypeOK, CacheInv, FreeInv, [PlanNext]_planVars, settled' PROVE FreeInv'
    BY DEF FreeInv
<1>1. CASE ImportSeed
    <2>1. cache' = cache /\ UNCHANGED <<paid, left, spoilt, cancelled, settled>> /\ stage # "over"
        BY <1>1 DEF ImportSeed, FreeInv, AllKnown
    <2> QED
        BY <2>1 DEF FreeInv, AllKnown
<1>2. CASE MakePlan
    BY <1>2 DEF MakePlan, FreeInv, AllKnown
<1>3. CASE SkipPlan
    BY <1>3 DEF SkipPlan, FreeInv, AllKnown
<1>4. CASE SeedArrives
    <2>1. PICK K \in SUBSET Wallets : Cut(K) /\ left' = AskedCalls("pnl", K, {})
        BY <1>4 DEF SeedArrives
    <2>2. UNCHANGED <<cache, paid, spoilt, cancelled, settled>> /\ stage # "over"
        BY <1>4 DEF SeedArrives, Pay, FreeInv, AllKnown
    <2>3. left' \subseteq cache
        BY <2>1, <2>2 DEF Full, AskedCalls, FreeInv, AllKnown, Stages
    <2> QED
        BY <2>2, <2>3 DEF FreeInv, AllKnown
<1>5. CASE SeedFails
    BY <1>5 DEF SeedFails, FreeInv, AllKnown
<1>6. ASSUME NEW c \in left, Answered(c) PROVE FreeInv'
    <2>1. settled /\ c \in cache
        BY <1>6 DEF Answered, FreeInv
    <2> QED
        BY <1>6, <2>1 DEF Answered, Pay, FreeInv, AllKnown
<1>7. ASSUME NEW c \in left, Failed(c) PROVE FreeInv'
    BY <1>7 DEF Failed, FreeInv, AllKnown
<1>8. CASE StageDone
    <2>1. PICK P \in SUBSET Tokens : /\ stage' = "prices" => Priced(kept, P)
                                     /\ left' = AskedCalls(stage', kept, P)
        BY <1>8 DEF StageDone
    <2>2. UNCHANGED <<cache, paid, spoilt, cancelled, settled>> /\ stage \in Stages
        BY <1>8 DEF StageDone, Stages
    <2>3. CASE cancelled
        BY <2>2, <2>3 DEF FreeInv, AllKnown
    <2>4. CASE ~cancelled
        <3>1. ~spoilt
            BY <2>2, <2>4 DEF FreeInv, Stages
        <3>2. left' = Full(stage', kept)
            BY <2>1, <3>1 DEF Full, AskedCalls, Priced
        <3>3. kept \in SUBSET Wallets /\ Cut(kept) /\ stage' \in Stages \cup {"over"}
            BY <1>8, <2>2 DEF StageDone, Following, Stages, TypeOK
        <3>4. left' \subseteq cache
            <4>1. CASE stage' \in Stages
                BY <2>2, <3>2, <3>3, <4>1 DEF FreeInv, AllKnown
            <4>2. CASE stage' = "over"
                BY <3>2, <4>2 DEF Full, AskedCalls
            <4> QED
                BY <3>3, <4>1, <4>2
        <3> QED
            BY <2>2, <3>1, <3>4 DEF FreeInv, AllKnown
    <2> QED
        BY <2>3, <2>4
<1>9. CASE Interrupt
    BY <1>9 DEF Interrupt, FreeInv, AllKnown
<1>10. CASE RunAgain
    <2>1. AllKnown
        <3>1. CASE settled
            BY <3>1 DEF FreeInv
        <3>2. CASE stage = "over" /\ ~spoilt
            <4>1. Seed \in cache /\ kept \in SUBSET Wallets /\ Cut(kept)
                BY <3>2 DEF CacheInv
            <4>2. \A s \in Stages : Full(s, kept) \subseteq cache
                BY <3>2 DEF CacheInv, Behind
            <4> QED
                BY <4>1, <4>2, CutIsUnique DEF AllKnown
        <3> QED
            BY <1>10, <3>1, <3>2 DEF RunAgain
    <2> QED
        BY <1>10, <2>1 DEF RunAgain, FreeInv, AllKnown
<1>11. CASE UNCHANGED planVars
    BY <1>11 DEF planVars, FreeInv, AllKnown
<1> QED
    BY <1>1, <1>2, <1>3, <1>4, <1>5, <1>6, <1>7, <1>8, <1>9, <1>10, <1>11 DEF PlanNext, Over

\* "Re-runs, tests, and the demo cost zero credits": once a run went through
\* unspoilt, no later run pays for anything, interrupted or not.
THEOREM RerunsAreFree == PlanSpec => []RerunIsFree
<1>1. FreeInv => RerunIsFree
    BY DEF FreeInv, RerunIsFree
<1> QED
    BY <1>1, TypeInit, TypeNext, CacheInvInit, CacheInvNext, FreeInvInit, FreeInvNext, PTL DEF PlanSpec
=============================================================================
