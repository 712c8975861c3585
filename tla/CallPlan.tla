------------------------------- MODULE CallPlan -------------------------------
(***************************************************************************)
(* What a run asks for and what the operator was told it would: main       *)
(* (cmd/scorecard/main.go) from the seed import over Plan                  *)
(* (internal/pipeline/plan.go) and the confirmation to the pools of        *)
(* Pipeline.Run, over several runs that share the disk cache.  Plan walks  *)
(* the universe with loops of its own; PlannedCalls and AskedCalls keep    *)
(* the two walks apart.  A call is answered, paid for and stored in one    *)
(* step, or fails unpaid: what else may befall it is Client's subject.     *)
(***************************************************************************)
EXTENDS Integers, FiniteSets, FiniteSetsExt

CONSTANTS
    Wallets,    \* the seed's traders, numbered by address
    Tokens,     \* the seed's tokens, bought or sold
    Spent,      \* dollars each wallet spent on each token, 0: did not buy it
    Pairs,      \* the <<wallet, chain>> pairs of the seed
    Worthy,     \* tokens whose verdict on the full data is not WEAK
    MaxWallets, \* --max-wallets, 0: all
    MaxRuns     \* bound: how many times the program is run

ASSUME SeedAssumption ==
    /\ Wallets \subseteq Nat /\ IsFiniteSet(Wallets)
    /\ IsFiniteSet(Tokens) /\ IsFiniteSet(Pairs)
    /\ Spent \in [Wallets -> [Tokens -> Nat]]
    /\ \A w \in Wallets : \E p \in Pairs : p[1] = w
    /\ Worthy \subseteq Tokens
    /\ MaxWallets \in Nat /\ MaxRuns \in Nat \ {0}

Endpoints == {"dex-trades", "pnl-summary", "related-wallets",
              "flow-intelligence", "token-information", "token-ohlcv"}

Seed == <<"dex-trades", "all">>

VARIABLES
    stage,   \* "start", "plan", "seed", "pnl", "related", "tokens", "prices", "over"
    kept,    \* the wallets of this run's universe
    left,    \* the running pool's calls that have not returned
    cache,   \* the calls whose response is on disk
    plan,    \* this run's plan: for each of its lines, the new calls
    paid,    \* this run's paid calls, per endpoint
    spoilt,  \* this run was interrupted, or a call failed
    cancelled,
    settled, \* history: an earlier run went through unspoilt
    runs

planVars == <<stage, kept, left, cache, plan, paid, spoilt, cancelled, settled, runs>>

NoPlan == [e \in {} |-> 0]
FullPlan == DOMAIN plan = Endpoints

PlanInit ==
    /\ stage = "start"
    /\ kept = {}
    /\ left = {}
    /\ cache = {}
    /\ plan = NoPlan
    /\ paid = [e \in Endpoints |-> 0]
    /\ spoilt = FALSE
    /\ cancelled = FALSE
    /\ settled = FALSE
    /\ runs = 1

-----------------------------------------------------------------------------
(* The universe.                                                           *)

Total(w) == MapThenSumSet(LAMBDA t : Spent[w][t], Tokens)

Limited == MaxWallets > 0 /\ Cardinality(Wallets) > MaxWallets

\* Mutant: ties fall as the map is walked.
BeforeInAnyOrder(w, v) == Total(w) >= Total(v)

Before(w, v) == Total(w) > Total(v) \/ (Total(w) = Total(v) /\ w < v)

\* limitUniverse on the seed, as Plan and Run both call it.
Cut(K) ==
    IF Limited
    THEN Cardinality(K) = MaxWallets /\ \A w \in K, v \in Wallets \ K : Before(w, v)
    ELSE K = Wallets

Bought(t) == \E w \in Wallets : Spent[w][t] > 0

\* limitUniverse keeps the tokens that a kept wallet bought.
TokensOf(K) == {t \in Tokens : \E w \in K : Spent[w][t] > 0}

Universe(K) == IF Limited THEN TokensOf(K) ELSE Tokens

On(e, subjects) == {<<e, s>> : s \in subjects}

\* Mutant: the plan counts wallets where the run asks per chain.
PlannedCallsPerWallet(e, K) ==
    CASE e = "dex-trades" -> {Seed}
      [] e \in {"pnl-summary", "related-wallets"} -> On(e, K)
      [] e \in {"flow-intelligence", "token-information"} -> On(e, Universe(K))
      [] OTHER -> On(e, {t \in Universe(K) : Bought(t)})

\* Plan: the calls each line counts; the last line is an upper bound.
PlannedCalls(e, K) ==
    CASE e = "dex-trades" -> {Seed}
      [] e = "pnl-summary" -> On(e, K)
      [] e = "related-wallets" -> On(e, {p \in Pairs : p[1] \in K})
      [] e \in {"flow-intelligence", "token-information"} -> On(e, Universe(K))
      [] OTHER -> On(e, {t \in Universe(K) : Bought(t)})

\* Run: the calls of each stage, prices for the tokens with a verdict alone.
AskedCalls(s, K, priced) ==
    CASE s = "pnl"     -> On("pnl-summary", K)
      [] s = "related" -> On("related-wallets", {p \in Pairs : p[1] \in K})
      [] s = "tokens"  -> On("flow-intelligence", Universe(K)) \cup On("token-information", Universe(K))
      [] s = "prices"  -> On("token-ohlcv", priced)
      [] OTHER         -> {}

-----------------------------------------------------------------------------

\* ImportSeedFixture, with or without a fixture to import: no call, no credits.
ImportSeed ==
    /\ stage = "start"
    /\ cache' \in {cache, cache \cup {Seed}}
    /\ stage' = "plan"
    /\ UNCHANGED <<kept, left, plan, paid, spoilt, cancelled, settled, runs>>

\* Without a cached seed the plan is its first line.
MakePlan ==
    /\ stage = "plan"
    /\ \E K \in SUBSET Wallets :
          /\ Cut(K)
          /\ plan' = [e \in IF Seed \in cache THEN Endpoints ELSE {"dex-trades"} |->
                        Cardinality(PlannedCalls(e, K) \ cache)]
    /\ stage' \in {"seed", "over"}
    /\ spoilt' = (spoilt \/ stage' = "over")
    /\ UNCHANGED <<kept, left, cache, paid, cancelled, settled, runs>>

\* --yes.
SkipPlan ==
    /\ stage = "plan"
    /\ stage' = "seed"
    /\ UNCHANGED <<kept, left, cache, plan, paid, spoilt, cancelled, settled, runs>>

Pay(c) ==
    IF c \in cache
    THEN UNCHANGED <<cache, paid>>
    ELSE cache' = cache \cup {c} /\ paid' = [paid EXCEPT ![c[1]] = @ + 1]

SeedArrives ==
    /\ stage = "seed"
    /\ Seed \in cache \/ ~cancelled
    /\ Pay(Seed)
    /\ \E K \in SUBSET Wallets :
          /\ Cut(K)
          /\ kept' = K
          /\ left' = AskedCalls("pnl", K, {})
    /\ stage' = "pnl"
    /\ UNCHANGED <<plan, spoilt, cancelled, settled, runs>>

SeedFails ==
    /\ stage = "seed"
    /\ Seed \notin cache
    /\ stage' = "over"
    /\ spoilt' = TRUE
    /\ UNCHANGED <<kept, left, cache, plan, paid, cancelled, settled, runs>>

\* Once the context is done nothing is sent any more.
Answered(c) ==
    /\ c \in left
    /\ c \in cache \/ ~cancelled
    /\ left' = left \ {c}
    /\ Pay(c)
    /\ UNCHANGED <<stage, kept, plan, spoilt, cancelled, settled, runs>>

Failed(c) ==
    /\ c \in left \ cache
    /\ left' = left \ {c}
    /\ spoilt' = TRUE
    /\ UNCHANGED <<stage, kept, cache, plan, paid, cancelled, settled, runs>>

Interrupt ==
    /\ stage \notin {"start", "over"}
    /\ ~cancelled
    /\ cancelled' = TRUE
    /\ spoilt' = TRUE
    /\ UNCHANGED <<stage, kept, left, cache, plan, paid, settled, runs>>

Following(s) ==
    CASE s = "pnl" -> "related" [] s = "related" -> "tokens" [] s = "tokens" -> "prices" [] OTHER -> "over"

\* What attachMoves may price: tokens the seed shows bought.
Priceable(K) == {t \in Universe(K) : Bought(t)}

\* Verdicts on full data are the seed's own; on less they may be any.
Priced(K, P) == P \subseteq Priceable(K) /\ (~spoilt => P = Worthy \cap Priceable(K))

\* A pool returns with all its calls, or with what an interrupt left of them.
StageDone ==
    /\ stage \in {"pnl", "related", "tokens", "prices"}
    /\ left = {} \/ cancelled
    /\ stage' = Following(stage)
    /\ \E P \in SUBSET Tokens :
          /\ IF stage' = "prices" THEN Priced(kept, P) ELSE P = {}
          /\ left' = AskedCalls(stage', kept, P)
    /\ UNCHANGED <<kept, cache, plan, paid, spoilt, cancelled, settled, runs>>

\* The program is run again, after it ended or was killed.
RunAgain ==
    /\ runs < MaxRuns
    /\ runs' = runs + 1
    /\ settled' = (settled \/ (stage = "over" /\ ~spoilt))
    /\ stage' = "start"
    /\ kept' = {}
    /\ left' = {}
    /\ plan' = NoPlan
    /\ paid' = [e \in Endpoints |-> 0]
    /\ spoilt' = FALSE
    /\ cancelled' = FALSE
    /\ UNCHANGED cache

Over == stage = "over" /\ UNCHANGED planVars

PlanNext ==
    \/ ImportSeed \/ MakePlan \/ SkipPlan
    \/ SeedArrives \/ SeedFails
    \/ \E c \in left : Answered(c) \/ Failed(c)
    \/ StageDone
    \/ Interrupt
    \/ RunAgain
    \/ Over

PlanSpec == PlanInit /\ [][PlanNext]_planVars

-----------------------------------------------------------------------------
(* Properties.                                                             *)

\* A plan made from a cached seed is a ceiling for every line of what the run
\* goes on to spend, whatever fails unpaid and whichever verdicts come of it.
PlanIsCeiling == FullPlan => \A e \in Endpoints : paid[e] <= plan[e]

\* And it is exact but for the prices, which Plan marks as an upper bound.
PlanIsExact ==
    FullPlan /\ stage = "over" /\ ~spoilt => \A e \in Endpoints \ {"token-ohlcv"} : paid[e] = plan[e]

\* "Re-runs, tests, and the demo cost zero credits": after a run that went
\* through unspoilt, no run pays for anything.
RerunIsFree == settled => \A e \in Endpoints : paid[e] = 0
=============================================================================
