------------------------------ MODULE Pipeline ------------------------------
(***************************************************************************)
(* Pipeline.Run (internal/pipeline/pipeline.go) from the seed to the       *)
(* verdicts: the universe cut of --max-wallets, the related-wallets pool,  *)
(* the flow pool, and the judgement of every token on what arrived.  Each  *)
(* pool is ForEach with an item's call and write as one step: the write is *)
(* under the wallet's own lock, and nothing is read before the pool is     *)
(* done.  Clusters are FunderGraph's components, which Cluster computes.   *)
(* The calls that feed no verdict (pnl-summary, token-information, prices) *)
(* are left out.                                                           *)
(***************************************************************************)
EXTENDS Verdict, FunderGraph, FiniteSetsExt

CONSTANTS
    Wallets, Outsiders,  \* seed buyers, and addresses that are not
    Tokens,
    Spent,      \* dollars each wallet spent on each token in the seed, 0: did not buy it
    Pairs,      \* the <<wallet, chain>> pairs of the seed
    Answers,    \* what Nansen may list for each pair: sets of <<relation, address>>
    FlowRows,   \* flow-intelligence rows
    Floor,      \* MinSignalUSD
    MaxWallets, \* --max-wallets, 0: all
    Failing, Interruptible  \* whether calls fail, and whether the user may interrupt

NoRow == [smart |-> 0, exchange |-> 0, observed |-> FALSE]  \* the zero value of a token without a row

Addresses == Wallets \cup Outsiders

\* Rows of related-wallets: a relation that is a funding edge, and one that is not.
Rows == {"First Funder", "Deployed via"} \X Addresses

ASSUME UniverseAssumption ==
    /\ Wallets \cap Outsiders = {}
    /\ IsFiniteSet(Wallets) /\ IsFiniteSet(Outsiders)
    /\ Spent \in [Wallets -> [Tokens -> Nat]]
    /\ Pairs \subseteq Wallets \X {p[2] : p \in Pairs}
    /\ \A w \in Wallets : \E p \in Pairs : p[1] = w
    /\ Answers \in [Pairs -> SUBSET SUBSET Rows]
    /\ FlowRows \subseteq [smart : Int, exchange : Int, observed : BOOLEAN]
    /\ Floor \in Nat /\ MaxWallets \in Nat
    /\ Failing \in BOOLEAN /\ Interruptible \in BOOLEAN

\* What Nansen knows.
VARIABLES
    rows,     \* each pair's related wallets, as <<relation, address>>
    flowRow   \* each token's flow rows, at most one

\* What the run has got hold of.
VARIABLES
    stage,      \* "seed", "related", "tokens", "judge", "done", "aborted"
    kept,       \* the wallets of walletAggs
    waiting,    \* items of the running pool that have not returned
    related,    \* relatedWallets per wallet
    relatedOK,  \* per wallet
    flow,       \* per token, the rows that came
    failures,   \* the items recorded as failed
    cancelled,
    verdict     \* per token

world == <<rows, flowRow>>
vars == <<rows, flowRow, stage, kept, waiting, related, relatedOK, flow, failures, cancelled, verdict>>

NoVerdict == "none"

Init ==
    /\ rows \in [Pairs -> UNION {Answers[p] : p \in Pairs}]
    /\ \A p \in Pairs : rows[p] \in Answers[p]
    /\ flowRow \in [Tokens -> {{}} \cup {{f} : f \in FlowRows}]
    /\ stage = "seed"
    /\ kept = {}
    /\ waiting = {}
    /\ related = [w \in Wallets |-> {}]
    /\ relatedOK = [w \in Wallets |-> TRUE]
    /\ flow = [t \in Tokens |-> {}]
    /\ failures = {}
    /\ cancelled = FALSE
    /\ verdict = [t \in Tokens |-> NoVerdict]

SumOver(f, S) == MapThenSumSet(LAMBDA x : f[x], S)

Total(w) == SumOver(Spent[w], Tokens)

\* limitUniverse: the wallets that spent most; which of those that spent the
\* same is settled by their addresses.
Limited == MaxWallets > 0 /\ Cardinality(Wallets) > MaxWallets

Cut(K) ==
    IF Limited
    THEN /\ Cardinality(K) = MaxWallets
         /\ \A w \in K, v \in Wallets \ K : Total(w) >= Total(v)
    ELSE K = Wallets

SeedArrives ==
    /\ stage = "seed"
    /\ \E K \in SUBSET Wallets :
          /\ Cut(K)
          /\ kept' = K
          /\ waiting' = {p \in Pairs : p[1] \in K}
    /\ stage' = "related"
    /\ UNCHANGED <<world, related, relatedOK, flow, failures, cancelled, verdict>>

\* Without a seed Run returns the error.
SeedFails ==
    /\ stage = "seed"
    /\ Failing \/ cancelled
    /\ stage' = "aborted"
    /\ UNCHANGED <<world, kept, waiting, related, relatedOK, flow, failures, cancelled, verdict>>

\* Mutant: the last chain's answer replaces the others.
RelatedRowsLast(old, new) == new

\* Chains add to what is known of a wallet.
RelatedRows(old, new) == old \cup new

RelatedDone(p) ==
    /\ stage = "related"
    /\ p \in waiting
    /\ waiting' = waiting \ {p}
    /\ related' = [related EXCEPT ![p[1]] = RelatedRows(@, rows[p])]
    /\ UNCHANGED <<world, stage, kept, relatedOK, flow, failures, cancelled, verdict>>

\* Mutant: each chain's call reports its own success, as if it were the wallet's.
OKAfterNever(ok) == ok

\* relatedOK is cleared by any failure and never set again.
OKAfter(ok) == FALSE

RelatedFailed(p) ==
    /\ stage = "related"
    /\ p \in waiting
    /\ Failing \/ cancelled
    /\ waiting' = waiting \ {p}
    /\ relatedOK' = [relatedOK EXCEPT ![p[1]] = OKAfter(@)]
    /\ failures' = failures \cup {p}
    /\ UNCHANGED <<world, stage, kept, related, flow, cancelled, verdict>>

\* tokenAggs after limitUniverse: cut, it holds the tokens a kept wallet bought.
Universe == IF Limited THEN {t \in Tokens : \E w \in kept : Spent[w][t] > 0} ELSE Tokens

\* runPool returns when every item has, or leaves items out if the run was
\* interrupted: the tail of its list that was not dispatched, here any of them.
\* Nothing is recorded for those.
PoolReturns == waiting = {} \/ cancelled

RelatedReturns ==
    /\ stage = "related"
    /\ PoolReturns
    /\ stage' = "tokens"
    /\ waiting' = Universe
    /\ UNCHANGED <<world, kept, related, relatedOK, flow, failures, cancelled, verdict>>

FlowDone(t) ==
    /\ stage = "tokens"
    /\ t \in waiting
    /\ waiting' = waiting \ {t}
    /\ flow' = [flow EXCEPT ![t] = flowRow[t]]
    /\ UNCHANGED <<world, stage, kept, related, relatedOK, failures, cancelled, verdict>>

FlowFailed(t) ==
    /\ stage = "tokens"
    /\ t \in waiting
    /\ Failing \/ cancelled
    /\ waiting' = waiting \ {t}
    /\ failures' = failures \cup {t}
    /\ UNCHANGED <<world, stage, kept, related, relatedOK, flow, cancelled, verdict>>

TokensReturn ==
    /\ stage = "tokens"
    /\ PoolReturns
    /\ stage' = "judge"
    /\ waiting' = {}
    /\ UNCHANGED <<world, kept, related, relatedOK, flow, failures, cancelled, verdict>>

\* Mutant: every related wallet is a funder.
FundersOfAny(rel) == {r[2] : r \in rel}

\* Only "First Funder" is a funding edge.
FundersOf(rel) == {r[2] : r \in {s \in rel : s[1] = "First Funder"}}

BuyersOf(t) == {w \in kept : Spent[w][t] > 0}

Bought(t) == SumOver([w \in kept |-> Spent[w][t]], kept)

\* Mutant: a token without an exchange side passes for checked.
ExitCheckableAnyRow(fl) == fl # {}

ExitCheckable(fl) == \E f \in fl : f.observed

\* A token's verdict on given relations, coverage and flow rows.
Judged(t, rel, ok, fl) ==
    LET B == BuyersOf(t)
        groups == Components(B, [w \in B |-> FundersOf(rel[w])])
        f == IF fl = {} THEN NoRow ELSE CHOOSE row \in fl : TRUE
    IN  decideWithFloor(Cardinality(B), Cardinality(groups), Cardinality({w \in B : ok[w]}),
                        f.smart, f.exchange, ExitCheckable(fl), Bought(t), Floor)

\* Nothing asks whether the run was interrupted.
Judge ==
    /\ stage = "judge"
    /\ verdict' = [t \in Tokens |->
                     IF t \in Universe THEN Judged(t, related, relatedOK, flow[t]) ELSE NoVerdict]
    /\ stage' = "done"
    /\ UNCHANGED <<world, kept, waiting, related, relatedOK, flow, failures, cancelled>>

Interrupt ==
    /\ Interruptible
    /\ ~cancelled
    /\ stage \notin {"done", "aborted"}
    /\ cancelled' = TRUE
    /\ UNCHANGED <<world, stage, kept, waiting, related, relatedOK, flow, failures, verdict>>

Over == stage \in {"done", "aborted"} /\ UNCHANGED vars

Next ==
    \/ SeedArrives \/ SeedFails
    \/ \E p \in Pairs : RelatedDone(p) \/ RelatedFailed(p)
    \/ RelatedReturns
    \/ \E t \in Tokens : FlowDone(t) \/ FlowFailed(t)
    \/ TokensReturn
    \/ Judge
    \/ Interrupt
    \/ Over

Spec == Init /\ [][Next]_vars

-----------------------------------------------------------------------------
(* Properties.                                                             *)

TypeOK ==
    /\ rows \in [Pairs -> SUBSET Rows]
    /\ flowRow \in [Tokens -> SUBSET FlowRows]
    /\ stage \in {"seed", "related", "tokens", "judge", "done", "aborted"}
    /\ kept \subseteq Wallets
    /\ waiting \subseteq (Pairs \cup Tokens)
    /\ related \in [Wallets -> SUBSET Rows]
    /\ relatedOK \in [Wallets -> BOOLEAN]
    /\ flow \in [Tokens -> SUBSET FlowRows]
    /\ failures \subseteq (Pairs \cup Tokens)
    /\ cancelled \in BOOLEAN
    /\ verdict \in [Tokens -> Verdicts \cup {NoVerdict}]

\* What Nansen knows of wallet w, all chains together.
AllRows(w) == UNION {rows[p] : p \in {q \in Pairs : q[1] = w}}

\* The addresses Nansen lists as having funded w first, on any chain.
TrueFunders(w) == {r[2] : r \in {s \in AllRows(w) : s[1] = "First Funder"}}

TrueGroups(B) == Components(B, [w \in B |-> TrueFunders(w)])

\* The exit signal, read off what Nansen knows of the token.
TrueExit(t) == \E f \in flowRow[t] : f.observed /\ f.smart > 0 /\ f.exchange > 0

Complete == failures = {} /\ ~cancelled

\* What is known of a wallet is true, and a wallet that counts as covered once
\* its pool is done has had every one of its chains answered, in a run that
\* nobody interrupts.
CoveredIsComplete ==
    \A w \in kept :
        /\ related[w] \subseteq AllRows(w)
        /\ stage \notin {"seed", "related"} /\ ~cancelled /\ relatedOK[w] => related[w] = AllRows(w)

\* A run that lost nothing says exactly what the whole data says: no order in
\* which a pool's items return and no split of a wallet over chains matters.
CompleteRunIsExact ==
    stage = "done" /\ Complete => \A t \in Universe :
        verdict[t] = Judged(t, [w \in Wallets |-> AllRows(w)], [w \in Wallets |-> TRUE], flowRow[t])

\* A verdict that accuses rests on funding that is there, whatever failed or
\* was left out: its buyers do collapse, to one group if it says THIN.
AccusationsAreTrue ==
    stage = "done" => \A t \in Tokens :
        /\ verdict[t] \in Collapse => Cardinality(TrueGroups(BuyersOf(t))) < Cardinality(BuyersOf(t))
        /\ verdict[t] = "THIN" => Cardinality(TrueGroups(BuyersOf(t))) = 1

\* No token is shown with an exit signal its flows do not carry, nor
\* CONFIRMED when they carry one, or when no exchange side was observed.
ExitVerdictsAreTrue ==
    stage = "done" => \A t \in Tokens :
        /\ verdict[t] \in {"BOTH", "DISTRIBUTING", "EXIT_ONLY"} => TrueExit(t)
        /\ verdict[t] = "CONFIRMED" => ~TrueExit(t) /\ \E f \in flowRow[t] : f.observed

\* "Missing data never inflates M": a token cleared of shared funders has none
\* among the buyers that were judged.
ClearedAreIndependent ==
    stage = "done" => \A t \in Tokens :
        verdict[t] \in Cleared => Cardinality(TrueGroups(BuyersOf(t))) = Cardinality(BuyersOf(t))

\* The same of every run nobody interrupts, calls failing or not.
UninterruptedClearedAreIndependent == ~cancelled => ClearedAreIndependent
=============================================================================
