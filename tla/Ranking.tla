------------------------------- MODULE Ranking -------------------------------
(***************************************************************************)
(* score.ScoreWallets (internal/score/score.go): the ranks of a cohort in  *)
(* four measures, the penalties, and the order in which wallets are        *)
(* listed.  Wallets are numbers in the order of their addresses.  Amounts  *)
(* are exact: a fraction is a pair <<num, den>>, and -Inf is <<-1, 0>>.    *)
(***************************************************************************)
EXTENDS Integers, FunderGraph, SequencesExt

Less(x, y) == x[1] * y[2] < y[1] * x[2]
Same(x, y) == x[1] * y[2] = y[1] * x[2]
Plus(x, y) == <<x[1] * y[2] + y[1] * x[2], x[2] * y[2]>>
Times(k, x) == <<k * x[1], x[2]>>

Total(f) == MapThenSumSet(LAMBDA k : f[k], DOMAIN f)

Least == <<-1, 0>>

-----------------------------------------------------------------------------
(* rankNormalize, over the wallets W and the value v[w] of each.  A rank   *)
(* is a number of Scale(W)-ths: halves of a place, out of |W| - 1 places.  *)

Scale(W) == IF Cardinality(W) = 1 THEN 2 ELSE 2 * (Cardinality(W) - 1)

\* sort.Slice is not stable: wallets of one value come in any order.
SortedBy(W, v) ==
    {s \in SetToSeqs(W) : \A i, j \in DOMAIN s : i < j => ~Less(v[s[j]], v[s[i]])}

\* Mutant: every wallet takes its own place, ties or not.
PlaceSumOwn(v, s, i) == 2 * (i - 1)

\* The first and the last place, counted from 0, of the block of equals that
\* holds the i-th.
PlaceSum(v, s, i) ==
    LET block == {j \in DOMAIN s : Same(v[s[j]], v[s[i]])}
    IN  (Min(block) - 1) + (Max(block) - 1)

\* The ranks that a sort of the cohort leads to: flat if nobody differs.
RanksFrom(W, v, s) ==
    IF \A x, y \in W : Same(v[x], v[y])
    THEN [w \in W |-> Scale(W) \div 2]
    ELSE [w \in W |-> PlaceSum(v, s, CHOOSE i \in DOMAIN s : s[i] = w)]

RankOutcomes(W, v) == {RanksFrom(W, v, s) : s \in SortedBy(W, v)}

\* One of them: they do not differ.
rankNormalize(W, v) == RanksFrom(W, v, CHOOSE s \in SortedBy(W, v) : TRUE)

-----------------------------------------------------------------------------
(* ScoreWallets.  A wallet has winRate and pnl, fractions both 0 if        *)
(* pnl-summary failed, lastTrade (0: none known), its dollars bought of each token and *)
(* its funders.                                                            *)

clamp01(x) == IF x[1] < 0 THEN <<0, 1>> ELSE IF x[1] > x[2] THEN <<1, 1>> ELSE x

\* Mutant: no trade known is no time since the last one.
RecencyRawNow(last, ref) == IF last = 0 \/ last > ref THEN <<0, 1>> ELSE <<last - ref, 1>>

recencyRaw(last, ref) ==
    IF last = 0 THEN Least ELSE IF last > ref THEN <<0, 1>> ELSE <<last - ref, 1>>

\* A Herfindahl index of the dollars per token.
concentrationRaw(bought) ==
    LET total == Total(bought)
    IN  IF total <= 0 THEN <<0, 1>>
        ELSE <<Total([t \in DOMAIN bought |-> bought[t] * bought[t]]), total * total>>

distributionPenalty(bought, distributing) ==
    LET total == Total(bought)
        flagged == [t \in DOMAIN bought \cap distributing |-> bought[t]]
    IN  IF total <= 0 THEN <<0, 1>> ELSE <<Total(flagged), total>>

\* None up to a pair, all of it from ten.
clusterPenaltyFor(size) ==
    IF size <= 2 THEN <<0, 1>> ELSE IF size > 10 THEN <<1, 1>> ELSE <<size - 2, 8>>

ClusterSize(cohort, w) ==
    LET W == DOMAIN cohort
    IN  Cardinality(Component(W, [v \in W |-> cohort[v].funders], w))

\* The weights 0.45, 0.30, 0.125 and 0.125, and the penalties 0.15 and 0.10, in
\* fortieths.
ScoreWallets(cohort, distributing, ref) ==
    LET W == DOMAIN cohort
        winRate       == rankNormalize(W, [w \in W |-> clamp01(cohort[w].winRate)])
        pnl           == rankNormalize(W, [w \in W |-> cohort[w].pnl])
        recency       == rankNormalize(W, [w \in W |-> recencyRaw(cohort[w].lastTrade, ref)])
        concentration == rankNormalize(W, [w \in W |-> concentrationRaw(cohort[w].bought)])
        Penalty(w) == Plus(Times(6, distributionPenalty(cohort[w].bought, distributing)),
                           Times(4, clusterPenaltyFor(ClusterSize(cohort, w))))
        Earned(w)  == <<18 * winRate[w] + 12 * pnl[w] + 5 * recency[w] + 5 * concentration[w], Scale(W)>>
        Fortieths(w) == Plus(Earned(w), Times(-1, Penalty(w)))
    IN  [w \in W |-> clamp01(<<Fortieths(w)[1], 40 * Fortieths(w)[2]>>)]

\* By score, and between equals by address.
ListedBefore(score, u, v) == Less(score[v], score[u]) \/ (Same(score[u], score[v]) /\ u < v)

\* Sorted: no wallet comes after one that it is listed before.
Listed(score) ==
    CHOOSE s \in SetToSeqs(DOMAIN score) :
        \A i, j \in DOMAIN s : i < j => ListedBefore(score, s[i], s[j])
=============================================================================
