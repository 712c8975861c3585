------------------------------- MODULE MCScore -------------------------------
(* The pure rules of package score as tables: one state for each input.     *)
(* Tokens of at most MaxBuyers buyers with every sign of their flows,       *)
(* beside one about which less is known; cohorts of at most MaxWallets      *)
(* wallets with every order of one measure; four wallets with everything    *)
(* they are scored on; and the buys and hours of one token.                 *)
EXTENDS Report, Ranking, Move

CONSTANTS MaxBuyers, MaxWallets, Now, Dumping

ASSUME TablesAssumption == MaxBuyers \in Nat /\ MaxWallets \in Nat /\ Now \in Nat

VARIABLE input

Dollars == -1..1

TokenTable ==
    \E token \in TokenInputs(MaxBuyers, Dollars), covered \in 0..MaxBuyers, exitCheckable, flowRow \in BOOLEAN :
        /\ covered <= token.covered
        /\ exitCheckable => token.exitCheckable
        /\ token.exitCheckable => flowRow
        /\ ~flowRow => token.smart = 0 /\ token.exchange = 0
        /\ input = [of |-> "token", token |-> token, shown |-> Reported(token, flowRow),
                    poorer |-> [token EXCEPT !.covered = covered, !.exitCheckable = exitCheckable]]

Values == {Least, <<0, 1>>, <<1, 2>>, <<3, 1>>}

MeasureTable ==
    \E n \in 1..MaxWallets : \E v \in [1..n -> Values] : input = [of |-> "measure", v |-> v]

Outsider == 0
Held == [{"clean", "dumped"} -> {0, 1}]
Wallet == [winRate : {<<0, 1>>, <<1, 2>>}, pnl : {<<-1, 1>>, <<2, 1>>}, lastTrade : {0, Now}, bought : Held]
Plain == {w \in Wallet : w.winRate = <<1, 2>> /\ w.pnl = <<-1, 1>> /\ w.lastTrade = Now /\ Total(w.bought) = 1}

\* Wallets 1, 3 and 4 may have one funder: a group large enough to be penalized.
CohortOf(wallets, together) ==
    [i \in 1..4 |-> [winRate |-> wallets[i].winRate, pnl |-> wallets[i].pnl,
                     bought |-> wallets[i].bought, lastTrade |-> wallets[i].lastTrade,
                     funders |-> IF together /\ i # 2 THEN {Outsider} ELSE {}]]

CohortTable ==
    \E a, b \in Wallet, c \in Plain, together \in BOOLEAN :
        input = [of |-> "cohort", cohort |-> CohortOf(<<a, b, c, c>>, together)]

SeqUpTo2(S) == {<<>>} \cup {<<x>> : x \in S} \cup {<<x, y>> : x, y \in S}

\* Bars as an exchange prints them: a close is a price of the hour.
Bars == {bar \in [high : {Null, 0, 1, 3}, close : {Null, 0, 1, 2}] : bar.close <= bar.high}

MarketTable ==
    \E buys \in SeqUpTo2([usd : 0..2, amount : 0..2]), candles \in SeqUpTo2(Bars) :
        input = [of |-> "market", buys |-> buys, candles |-> candles]

TablesInit == TokenTable \/ MeasureTable \/ CohortTable \/ MarketTable

TablesNext == UNCHANGED input

TablesSpec == TablesInit /\ [][TablesNext]_input

-----------------------------------------------------------------------------
(* Properties of a token's label and of its rows: see Verdict and Report.  *)

\* An exit signal that fires is in the label, ranked, and in the row of the table
\* and of the report, with its inflow.
ExitShown ==
    input.of = "token" => ExitSignalNeverHidden(input.token) /\ ExitIsOnThePage(input.token, input.shown)

\* Buyers that were seen to collapse are in the label and in both rows, whatever
\* else is missing and however little was bought.
LinkShown ==
    input.of = "token" => ObservedLinkStands(input.token) /\ LinkIsOnThePage(input.token, input.shown)

\* Losing coverage or the exchange side never adds a claim to a label, and no row
\* shows an inflow that was not observed.
AbsenceSilent ==
    input.of = "token" =>
        /\ AbsentDataClaimsNothing(input.token, input.poorer)
        /\ InflowOnlyIfObserved(input.token, input.shown)

\* A clean label, and a row that reads as one, EXIT_ONLY's borrowed badge
\* included, was earned on buyers, groups, coverage and dollars.
CleanEarned ==
    input.of = "token" =>
        ClearedIsEarned(input.token) /\ ReadsClearedOnlyIfEarned(input.token, input.shown)

-----------------------------------------------------------------------------
(* Properties of the wallets' list and of the moves.                       *)

\* A wallet's rank is the share of the others below it and half of those it
\* ties with: whatever order the sort leaves ties in, whatever the magnitudes,
\* and a cohort that does not differ needs no case of its own.
OrdinalRanks(v) ==
    LET W == DOMAIN v
        Below(w) == Cardinality({x \in W : Less(v[x], v[w])})
        Ties(w)  == Cardinality({x \in W \ {w} : Same(v[x], v[w])})
    IN  \A r \in RankOutcomes(W, v) : \A w \in W :
            r[w] = IF W = {w} THEN 1 ELSE 2 * Below(w) + Ties(w)

RanksAreOrdinal == input.of = "measure" => OrdinalRanks(input.v)

\* How many wallets w collapses with, beyond a pair.
Crowd(cohort, w) ==
    LET W == DOMAIN cohort
        size == Cardinality(Component(W, [v \in W |-> cohort[v].funders], w))
    IN  IF size <= 2 THEN 0 ELSE size - 2

\* w's dollars in tokens that are being dumped, out of all of them.
DumpedShare(w) ==
    IF Total(w.bought) = 0 THEN <<0, 1>>
    ELSE <<Total([t \in DOMAIN w.bought \cap Dumping |-> w.bought[t]]), Total(w.bought)>>

\* Nothing that counts is worse in u than in v; a trade that is not known of is
\* older than any that is.
NoWorse(cohort, u, v) ==
    LET a == cohort[u]
        b == cohort[v]
    IN  /\ ~Less(a.winRate, b.winRate) /\ ~Less(a.pnl, b.pnl)
        /\ a.lastTrade >= b.lastTrade
        /\ ~Less(concentrationRaw(a.bought), concentrationRaw(b.bought))
        /\ ~Less(DumpedShare(b), DumpedShare(a))
        /\ Crowd(cohort, u) <= Crowd(cohort, v)

\* A wallet that is no worse than another in anything, and better in something,
\* is listed above it, unless nothing is left of its score.
BetterFirst(cohort) ==
    LET score == ScoreWallets(cohort, Dumping, Now)
        list  == Listed(score)
    IN  \A i, j \in DOMAIN list :
            /\ NoWorse(cohort, list[j], list[i])
            /\ ~NoWorse(cohort, list[i], list[j])
            /\ score[list[j]][1] > 0
            => j < i

BetterListedFirst == input.of = "cohort" => BetterFirst(input.cohort)

\* A move that is shown makes sense: the peak is not below what smart money paid
\* on average, nor the last price above the peak.
SaneMove(move) ==
    /\ move.entry[1] > 0 /\ move.entry[2] > 0
    /\ AtMost(move.entry, move.peak)
    /\ AtMost(move.last, move.peak)

MoveIsSane ==
    input.of = "market" =>
        LET move == ComputeMove(input.buys, input.candles) IN move # NoMove => SaneMove(move)
=============================================================================
