--------------------------------- MODULE Move ---------------------------------
(***************************************************************************)
(* score.EntryPrice and ComputeMove (internal/score/move.go): how far a    *)
(* token went since smart money bought it.  Buys are records of dollars    *)
(* spent and tokens got; candles are oldest first, with Null for the high  *)
(* and the close of an hour without trades.  Prices are pairs <<num, den>>.*)
(***************************************************************************)
EXTENDS Integers, Sequences, FiniteSetsExt

Null == -1
NoMove == <<>>

AtMost(p, q) == p[1] * q[2] <= q[1] * p[2]

\* Buys with no dollars or no amount are passed over.
Priced(buys) == {i \in DOMAIN buys : buys[i].usd > 0 /\ buys[i].amount > 0}

\* The volume-weighted average of what was paid.
EntryPrice(buys) ==
    LET usd    == [i \in DOMAIN buys |-> buys[i].usd]
        amount == [i \in DOMAIN buys |-> buys[i].amount]
    IN  <<MapThenSumSet(LAMBDA i : usd[i], Priced(buys)), MapThenSumSet(LAMBDA i : amount[i], Priced(buys))>>

Highs(candles) == {<<candles[i].high, 1>> : i \in {j \in DOMAIN candles : candles[j].high > 0}}

\* Mutant: the first version, which took the peak from the hourly bars alone.
PeakPricesOfBars(buys, candles) == Highs(candles)

\* Smart money's own fills are prices the token had, whatever its bars say.
PeakPrices(buys, candles) ==
    {<<buys[i].usd, buys[i].amount>> : i \in Priced(buys)} \cup Highs(candles)

Peak(buys, candles) ==
    CHOOSE p \in PeakPrices(buys, candles) : \A q \in PeakPrices(buys, candles) : AtMost(q, p)

Closes(candles) == {i \in DOMAIN candles : candles[i].close > 0}

\* No move, rather than a guess, without a priced buy, a high and a close.
ComputeMove(buys, candles) ==
    IF Priced(buys) = {} \/ Highs(candles) = {} \/ Closes(candles) = {}
    THEN NoMove
    ELSE [entry |-> EntryPrice(buys),
          peak  |-> Peak(buys, candles),
          last  |-> <<candles[Max(Closes(candles))].close, 1>>]
=============================================================================
