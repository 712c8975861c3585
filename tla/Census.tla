-------------------------------- MODULE Census --------------------------------
(***************************************************************************)
(* score.ComputeFunderCensus (internal/score/cluster.go) over the wallets  *)
(* that Cluster groups, and the sums of the headline made from it          *)
(* (cmd/scorecard/table.go): Run takes both from one list of wallets.      *)
(***************************************************************************)
EXTENDS Cluster, FiniteSetsExt

\* Addresses are compared, and a finite list names finitely many.
ASSUME OrderAssumption == Outsiders \subseteq Nat /\ IsFiniteSet(Outsiders)

Named == {a \in Addresses : Owners(a) # {}}

counts == [a \in Named |-> Cardinality(Owners(a))]

\* Mutant: every funder that is named counts as shared.
SharedFundersNamed == Cardinality(Named)

SharedFunders == Cardinality({a \in Named : counts[a] > 1})

\* Mutant: the least first.
CountedBeforeAscending(a, b) == counts[a] < counts[b] \/ (counts[a] = counts[b] /\ a < b)

\* Most wallets first, and between equals by address.
CountedBefore(a, b) == counts[a] > counts[b] \/ (counts[a] = counts[b] /\ a < b)

\* Sorted: as many come before a funder as its place says.
TopFunders ==
    [i \in 1..Cardinality(Named) |->
        CHOOSE a \in Named : Cardinality({b \in Named : CountedBefore(b, a)}) = i - 1]

\* The headline reads the list up to the first funder of a single wallet.
Headlined ==
    LET top == TopFunders
    IN  {top[i] : i \in {j \in DOMAIN top : \A h \in 1..j : counts[top[h]] > 1}}

Traced == MapThenSumSet(LAMBDA a : counts[a], Headlined)

-----------------------------------------------------------------------------
(* Properties.                                                             *)

FundedByAnother == {e \in Buyers \X Buyers : e[1] # e[2] /\ e[2] \in funders[e[1]]}

NamesSharedFunder(b) == \E a \in funders[b], c \in Buyers \ {b} : a \in funders[c]

\* The census and the collapse are computed apart and shown on one page: wallets
\* counted for one funder are in one group, and no more wallets collapse than the
\* funders counted and the wallets that funded another can account for.
CensusAgreesWithGroups ==
    phase = "done" =>
        /\ \A a \in Headlined : \E group \in Groups : Owners(a) \subseteq group
        /\ SharedFunders = Cardinality(Headlined)
        /\ Cardinality(Buyers) - Cardinality(Groups) <=
              (Traced - SharedFunders) + Cardinality(FundedByAnother)

\* "N of M top smart-money wallets were funded by just K addresses": N is the
\* number of wallets that name one of the K, as long as none names two of them,
\* and at least that otherwise.
HeadlineCountsWallets ==
    LET traced == {b \in Buyers : NamesSharedFunder(b)} IN
    phase = "done" =>
        /\ Traced >= Cardinality(traced)
        /\ (\A b \in Buyers : Cardinality(funders[b] \cap Headlined) <= 1) =>
              Traced = Cardinality(traced)
=============================================================================
