---------------------------- MODULE ScoreProofs -----------------------------
(***************************************************************************)
(* What package score says of tokens, wallets and prices, proved for every *)
(* input and not only for the tables that TLC enumerates.  Labels, and the *)
(* rows that show them: a case split on the rules of DecideVerdict, which  *)
(* the first lemmas invert.  Ranks: a sorted cohort is a run of lower      *)
(* wallets and then a block of equals, so places count what is below.      *)
(* Scores: sums of ranks and shares are in the order of what they are      *)
(* summed from.  Moves: an average is not above the greatest.              *)
(***************************************************************************)
EXTENDS MCScore, SetProofs, SequenceTheorems

Token == [n : Nat, m : Nat, covered : Nat, smart : Int, exchange : Int,
          exitCheckable : BOOLEAN, bought : Int, floor : Int]

\* More groups than buyers, or more covered buyers than buyers, cannot be.
Possible(t) == t.m <= t.n /\ t.covered <= t.n

\* A label clears its token only on three buyers in as many groups, all
\* covered, and on enough bought.
LEMMA ClearedOn ==
    ASSUME NEW t \in Token, Possible(t), Label(t) \in Cleared
    PROVE  t.n >= 3 /\ t.m = t.n /\ t.covered = t.n /\ t.bought >= t.floor
BY DEF Token, Possible, Label, decideWithFloor, Withheld, DecideVerdict, Distributing, Cleared, Collapse

\* Every label that reports an exit signal was given one.
LEMMA ExitOn ==
    ASSUME NEW t \in Token, Label(t) \in {"BOTH", "DISTRIBUTING", "EXIT_ONLY"}
    PROVE  ExitSignal(t)
BY DEF Token, Label, decideWithFloor, Withheld, DecideVerdict, Distributing, Collapse, ExitSignal

\* With all that a clean label needs, the label is the clean one of its flow.
LEMMA CleanLabel ==
    ASSUME NEW t \in Token, t.n >= 3, t.m = t.n, t.covered = t.n, t.bought >= t.floor
    PROVE  Label(t) = IF ExitSignal(t) THEN "DISTRIBUTING"
                      ELSE IF t.exitCheckable THEN "CONFIRMED" ELSE "INDEPENDENT"
BY DEF Token, Label, decideWithFloor, Withheld, DecideVerdict, Distributing, Collapse, ExitSignal

\* A clean label was earned on every count (score.DecideVerdict, decideWithFloor).
THEOREM ClearedEarned == \A t \in Token : Possible(t) => ClearedIsEarned(t)
BY ClearedOn DEF ClearedIsEarned

\* A shared funder that was observed shows in the label however little was
\* bought and whoever else went unchecked.
THEOREM LinkStands == \A t \in Token : ObservedLinkStands(t)
BY DEF Token, ObservedLinkStands, Label, decideWithFloor, Withheld, DecideVerdict, Distributing, Collapse

\* An exit signal always shows: never WEAK, and above every row without one.
THEOREM ExitNeverHidden == \A t \in Token : ExitSignalNeverHidden(t)
<1> SUFFICES ASSUME NEW t \in Token, ExitSignal(t) PROVE ExitSignalNeverHidden(t)
    BY DEF ExitSignalNeverHidden
<1>1. Label(t) \in {"BOTH", "DISTRIBUTING", "EXIT_ONLY", "UNVERIFIED"}
    BY DEF Token, Label, decideWithFloor, Withheld, DecideVerdict, Distributing, Collapse, ExitSignal
<1>2. Label(t) # "UNVERIFIED" => verdictSeverity(Label(t)) < verdictSeverity("CONFIRMED")
    BY <1>1 DEF verdictSeverity
<1> QED
    BY <1>1, <1>2 DEF ExitSignalNeverHidden

\* Losing funder coverage or the exit check never turns a label into one that
\* clears, confirms or reports an exit where the full data did not.
THEOREM AbsentDataIsSilent ==
    \A t, u \in Token : Possible(t) => AbsentDataClaimsNothing(t, u)
<1> SUFFICES ASSUME NEW t \in Token, NEW u \in Token, Possible(t), LessKnown(t, u)
             PROVE  AbsentDataClaimsNothing(t, u)
    BY DEF AbsentDataClaimsNothing
<1>1. Possible(u)
    BY DEF Possible, LessKnown, Token
<1>2. ASSUME Label(u) \in Cleared PROVE t.n >= 3 /\ t.m = t.n /\ t.covered = t.n /\ t.bought >= t.floor
    <2>1. u.n >= 3 /\ u.m = u.n /\ u.covered = u.n /\ u.bought >= u.floor
        BY <1>1, <1>2, ClearedOn
    <2> QED
        BY <2>1 DEF LessKnown, Possible, Token
<1>3. Label(u) \in Cleared => Label(t) \in Cleared
    BY <1>2, CleanLabel DEF Cleared
<1>4. ASSUME Label(u) = "CONFIRMED" PROVE Label(t) = "CONFIRMED"
    <2>1. Label(u) \in Cleared
        BY <1>4 DEF Cleared
    <2>2. u.exitCheckable /\ ~ExitSignal(u)
        BY <1>1, <1>4, <2>1, ClearedOn, CleanLabel
    <2>3. t.exitCheckable /\ ~ExitSignal(t)
        BY <2>2 DEF LessKnown, ExitSignal, Token
    <2> QED
        BY <1>2, <2>1, <2>3, CleanLabel
<1>5. Label(u) \in {"BOTH", "DISTRIBUTING", "EXIT_ONLY"} => ExitSignal(t)
    BY ExitOn DEF LessKnown, ExitSignal, Token
<1> QED
    BY <1>3, <1>4, <1>5 DEF AbsentDataClaimsNothing

-----------------------------------------------------------------------------
(***************************************************************************)
(* What the rows of the terminal's table and of the report say of such a   *)
(* token.  A token has a flow row or not; one without a row has no         *)
(* exchange side.                                                          *)
(***************************************************************************)

\* A label that is not WEAK has one row in each rendering; the two agree.
LEMMA OneRow ==
    ASSUME NEW tr, tr.verdict # "WEAK", NEW rows \in Shown(tr)
    PROVE  \E row \in rows :
              /\ rows = {row}
              /\ row.badge = verdictLabel(tr.verdict)
              /\ row.tone = verdictColor(tr.verdict)
              /\ row.independence = independenceLabel(tr)
              /\ row.exchange = exchFlowCell(tr)
<1> DEFINE row == [badge |-> verdictLabel(tr.verdict), tone |-> verdictColor(tr.verdict),
                   independence |-> independenceLabel(tr), exchange |-> exchFlowCell(tr)]
<1>1. TableRows(tr) = {row}
    BY DEF TableRows
<1>2. exchFlowCell(tr) = IF FlowNote(tr) = "none" THEN <<tr.exchange>> ELSE Dash
    BY DEF exchFlowCell, FlowNote
<1>3. ReportRows(tr) = {row}
    BY <1>2 DEF ReportRows, verdictLabelHTML, verdictLabel, verdictClass, verdictColor,
                independenceLabelHTML, independenceLabel
<1>4. rows = {row}
    BY <1>1, <1>3 DEF Shown
<1> QED
    BY <1>4

\* A withheld label has no row at all.
LEMMA NoRow ==
    ASSUME NEW tr, tr.verdict = "WEAK", NEW rows \in Shown(tr)
    PROVE  rows = {}
BY DEF Shown, TableRows, ReportRows

\* An exit signal is in every rendering, with its inflow, and red unless some
\* buyer is unchecked (buildTableRows, buildReport).
THEOREM ExitOnThePage ==
    \A t \in Token : t.covered <= t.n => ExitIsOnThePage(t, Reported(t, TRUE))
<1> SUFFICES ASSUME NEW t \in Token, t.covered <= t.n, ExitSignal(t), NEW rows \in Shown(Reported(t, TRUE))
             PROVE  \E row \in rows : /\ row.exchange = <<t.exchange>>
                                      /\ row.tone = "red" \/ (row.badge = "UNVERIFIED" /\ Len(row.independence) = 3)
    BY DEF ExitIsOnThePage
<1> DEFINE tr == Reported(t, TRUE)
<1>1. /\ tr.verdict = Label(t) /\ tr.n = t.n /\ tr.m = t.m /\ tr.covered = t.covered
      /\ tr.exchange = t.exchange /\ tr.flowAvailable = TRUE /\ tr.exchangeObserved = TRUE
    BY DEF Reported, ExitSignal
<1> HIDE DEF tr
<1>2. Label(t) \in {"BOTH", "DISTRIBUTING", "EXIT_ONLY", "UNVERIFIED"}
    BY ExitNeverHidden DEF ExitSignalNeverHidden
<1>3. Label(t) = "UNVERIFIED" => t.covered < t.n
    BY DEF Token, Label, decideWithFloor, Withheld, DecideVerdict, Distributing, Collapse, ExitSignal
<1>4. PICK row \in rows : /\ row.badge = verdictLabel(tr.verdict)
                          /\ row.tone = verdictColor(tr.verdict)
                          /\ row.independence = independenceLabel(tr)
                          /\ row.exchange = exchFlowCell(tr)
    BY <1>1, <1>2, OneRow DEF tr
<1>5. row.exchange = <<t.exchange>>
    BY <1>1, <1>4 DEF exchFlowCell
<1>6. Label(t) # "UNVERIFIED" => row.tone = "red"
    BY <1>1, <1>2, <1>4 DEF verdictColor
<1>7. Label(t) = "UNVERIFIED" => row.badge = "UNVERIFIED" /\ row.independence = <<t.n, t.m, t.covered>>
    BY <1>1, <1>3, <1>4 DEF verdictLabel, independenceLabel
<1> QED
    BY <1>5, <1>6, <1>7

\* Buyers seen to collapse are in every rendering, with N and M.
THEOREM LinkOnThePage ==
    \A t \in Token, flowRow \in BOOLEAN : LinkIsOnThePage(t, Reported(t, flowRow))
<1> SUFFICES ASSUME NEW t \in Token, NEW flowRow \in BOOLEAN, t.n >= 3, t.m < t.n,
                    NEW rows \in Shown(Reported(t, flowRow))
             PROVE  \E row \in rows : row.badge \in Collapse /\ SubSeq(row.independence, 1, 2) = <<t.n, t.m>>
    BY DEF LinkIsOnThePage
<1> DEFINE tr == Reported(t, flowRow)
<1>1. tr.verdict = Label(t) /\ tr.n = t.n /\ tr.m = t.m /\ tr.covered = t.covered
    BY DEF Reported
<1> HIDE DEF tr
<1>2. Label(t) \in Collapse
    BY LinkStands DEF ObservedLinkStands
<1>3. PICK row \in rows : row.badge = verdictLabel(tr.verdict) /\ row.independence = independenceLabel(tr)
    BY <1>1, <1>2, OneRow DEF Collapse, tr
<1>4. row.badge \in Collapse
    BY <1>1, <1>2, <1>3 DEF verdictLabel, Collapse
<1>5. row.independence \in {<<t.n, t.m, t.covered>>, <<t.n, t.m>>}
    BY <1>1, <1>2, <1>3 DEF independenceLabel, Collapse
<1>6. SubSeq(<<t.n, t.m, t.covered>>, 1, 2) = <<t.n, t.m>> /\ SubSeq(<<t.n, t.m>>, 1, 2) = <<t.n, t.m>>
    <2>1. ASSUME NEW q, q = <<t.n, t.m, t.covered>> \/ q = <<t.n, t.m>>
          PROVE  SubSeq(q, 1, 2) = <<t.n, t.m>>
        <3>1. t.n \in Nat /\ t.m \in Nat
            BY DEF Token
        <3>2. \A i \in 1..2 : q[i] \in Nat
            BY <2>1, <3>1
        <3>3. /\ SubSeq(q, 1, 2) \in Seq(Nat) /\ Len(SubSeq(q, 1, 2)) = 2
              /\ \A i \in 1..2 : SubSeq(q, 1, 2)[i] = q[i]
            BY <3>2, SubSeqProperties
        <3>4. q[1] = t.n /\ q[2] = t.m
            BY <2>1
        <3>5. /\ <<t.n, t.m>> \in Seq(Nat) /\ Len(<<t.n, t.m>>) = 2
              /\ \A i \in 1..2 : SubSeq(q, 1, 2)[i] = <<t.n, t.m>>[i]
            BY <3>1, <3>3, <3>4
        <3> QED
            BY <3>3, <3>5, SeqEqual
    <2> QED
        BY <2>1
<1> QED
    BY <1>4, <1>5, <1>6

\* A row reads as cleared only where the clean label was earned, EXIT_ONLY's
\* borrowed badge included; and an inflow is shown only if one was observed.
THEOREM RowsClaimNothing ==
    \A t \in Token, flowRow \in BOOLEAN :
        Possible(t) => /\ ReadsClearedOnlyIfEarned(t, Reported(t, flowRow))
                       /\ InflowOnlyIfObserved(t, Reported(t, flowRow))
<1> SUFFICES ASSUME NEW t \in Token, NEW flowRow \in BOOLEAN, Possible(t),
                    NEW rows \in Shown(Reported(t, flowRow)), NEW row \in rows
             PROVE  /\ ReadsAsCleared(row) => t.n >= 3 /\ t.m = t.n /\ t.covered = t.n /\ t.bought >= t.floor
                    /\ row.exchange # Dash => t.exitCheckable
    BY DEF ReadsClearedOnlyIfEarned, InflowOnlyIfObserved
<1> DEFINE tr == Reported(t, flowRow)
<1>1. tr.verdict = Label(t) /\ tr.exchangeObserved = t.exitCheckable
    BY DEF Reported
<1> HIDE DEF tr
<1>2. tr.verdict # "WEAK"
    BY NoRow DEF tr
<1>3. /\ row.badge = verdictLabel(tr.verdict) /\ row.independence = independenceLabel(tr)
      /\ row.exchange = exchFlowCell(tr)
    BY <1>2, OneRow DEF tr
<1>4. row.exchange # Dash => t.exitCheckable
    BY <1>1, <1>3 DEF exchFlowCell
<1>5. ReadsAsCleared(row) => Label(t) \in Cleared
    BY <1>1, <1>3 DEF ReadsAsCleared, verdictLabel, independenceLabel, Cleared
<1> QED
    BY <1>4, <1>5, ClearedOn

-----------------------------------------------------------------------------
(***************************************************************************)
(* The same of the tables that TLC goes through, up to any number of       *)
(* buyers.                                                                 *)
(***************************************************************************)

TokenInput ==
    input.of = "token" =>
        /\ input.token \in Token /\ Possible(input.token) /\ input.poorer \in Token
        /\ \E flowRow \in BOOLEAN : /\ input.shown = Reported(input.token, flowRow)
                                    /\ input.token.exitCheckable => flowRow

LEMMA TablesTyped == TablesSpec => []TokenInput
<1>1. TablesInit => TokenInput
    <2>1. ASSUME TokenTable PROVE TokenInput
        <3>1. PICK token \in TokenInputs(MaxBuyers, Dollars), covered \in 0..MaxBuyers,
                   exitCheckable \in BOOLEAN, flowRow \in BOOLEAN :
                  /\ token.exitCheckable => flowRow
                  /\ input = [of |-> "token", token |-> token, shown |-> Reported(token, flowRow),
                              poorer |-> [token EXCEPT !.covered = covered, !.exitCheckable = exitCheckable]]
            BY <2>1 DEF TokenTable
        <3>2. token \in Token /\ Possible(token)
            BY TablesAssumption DEF TokenInputs, Dollars, Token, Possible
        <3>3. [token EXCEPT !.covered = covered, !.exitCheckable = exitCheckable] \in Token
            <4>1. covered \in Nat
                BY TablesAssumption
            <4>2. [token EXCEPT !.covered = covered] \in Token
                BY <3>2, <4>1 DEF Token
            <4>3. ASSUME NEW t \in Token PROVE [t EXCEPT !.exitCheckable = exitCheckable] \in Token
                BY DEF Token
            <4> QED
                BY <4>2, <4>3
        <3> QED
            BY <3>1, <3>2, <3>3 DEF TokenInput
    <2>2. MeasureTable \/ CohortTable \/ MarketTable => input.of # "token"
        <3>1. MeasureTable => input.of = "measure"
            BY DEF MeasureTable
        <3>2. CohortTable => input.of = "cohort"
            BY DEF CohortTable
        <3>3. MarketTable => input.of = "market"
            BY DEF MarketTable
        <3> QED
            BY <3>1, <3>2, <3>3
    <2> QED
        BY <2>1, <2>2 DEF TablesInit, TokenInput
<1>2. TokenInput /\ [TablesNext]_input => TokenInput'
    BY DEF TokenInput, TablesNext
<1> QED
    BY <1>1, <1>2, PTL DEF TablesSpec

\* An exit signal that fires is in the label, ranked, and in both renderings.
THEOREM ExitAlwaysShown == TablesSpec => []ExitShown
<1>1. TokenInput => ExitShown
    <2> SUFFICES ASSUME TokenInput, input.of = "token"
                 PROVE  ExitSignalNeverHidden(input.token) /\ ExitIsOnThePage(input.token, input.shown)
        BY DEF ExitShown
    <2>1. ExitSignalNeverHidden(input.token)
        BY ExitNeverHidden DEF TokenInput
    <2>2. CASE ExitSignal(input.token)
        BY <2>1, <2>2, ExitOnThePage DEF TokenInput, ExitSignal, Possible
    <2>3. CASE ~ExitSignal(input.token)
        BY <2>1, <2>3 DEF ExitIsOnThePage
    <2> QED
        BY <2>2, <2>3
<1> QED
    BY <1>1, TablesTyped, PTL

\* Buyers that were seen to collapse are in the label and in both renderings.
THEOREM LinkAlwaysShown == TablesSpec => []LinkShown
<1>1. TokenInput => LinkShown
    BY LinkStands, LinkOnThePage DEF TokenInput, LinkShown
<1> QED
    BY <1>1, TablesTyped, PTL

\* Less data never adds a claim, to a label or to a row.
THEOREM AbsenceAlwaysSilent == TablesSpec => []AbsenceSilent
<1>1. TokenInput => AbsenceSilent
    BY AbsentDataIsSilent, RowsClaimNothing DEF TokenInput, AbsenceSilent
<1> QED
    BY <1>1, TablesTyped, PTL

\* What is labelled clean, or reads so, was earned.
THEOREM CleanAlwaysEarned == TablesSpec => []CleanEarned
<1>1. TokenInput => CleanEarned
    BY ClearedEarned, RowsClaimNothing DEF TokenInput, CleanEarned
<1> QED
    BY <1>1, TablesTyped, PTL

-----------------------------------------------------------------------------
(***************************************************************************)
(* Fractions.  The provers take products as they are, so each inequality   *)
(* between fractions is multiplied out by hand.                            *)
(***************************************************************************)

Fraction == Int \X (Nat \ {0})

Amount == Fraction \cup {Least}

LEMMA TimesKeeps ==
    ASSUME NEW a \in Int, NEW b \in Int, NEW k \in Nat, a <= b
    PROVE  a * k <= b * k
<1>1. (b - a) * k >= 0
    BY b - a >= 0
<1> QED
    BY <1>1

LEMMA TimesKeepsStrictly ==
    ASSUME NEW a \in Int, NEW b \in Int, NEW k \in Nat \ {0}
    PROVE  a < b <=> a * k < b * k
<1>1. ASSUME a < b PROVE a * k < b * k
    <2>1. (b - a) * k > 0
        BY <1>1, b - a > 0
    <2> QED
        BY <2>1
<1>2. ASSUME b <= a PROVE b * k <= a * k
    BY <1>2, TimesKeeps
<1> QED
    BY <1>1, <1>2

LEMMA AmountParts ==
    ASSUME NEW x \in Amount
    PROVE  x[1] \in Int /\ x[2] \in Nat /\ (x[2] = 0 <=> x = Least) /\ (x = Least => x[1] = -1)
BY DEF Amount, Fraction, Least

LEMMA AmountsTransitive ==
    ASSUME NEW x \in Amount, NEW y \in Amount, NEW z \in Amount, AtMost(x, y), AtMost(y, z)
    PROVE  AtMost(x, z)
<1>1. /\ x[1] \in Int /\ y[1] \in Int /\ z[1] \in Int
      /\ x[2] \in Nat /\ y[2] \in Nat /\ z[2] \in Nat
      /\ x[1] * y[2] <= y[1] * x[2] /\ y[1] * z[2] <= z[1] * y[2]
    BY AmountParts DEF AtMost
<1> HIDE DEF AtMost
<1>2. CASE y[2] = 0
    <2>1. y[1] = -1 /\ x[1] * y[2] = 0
        BY <1>1, <1>2, AmountParts
    <2>2. x[2] = 0
        BY <1>1, <2>1
    <2>3. x[1] = -1
        BY <2>2, AmountParts
    <2> QED
        BY <1>1, <2>2, <2>3 DEF AtMost
<1>3. CASE y[2] # 0
    <2>1. (x[1] * y[2]) * z[2] <= (y[1] * x[2]) * z[2]
        BY <1>1, TimesKeeps
    <2>2. (y[1] * z[2]) * x[2] <= (z[1] * y[2]) * x[2]
        BY <1>1, TimesKeeps
    <2>3. (x[1] * z[2]) * y[2] <= (z[1] * x[2]) * y[2]
        BY <1>1, <2>1, <2>2
    <2>4. x[1] * z[2] \in Int /\ z[1] * x[2] \in Int
        BY <1>1
    <2>5. ~(z[1] * x[2] < x[1] * z[2])
        BY <1>1, <1>3, <2>3, <2>4, TimesKeepsStrictly
    <2> QED
        BY <2>4, <2>5 DEF AtMost
<1> QED
    BY <1>2, <1>3

\* Amounts are in one line, but for equals.
LEMMA AmountsCompare ==
    ASSUME NEW x \in Amount, NEW y \in Amount
    PROVE  /\ Less(x, y) <=> ~AtMost(y, x)
           /\ Same(x, y) <=> AtMost(x, y) /\ AtMost(y, x)
           /\ AtMost(x, y) \/ AtMost(y, x)
           /\ AtMost(x, x)
BY AmountParts DEF Less, Same, AtMost

Ordered(V) ==
    /\ \A x, y \in V : /\ Less(x, y) <=> ~AtMost(y, x)
                       /\ Same(x, y) <=> AtMost(x, y) /\ AtMost(y, x)
                       /\ AtMost(x, y) \/ AtMost(y, x)
                       /\ AtMost(x, x)
    /\ \A x, y, z \in V : AtMost(x, y) /\ AtMost(y, z) => AtMost(x, z)

LEMMA AmountsOrdered == Ordered(Amount)
BY AmountsTransitive, AmountsCompare DEF Ordered

\* Sums and multiples of fractions are in the order of what they are made from.
LEMMA FractionsAdd ==
    ASSUME NEW x \in Fraction, NEW y \in Fraction, NEW u \in Fraction, NEW v \in Fraction
    PROVE  /\ Plus(x, y) \in Fraction
           /\ AtMost(x, u) /\ AtMost(y, v) => AtMost(Plus(x, y), Plus(u, v))
           /\ Less(x, u) /\ AtMost(y, v) => Less(Plus(x, y), Plus(u, v))
           /\ AtMost(x, u) /\ Less(y, v) => Less(Plus(x, y), Plus(u, v))
<1>1. PICK a \in Int, b \in Nat \ {0} : x = <<a, b>>
    BY DEF Fraction
<1>2. PICK c \in Int, d \in Nat \ {0} : y = <<c, d>>
    BY DEF Fraction
<1>3. PICK e \in Int, f \in Nat \ {0} : u = <<e, f>>
    BY DEF Fraction
<1>4. PICK g \in Int, h \in Nat \ {0} : v = <<g, h>>
    BY DEF Fraction
<1>5. /\ b * d \in Nat \ {0} /\ f * h \in Nat \ {0} /\ d * h \in Nat \ {0} /\ b * f \in Nat \ {0}
      /\ a * d + c * b \in Int /\ e * h + g * f \in Int
      /\ a * f \in Int /\ e * b \in Int /\ c * h \in Int /\ g * d \in Int
    <2>1. ASSUME NEW i \in Nat \ {0}, NEW j \in Nat \ {0} PROVE i * j \in Nat \ {0}
        OBVIOUS
    <2> QED
        BY <2>1
<1>6. Plus(x, y) = <<a * d + c * b, b * d>> /\ Plus(u, v) = <<e * h + g * f, f * h>>
    BY <1>1, <1>2, <1>3, <1>4 DEF Plus
<1>7. (a * d + c * b) * (f * h) = (a * f) * (d * h) + (c * h) * (b * f)
    OBVIOUS
<1>8. (e * h + g * f) * (b * d) = (e * b) * (d * h) + (g * d) * (b * f)
    OBVIOUS
<1>9. /\ AtMost(x, u) <=> a * f <= e * b
      /\ AtMost(y, v) <=> c * h <= g * d
      /\ Less(x, u) <=> a * f < e * b
      /\ Less(y, v) <=> c * h < g * d
      /\ AtMost(Plus(x, y), Plus(u, v)) <=> (a * f) * (d * h) + (c * h) * (b * f) <= (e * b) * (d * h) + (g * d) * (b * f)
      /\ Less(Plus(x, y), Plus(u, v)) <=> (a * f) * (d * h) + (c * h) * (b * f) < (e * b) * (d * h) + (g * d) * (b * f)
    BY <1>1, <1>2, <1>3, <1>4, <1>6, <1>7, <1>8 DEF AtMost, Less
<1>10. /\ a * f <= e * b => (a * f) * (d * h) <= (e * b) * (d * h)
       /\ c * h <= g * d => (c * h) * (b * f) <= (g * d) * (b * f)
       /\ a * f < e * b => (a * f) * (d * h) < (e * b) * (d * h)
       /\ c * h < g * d => (c * h) * (b * f) < (g * d) * (b * f)
    BY <1>5, TimesKeeps, TimesKeepsStrictly
<1>11. Plus(x, y) \in Fraction
    BY <1>5, <1>6 DEF Fraction
<1> QED
    <2>1. /\ (a * f) * (d * h) \in Int /\ (c * h) * (b * f) \in Int
          /\ (e * b) * (d * h) \in Int /\ (g * d) * (b * f) \in Int
        BY <1>5
    <2>2. ASSUME AtMost(x, u), AtMost(y, v) PROVE AtMost(Plus(x, y), Plus(u, v))
        BY <1>9, <1>10, <2>1, <2>2
    <2>3. ASSUME Less(x, u), AtMost(y, v) PROVE Less(Plus(x, y), Plus(u, v))
        BY <1>9, <1>10, <2>1, <2>3
    <2>4. ASSUME AtMost(x, u), Less(y, v) PROVE Less(Plus(x, y), Plus(u, v))
        BY <1>9, <1>10, <2>1, <2>4
    <2> QED
        BY <1>11, <2>2, <2>3, <2>4

LEMMA FractionsTimes ==
    ASSUME NEW k \in Nat \ {0}, NEW x \in Fraction, NEW y \in Fraction
    PROVE  /\ Times(k, x) \in Fraction /\ Times(-1, x) \in Fraction
           /\ AtMost(Times(k, x), Times(k, y)) <=> AtMost(x, y)
           /\ Less(Times(k, x), Times(k, y)) <=> Less(x, y)
           /\ AtMost(Times(-1, x), Times(-1, y)) <=> AtMost(y, x)
           /\ Less(Times(-1, x), Times(-1, y)) <=> Less(y, x)
<1>1. PICK a \in Int, b \in Nat \ {0} : x = <<a, b>>
    BY DEF Fraction
<1>2. PICK c \in Int, d \in Nat \ {0} : y = <<c, d>>
    BY DEF Fraction
<1>3. /\ Times(k, x) = <<k * a, b>> /\ Times(k, y) = <<k * c, d>> /\ k * a \in Int /\ k * c \in Int
      /\ Times(-1, x) = <<-a, b>> /\ Times(-1, y) = <<-c, d>>
    BY <1>1, <1>2 DEF Times
<1>4. (k * a) * d = (a * d) * k /\ (k * c) * b = (c * b) * k /\ a * d \in Int /\ c * b \in Int
    OBVIOUS
<1>5. a * d < c * b <=> (a * d) * k < (c * b) * k
    BY <1>4, TimesKeepsStrictly
<1>6. c * b < a * d <=> (c * b) * k < (a * d) * k
    BY <1>4, TimesKeepsStrictly
<1>7. (-a) * d = -(a * d) /\ (-c) * b = -(c * b)
    OBVIOUS
<1>8. Times(k, x) \in Fraction /\ Times(-1, x) \in Fraction
    BY <1>3 DEF Fraction
<1>9. /\ AtMost(Times(k, x), Times(k, y)) <=> AtMost(x, y)
      /\ Less(Times(k, x), Times(k, y)) <=> Less(x, y)
    <2>1. (a * d) * k \in Int /\ (c * b) * k \in Int
        BY <1>4
    <2> QED
        BY <1>1, <1>2, <1>3, <1>4, <1>5, <1>6, <2>1 DEF AtMost, Less
<1>10. /\ AtMost(Times(-1, x), Times(-1, y)) <=> AtMost(y, x)
       /\ Less(Times(-1, x), Times(-1, y)) <=> Less(y, x)
    BY <1>1, <1>2, <1>3, <1>4, <1>7 DEF AtMost, Less
<1> QED
    BY <1>8, <1>9, <1>10

-----------------------------------------------------------------------------
(***************************************************************************)
(* Ranks.                                                                  *)
(***************************************************************************)

Lower(W, v, w) == {x \in W : Less(v[x], v[w])}

Level(W, v, w) == {x \in W : Same(v[x], v[w])}

Tied(W, v, w) == {x \in W \ {w} : Same(v[x], v[w])}

LEMMA RankSets ==
    ASSUME NEW W, IsFiniteSet(W), NEW v \in [W -> Amount], NEW w \in W
    PROVE  /\ IsFiniteSet(Lower(W, v, w)) /\ Cardinality(Lower(W, v, w)) \in Nat
           /\ IsFiniteSet(Level(W, v, w)) /\ Cardinality(Level(W, v, w)) \in Nat
           /\ IsFiniteSet(Tied(W, v, w)) /\ Cardinality(Tied(W, v, w)) \in Nat
           /\ w \in Level(W, v, w) /\ Tied(W, v, w) = Level(W, v, w) \ {w}
           /\ Cardinality(Tied(W, v, w)) = Cardinality(Level(W, v, w)) - 1
<1>1. /\ IsFiniteSet(Lower(W, v, w)) /\ Cardinality(Lower(W, v, w)) \in Nat
      /\ IsFiniteSet(Level(W, v, w)) /\ Cardinality(Level(W, v, w)) \in Nat
      /\ IsFiniteSet(Tied(W, v, w)) /\ Cardinality(Tied(W, v, w)) \in Nat
    BY FS_Subset, FS_CardinalityType DEF Lower, Level, Tied
<1>2. w \in Level(W, v, w)
    BY AmountsOrdered DEF Ordered, Level
<1>3. Tied(W, v, w) = Level(W, v, w) \ {w}
    BY DEF Tied, Level
<1> QED
    BY <1>1, <1>2, <1>3, FS_RemoveElement

LEMMA SortedOnto ==
    ASSUME NEW W, IsFiniteSet(W), NEW s \in SetToSeqs(W)
    PROVE  /\ s \in [1..Cardinality(W) -> W] /\ Cardinality(W) \in Nat
           /\ \A i, j \in 1..Cardinality(W) : s[i] = s[j] => i = j
           /\ \A w \in W : \E i \in 1..Cardinality(W) : s[i] = w
<1> DEFINE n == Cardinality(W)
<1>1. n \in Nat /\ s \in [1..n -> W] /\ \A i, j \in 1..n : s[i] = s[j] => i = j
    BY FS_CardinalityType DEF SetToSeqs
<1>2. s \in Injection(1..n, W)
    BY <1>1 DEF Injection, IsInjective
<1>3. s \in Surjection(1..n, W)
    BY <1>1, <1>2, FS_Interval, FS_Injection
<1> QED
    BY <1>1, <1>3 DEF Surjection

\* In a sorted cohort the lower wallets come first, then a block of equals.
LEMMA BlockOfEquals ==
    ASSUME NEW W, IsFiniteSet(W), NEW v \in [W -> Amount], NEW s \in SortedBy(W, v), NEW i \in DOMAIN s
    PROVE  PlaceSum(v, s, i) = 2 * Cardinality(Lower(W, v, s[i])) + Cardinality(Tied(W, v, s[i]))
<1> DEFINE n == Cardinality(W)
           w == s[i]
           block == {j \in DOMAIN s : Same(v[s[j]], v[s[i]])}
           lo == Min(block)
           hi == Max(block)
<1>1. /\ s \in [1..n -> W] /\ n \in Nat /\ DOMAIN s = 1..n
      /\ \A j, k \in 1..n : s[j] = s[k] => j = k
      /\ \A x \in W : \E j \in 1..n : s[j] = x
    BY SortedOnto DEF SortedBy
<1>2. \A j, k \in 1..n : j < k => AtMost(v[s[j]], v[s[k]])
    BY <1>1, AmountsOrdered DEF SortedBy, Ordered
<1>3. \A j \in 1..n : v[s[j]] \in Amount /\ s[j] \in W
    BY <1>1
<1>4. block \subseteq 1..n /\ i \in block /\ w \in W
    BY <1>1, <1>3, AmountsOrdered DEF Ordered
<1>5. /\ lo \in block /\ hi \in block
      /\ \A j \in block : lo <= j /\ j <= hi
    <2>1. IsFiniteSet(1..n) /\ \A j \in 1..n : j \in Int
        BY <1>1, FS_Interval
    <2>2. IsFiniteSet(block) /\ block \in SUBSET Int /\ block # {}
        BY <1>4, <2>1, FS_Subset
    <2> HIDE DEF block
    <2> QED
        BY <2>2, MinExists, MaxExists
<1>6. lo \in 1..n /\ hi \in 1..n /\ lo <= hi
    BY <1>4, <1>5
<1>7. Same(v[s[lo]], v[w]) /\ Same(v[s[hi]], v[w])
    BY <1>5
<1> HIDE DEF lo, hi
<1>8. ASSUME NEW j \in 1..n PROVE Less(v[s[j]], v[w]) <=> j \in 1..(lo - 1)
    <2>1. CASE j < lo
        <3>1. AtMost(v[s[j]], v[s[lo]]) /\ ~Same(v[s[j]], v[w])
            BY <1>1, <1>2, <1>5, <1>6, <2>1
        <3>2. AtMost(v[s[j]], v[w])
            BY <1>3, <1>4, <1>6, <1>7, <3>1, AmountsOrdered DEF Ordered
        <3>3. Less(v[s[j]], v[w])
            BY <1>3, <1>4, <3>1, <3>2, AmountsOrdered DEF Ordered
        <3> QED
            BY <1>6, <2>1, <3>3
    <2>2. CASE lo <= j
        <3>1. AtMost(v[s[lo]], v[s[j]])
            BY <1>2, <1>3, <1>6, <2>2, AmountsOrdered DEF Ordered
        <3>2. AtMost(v[w], v[s[j]])
            BY <1>3, <1>4, <1>6, <1>7, <3>1, AmountsOrdered DEF Ordered
        <3>3. ~Less(v[s[j]], v[w])
            BY <1>3, <1>4, <3>2, AmountsOrdered DEF Ordered
        <3> QED
            BY <1>6, <2>2, <3>3
    <2> QED
        BY <1>6, <2>1, <2>2
<1>9. ASSUME NEW j \in 1..n PROVE Same(v[s[j]], v[w]) <=> j \in lo..hi
    <2>1. CASE Same(v[s[j]], v[w])
        BY <1>1, <1>5, <1>6, <2>1
    <2>2. CASE j \in lo..hi
        <3>1. AtMost(v[s[lo]], v[s[j]]) /\ AtMost(v[s[j]], v[s[hi]])
            BY <1>2, <1>3, <1>6, <2>2, AmountsOrdered DEF Ordered
        <3>2. AtMost(v[w], v[s[j]]) /\ AtMost(v[s[j]], v[w])
            BY <1>3, <1>4, <1>6, <1>7, <3>1, AmountsOrdered DEF Ordered
        <3> QED
            BY <1>3, <1>4, <2>2, <3>2, AmountsOrdered DEF Ordered
    <2> QED
        BY <2>1, <2>2
<1>14. OneEach(s, 1..n)
    BY <1>1 DEF OneEach
<1>10. Cardinality(Lower(W, v, w)) = lo - 1
    <2>1. Lower(W, v, w) = Images(s, 1..(lo - 1))
        BY <1>1, <1>3, <1>6, <1>8 DEF Lower, Images
    <2>2. \A j \in 1..(lo - 1) : j \in 1..n
        BY <1>1, <1>6
    <2>3. IsFiniteSet(1..(lo - 1)) /\ Cardinality(1..(lo - 1)) = lo - 1
        <3>1. lo \in Int /\ lo - 1 \in Int /\ 1 \in Int /\ lo >= 1
            BY <1>1, <1>6
        <3>2. IsFiniteSet(1..(lo - 1)) /\ Cardinality(1..(lo - 1)) = IF 1 > lo - 1 THEN 0 ELSE (lo - 1) - 1 + 1
            BY <3>1, FS_Interval
        <3> QED
            BY <3>1, <3>2
    <2>4. PICK A, D : A = 1..(lo - 1) /\ D = 1..n
        OBVIOUS
    <2>5. A \in SUBSET D /\ OneEach(s, D) /\ IsFiniteSet(A)
        BY <1>14, <2>2, <2>3, <2>4
    <2>6. Cardinality(Images(s, A)) = Cardinality(A)
        BY <2>5, ImageCounts
    <2> QED
        BY <2>1, <2>3, <2>4, <2>6
<1>11. Cardinality(Level(W, v, w)) = hi - lo + 1
    <2>1. Level(W, v, w) = Images(s, lo..hi)
        BY <1>1, <1>3, <1>6, <1>9 DEF Level, Images
    <2>2. \A j \in lo..hi : j \in 1..n
        BY <1>1, <1>6
    <2>3. IsFiniteSet(lo..hi) /\ Cardinality(lo..hi) = hi - lo + 1
        <3>1. lo \in Int /\ hi \in Int /\ lo <= hi
            BY <1>1, <1>6
        <3>2. IsFiniteSet(lo..hi) /\ Cardinality(lo..hi) = IF lo > hi THEN 0 ELSE hi - lo + 1
            BY <3>1, FS_Interval
        <3> QED
            BY <3>1, <3>2
    <2>4. PICK A, D : A = lo..hi /\ D = 1..n
        OBVIOUS
    <2>5. A \in SUBSET D /\ OneEach(s, D) /\ IsFiniteSet(A)
        BY <1>14, <2>2, <2>3, <2>4
    <2>6. Cardinality(Images(s, A)) = Cardinality(A)
        BY <2>5, ImageCounts
    <2> QED
        BY <2>1, <2>3, <2>4, <2>6
<1>12. Cardinality(Tied(W, v, w)) = hi - lo
    BY <1>4, <1>6, <1>11, RankSets
<1>13. PlaceSum(v, s, i) = (lo - 1) + (hi - 1)
    BY DEF PlaceSum, lo, hi
<1> QED
    BY <1>6, <1>10, <1>12, <1>13

\* A rank is the share of the others that are below, and half of those it ties
\* with, whatever order the sort leaves ties in (rankNormalize).
LEMMA RanksOrdinal ==
    ASSUME NEW W, IsFiniteSet(W), NEW v \in [W -> Amount], NEW s \in SortedBy(W, v), NEW w \in W
    PROVE  RanksFrom(W, v, s)[w] =
              IF W = {w} THEN 1 ELSE 2 * Cardinality(Lower(W, v, w)) + Cardinality(Tied(W, v, w))
<1> DEFINE n == Cardinality(W)
<1>1. n \in Nat /\ n # 0 /\ (n = 1 <=> W = {w})
    BY FS_CardinalityType, FS_EmptySet, FS_Singleton
<1>2. CASE \A x, y \in W : Same(v[x], v[y])
    <2>1. Lower(W, v, w) = {} /\ Level(W, v, w) = W
        BY <1>2, AmountsOrdered DEF Lower, Level, Ordered
    <2>2. Cardinality(Lower(W, v, w)) = 0 /\ Cardinality(Tied(W, v, w)) = n - 1
        BY <2>1, RankSets, FS_EmptySet
    <2>3. RanksFrom(W, v, s)[w] = Scale(W) \div 2
        BY <1>2 DEF RanksFrom
    <2>4. Scale(W) \div 2 = IF n = 1 THEN 1 ELSE n - 1
        BY <1>1 DEF Scale
    <2> QED
        BY <1>1, <2>2, <2>3, <2>4
<1>3. CASE ~\A x, y \in W : Same(v[x], v[y])
    <2>1. W # {w}
        BY <1>3, AmountsOrdered DEF Ordered
    <2>2. PICK i \in DOMAIN s : i = CHOOSE j \in DOMAIN s : s[j] = w
        BY SortedOnto DEF SortedBy
    <2>3. s[i] = w
        BY <2>2, SortedOnto DEF SortedBy
    <2>4. RanksFrom(W, v, s)[w] = PlaceSum(v, s, i)
        BY <1>3, <2>2 DEF RanksFrom
    <2> QED
        BY <2>1, <2>3, <2>4, BlockOfEquals
<1> QED
    BY <1>2, <1>3

Rank(W, v, w) == IF W = {w} THEN 1 ELSE 2 * Cardinality(Lower(W, v, w)) + Cardinality(Tied(W, v, w))

\* Ranks are in the order of the values, and within the scale.
LEMMA RankOrder ==
    ASSUME NEW W, IsFiniteSet(W), NEW v \in [W -> Amount], NEW x \in W, NEW y \in W
    PROVE  /\ Rank(W, v, x) \in 0..Scale(W) /\ Scale(W) \in Nat \ {0}
           /\ AtMost(v[x], v[y]) => Rank(W, v, x) <= Rank(W, v, y)
           /\ Less(v[x], v[y]) => Rank(W, v, x) < Rank(W, v, y)
<1> DEFINE n == Cardinality(W)
<1>1. n \in Nat /\ n # 0 /\ (n = 1 <=> \E w : W = {w})
    BY FS_CardinalityType, FS_EmptySet, FS_Singleton
<1>2. PICK lx \in Nat, tx \in Nat, ly \in Nat, ty \in Nat :
        /\ lx = Cardinality(Lower(W, v, x)) /\ tx = Cardinality(Tied(W, v, x))
        /\ ly = Cardinality(Lower(W, v, y)) /\ ty = Cardinality(Tied(W, v, y))
    BY RankSets
<1>3. lx + tx + 1 <= n
    <2>1. Lower(W, v, x) \cap Level(W, v, x) = {}
        BY AmountsOrdered DEF Ordered, Lower, Level
    <2>2. IsFiniteSet(Lower(W, v, x)) /\ IsFiniteSet(Level(W, v, x)) /\ Cardinality(Level(W, v, x)) = tx + 1
        BY <1>2, RankSets
    <2>3. Cardinality(Lower(W, v, x) \cup Level(W, v, x)) = lx + (tx + 1)
        BY <1>2, <2>1, <2>2, DisjointSets
    <2>4. Lower(W, v, x) \cup Level(W, v, x) \in SUBSET W
        BY DEF Lower, Level
    <2>5. Cardinality(Lower(W, v, x) \cup Level(W, v, x)) <= n
        BY <2>4, FS_Subset
    <2> QED
        BY <2>3, <2>5
<1>4. Rank(W, v, x) \in 0..Scale(W) /\ Scale(W) \in Nat \ {0}
    <2>1. CASE n = 1
        BY <1>1, <1>2, <2>1 DEF Rank, Scale
    <2>2. CASE n # 1
        <3>1. Rank(W, v, x) = 2 * lx + tx /\ Scale(W) = 2 * (n - 1)
            BY <1>1, <1>2, <2>2 DEF Rank, Scale
        <3> QED
            BY <1>1, <1>3, <2>2, <3>1
    <2> QED
        BY <2>1, <2>2
<1>5. ASSUME Same(v[x], v[y]) PROVE Rank(W, v, x) = Rank(W, v, y)
    <2>1. \A z \in W : /\ Less(v[z], v[x]) <=> Less(v[z], v[y])
                       /\ Same(v[z], v[x]) <=> Same(v[z], v[y])
        BY <1>5, AmountsOrdered DEF Ordered
    <2>2. Lower(W, v, x) = Lower(W, v, y) /\ Level(W, v, x) = Level(W, v, y)
        BY <2>1 DEF Lower, Level
    <2>3. Cardinality(Tied(W, v, x)) = Cardinality(Tied(W, v, y))
        BY <2>2, RankSets
    <2>4. W = {x} <=> W = {y}
        OBVIOUS
    <2> QED
        BY <2>2, <2>3, <2>4 DEF Rank
<1>6. ASSUME Less(v[x], v[y]) PROVE Rank(W, v, x) < Rank(W, v, y)
    <2>1. x # y
        BY <1>6, AmountsOrdered DEF Ordered
    <2>2. Lower(W, v, x) \cup Level(W, v, x) \in SUBSET Lower(W, v, y)
        <3>1. \A z \in W : AtMost(v[z], v[x]) => Less(v[z], v[y])
            BY <1>6, AmountsOrdered DEF Ordered
        <3> QED
            BY <3>1, AmountsOrdered DEF Ordered, Lower, Level
    <2>3. Lower(W, v, x) \cap Level(W, v, x) = {}
        BY AmountsOrdered DEF Ordered, Lower, Level
    <2>4. IsFiniteSet(Lower(W, v, x)) /\ IsFiniteSet(Level(W, v, x)) /\ Cardinality(Level(W, v, x)) = tx + 1
        BY <1>2, RankSets
    <2>5. Cardinality(Lower(W, v, x) \cup Level(W, v, x)) = lx + (tx + 1)
        BY <1>2, <2>3, <2>4, DisjointSets
    <2>6. Cardinality(Lower(W, v, x) \cup Level(W, v, x)) <= ly
        BY <1>2, <2>2, RankSets, FS_Subset
    <2>7. Rank(W, v, x) = 2 * lx + tx /\ Rank(W, v, y) = 2 * ly + ty
        BY <1>2, <2>1 DEF Rank
    <2> QED
        BY <2>5, <2>6, <2>7
<1>7. ASSUME AtMost(v[x], v[y]) PROVE Rank(W, v, x) <= Rank(W, v, y)
    <2>1. Same(v[x], v[y]) \/ Less(v[x], v[y])
        BY <1>7, AmountsOrdered DEF Ordered
    <2>2. Rank(W, v, x) \in Int /\ Rank(W, v, y) \in Int
        BY <1>2 DEF Rank
    <2> QED
        BY <1>5, <1>6, <2>1, <2>2
<1> QED
    BY <1>4, <1>6, <1>7

\* A finite set in strict order can be written down in that order.
LEMMA InSequence ==
    ASSUME NEW S, IsFiniteSet(S), NEW R, StrictOrder(R, S)
    PROVE  \E s \in SetToSeqs(S) : \A i, j \in DOMAIN s : i < j => <<s[i], s[j]>> \in R
<1> DEFINE n == Cardinality(S)
           place(x) == Cardinality(Preceding(R, S, x))
           s == [i \in 1..n |-> CHOOSE x \in S : place(x) = i - 1]
<1>1. Placed(R, S)
    BY OrderPlaces
<1>2. n \in Nat
    BY FS_CardinalityType
<1>3. \A i \in 1..n : s[i] \in S /\ place(s[i]) = i - 1
    BY <1>1 DEF Placed
<1>4. s \in SetToSeqs(S)
    <2>1. s \in [1..n -> S]
        BY <1>3
    <2>2. ASSUME NEW i \in 1..n, NEW j \in 1..n, i # j PROVE s[i] # s[j]
        BY <1>2, <1>3, <2>2
    <2> HIDE DEF s
    <2> QED
        BY <2>1, <2>2 DEF SetToSeqs
<1>5. ASSUME NEW i \in 1..n, NEW j \in 1..n, i < j PROVE <<s[i], s[j]>> \in R
    <2>1. place(s[i]) < place(s[j]) /\ s[i] \in S /\ s[j] \in S
        BY <1>2, <1>3, <1>5
    <2> HIDE DEF s
    <2> QED
        BY <1>1, <2>1 DEF Placed
<1>6. DOMAIN s = 1..n
    OBVIOUS
<1> HIDE DEF s
<1> QED
    BY <1>4, <1>5, <1>6

\* In the order of their values, and of their numbers where those are equal.
InOrder(W, v) == {e \in W \X W : Less(v[e[1]], v[e[2]]) \/ (Same(v[e[1]], v[e[2]]) /\ e[1] < e[2])}

LEMMA InOrderStrict ==
    ASSUME NEW W \in SUBSET Nat, NEW v \in [W -> Amount]
    PROVE  StrictOrder(InOrder(W, v), W)
<1> DEFINE R == InOrder(W, v)
<1>1. \A x, y \in W : <<x, y>> \in R <=> Less(v[x], v[y]) \/ (Same(v[x], v[y]) /\ x < y)
    BY DEF InOrder
<1>2. \A x \in W : x \in Nat /\ v[x] \in Amount
    OBVIOUS
<1> HIDE DEF R
<1>3. \A x \in W : <<x, x>> \notin R
    BY <1>1, <1>2, AmountsOrdered DEF Ordered
<1>4. ASSUME NEW x \in W, NEW y \in W, NEW z \in W, <<x, y>> \in R, <<y, z>> \in R PROVE <<x, z>> \in R
    <2>1. AtMost(v[x], v[y]) /\ AtMost(v[y], v[z]) /\ AtMost(v[x], v[z])
        BY <1>1, <1>2, <1>4, AmountsOrdered DEF Ordered
    <2>2. CASE Less(v[x], v[z])
        BY <1>1, <2>2
    <2>3. CASE ~Less(v[x], v[z])
        <3>1. AtMost(v[z], v[x]) /\ Same(v[x], v[z])
            BY <1>2, <2>1, <2>3, AmountsOrdered DEF Ordered
        <3>2. AtMost(v[y], v[x]) /\ AtMost(v[z], v[y])
            BY <1>2, <2>1, <3>1, AmountsOrdered DEF Ordered
        <3>3. ~Less(v[x], v[y]) /\ ~Less(v[y], v[z])
            BY <1>2, <3>2, AmountsOrdered DEF Ordered
        <3>4. x < y /\ y < z
            BY <1>1, <1>4, <3>3
        <3>5. x < z
            BY <1>2, <3>4
        <3> QED
            BY <1>1, <3>1, <3>5
    <2> QED
        BY <2>2, <2>3
<1>5. ASSUME NEW x \in W, NEW y \in W, x # y PROVE <<x, y>> \in R \/ <<y, x>> \in R
    <2>1. x < y \/ y < x
        BY <1>2, <1>5
    <2> QED
        BY <1>1, <1>2, <2>1, AmountsOrdered DEF Ordered
<1> QED
    BY <1>3, <1>4, <1>5 DEF StrictOrder, R

\* A cohort can be sorted, so rankNormalize ranks it.
LEMMA RankNormalized ==
    ASSUME NEW W \in SUBSET Nat, IsFiniteSet(W), NEW v \in [W -> Amount], NEW w \in W
    PROVE  rankNormalize(W, v)[w] = Rank(W, v, w)
<1>1. \A x \in W : v[x] \in Amount
    OBVIOUS
<1>2. PICK s \in SetToSeqs(W) : \A i, j \in DOMAIN s : i < j => <<s[i], s[j]>> \in InOrder(W, v)
    BY InOrderStrict, InSequence
<1>3. s \in SortedBy(W, v)
    <2>1. s \in [1..Cardinality(W) -> W]
        BY SortedOnto
    <2>2. ASSUME NEW i \in DOMAIN s, NEW j \in DOMAIN s, i < j PROVE ~Less(v[s[j]], v[s[i]])
        <3>1. s[i] \in W /\ s[j] \in W /\ <<s[i], s[j]>> \in InOrder(W, v)
            BY <1>2, <2>1, <2>2
        <3>2. AtMost(v[s[i]], v[s[j]])
            BY <1>1, <3>1, AmountsOrdered DEF Ordered, InOrder
        <3> QED
            BY <1>1, <3>1, <3>2, AmountsOrdered DEF Ordered
    <2> QED
        BY <2>2 DEF SortedBy
<1>4. PICK t : t = CHOOSE q \in SortedBy(W, v) : TRUE
    OBVIOUS
<1>5. t \in SortedBy(W, v) /\ rankNormalize(W, v) = RanksFrom(W, v, t)
    BY <1>3, <1>4 DEF rankNormalize
<1>6. RanksFrom(W, v, t)[w] = Rank(W, v, w)
    BY <1>5, RanksOrdinal DEF Rank
<1> QED
    BY <1>5, <1>6

-----------------------------------------------------------------------------
(***************************************************************************)
(* Scores.  A cohort is any finite set of wallets whose trades are not     *)
(* later than the reference time and of whom no more than ten collapse     *)
(* into one: beyond ten the penalty for collapsing does not grow.          *)
(***************************************************************************)

Cohort(c) ==
    /\ DOMAIN c \in SUBSET Nat /\ IsFiniteSet(DOMAIN c)
    /\ \A w \in DOMAIN c :
          /\ c[w].winRate \in Fraction /\ 0 <= c[w].winRate[1] /\ c[w].winRate[1] <= c[w].winRate[2]
          /\ c[w].pnl \in Fraction
          /\ c[w].lastTrade \in 0..Now
          /\ IsFiniteSet(DOMAIN c[w].bought)
          /\ \A t \in DOMAIN c[w].bought : c[w].bought[t] \in Nat
          /\ ClusterSize(c, w) <= 10

WinRates(c)       == [w \in DOMAIN c |-> clamp01(c[w].winRate)]
Profits(c)        == [w \in DOMAIN c |-> c[w].pnl]
Recencies(c)      == [w \in DOMAIN c |-> recencyRaw(c[w].lastTrade, Now)]
Concentrations(c) == [w \in DOMAIN c |-> concentrationRaw(c[w].bought)]

LEMMA TotalNatural ==
    ASSUME NEW f, IsFiniteSet(DOMAIN f), \A t \in DOMAIN f : f[t] \in Nat
    PROVE  Total(f) \in Nat
<1>1. SumOf(f, DOMAIN f) \in Nat
    BY SumNatural
<1> QED
    BY <1>1 DEF Total, SumOf

LEMMA ConcentrationFraction ==
    ASSUME NEW f, IsFiniteSet(DOMAIN f), \A t \in DOMAIN f : f[t] \in Nat
    PROVE  concentrationRaw(f) \in Fraction
<1> DEFINE squares == [t \in DOMAIN f |-> f[t] * f[t]]
<1>1. PICK total \in Nat : total = Total(f)
    BY TotalNatural
<1>2. Total(squares) \in Nat
    <2>1. IsFiniteSet(DOMAIN squares) /\ \A t \in DOMAIN squares : squares[t] \in Nat
        OBVIOUS
    <2> HIDE DEF squares
    <2> QED
        BY <2>1, TotalNatural
<1>3. concentrationRaw(f) = IF total <= 0 THEN <<0, 1>> ELSE <<Total(squares), total * total>>
    BY <1>1 DEF concentrationRaw
<1>4. total > 0 => total * total \in Nat \ {0}
    OBVIOUS
<1> HIDE DEF squares
<1> QED
    BY <1>2, <1>3, <1>4 DEF Fraction

\* What the penalty for tokens being dumped is made from is the share of the
\* dollars in them.
LEMMA DumpedShareFraction ==
    ASSUME NEW w, IsFiniteSet(DOMAIN w.bought), \A t \in DOMAIN w.bought : w.bought[t] \in Nat
    PROVE  /\ distributionPenalty(w.bought, Dumping) = DumpedShare(w)
           /\ DumpedShare(w) \in Fraction /\ 0 <= DumpedShare(w)[1]
<1> DEFINE flagged == [t \in DOMAIN w.bought \cap Dumping |-> w.bought[t]]
<1>1. PICK total \in Nat : total = Total(w.bought)
    BY TotalNatural
<1>2. Total(flagged) \in Nat
    <2>1. IsFiniteSet(DOMAIN flagged) /\ \A t \in DOMAIN flagged : flagged[t] \in Nat
        BY FS_Intersection
    <2> HIDE DEF flagged
    <2> QED
        BY <2>1, TotalNatural
<1>3. /\ DumpedShare(w) = IF total = 0 THEN <<0, 1>> ELSE <<Total(flagged), total>>
      /\ distributionPenalty(w.bought, Dumping) = IF total <= 0 THEN <<0, 1>> ELSE <<Total(flagged), total>>
    BY <1>1 DEF DumpedShare, distributionPenalty
<1> HIDE DEF flagged
<1> QED
    BY <1>2, <1>3 DEF Fraction

LEMMA RecencyOrder ==
    ASSUME NEW a \in 0..Now, NEW b \in 0..Now
    PROVE  /\ recencyRaw(a, Now) \in Amount
           /\ AtMost(recencyRaw(a, Now), recencyRaw(b, Now)) <=> a <= b
           /\ Less(recencyRaw(a, Now), recencyRaw(b, Now)) <=> a < b
BY TablesAssumption DEF recencyRaw, Amount, Fraction, Least, AtMost, Less

LEMMA ClusterPenaltyOrder ==
    ASSUME NEW m \in 0..10, NEW n \in 0..10
    PROVE  LET M == IF m <= 2 THEN 0 ELSE m - 2
               N == IF n <= 2 THEN 0 ELSE n - 2
           IN  /\ clusterPenaltyFor(m) \in Fraction /\ 0 <= clusterPenaltyFor(m)[1]
               /\ AtMost(clusterPenaltyFor(m), clusterPenaltyFor(n)) <=> M <= N
               /\ Less(clusterPenaltyFor(m), clusterPenaltyFor(n)) <=> M < N
BY DEF clusterPenaltyFor, Fraction, AtMost, Less

LEMMA MeasuresTyped ==
    ASSUME NEW c, Cohort(c)
    PROVE  /\ WinRates(c) \in [DOMAIN c -> Amount] /\ Profits(c) \in [DOMAIN c -> Amount]
           /\ Recencies(c) \in [DOMAIN c -> Amount] /\ Concentrations(c) \in [DOMAIN c -> Amount]
           /\ \A w \in DOMAIN c : WinRates(c)[w] = c[w].winRate
<1>1. \A w \in DOMAIN c : clamp01(c[w].winRate) = c[w].winRate /\ c[w].winRate \in Amount
    <2> SUFFICES ASSUME NEW w \in DOMAIN c
                 PROVE  clamp01(c[w].winRate) = c[w].winRate /\ c[w].winRate \in Amount
        OBVIOUS
    <2>1. c[w].winRate \in Fraction /\ 0 <= c[w].winRate[1] /\ c[w].winRate[1] <= c[w].winRate[2]
        BY DEF Cohort
    <2>2. c[w].winRate[1] \in Int /\ c[w].winRate[2] \in Int
        BY <2>1 DEF Fraction
    <2> QED
        BY <2>1, <2>2 DEF clamp01, Amount
<1>2. \A w \in DOMAIN c : c[w].pnl \in Amount
    BY DEF Cohort, Amount
<1>3. \A w \in DOMAIN c : recencyRaw(c[w].lastTrade, Now) \in Amount
    BY RecencyOrder DEF Cohort
<1>4. \A w \in DOMAIN c : concentrationRaw(c[w].bought) \in Amount
    BY ConcentrationFraction DEF Cohort, Amount
<1> QED
    BY <1>1, <1>2, <1>3, <1>4 DEF WinRates, Profits, Recencies, Concentrations

EarnedBy(c, w) ==
    18 * Rank(DOMAIN c, WinRates(c), w) + 12 * Rank(DOMAIN c, Profits(c), w)
        + 5 * Rank(DOMAIN c, Recencies(c), w) + 5 * Rank(DOMAIN c, Concentrations(c), w)

PenaltyOf(c, w) ==
    Plus(Times(6, distributionPenalty(c[w].bought, Dumping)), Times(4, clusterPenaltyFor(ClusterSize(c, w))))

FortiethsOf(c, w) == Plus(<<EarnedBy(c, w), Scale(DOMAIN c)>>, Times(-1, PenaltyOf(c, w)))

LEMMA ScoreIsFortieths ==
    ASSUME NEW c, Cohort(c)
    PROVE  ScoreWallets(c, Dumping, Now) =
              [w \in DOMAIN c |-> clamp01(<<FortiethsOf(c, w)[1], 40 * FortiethsOf(c, w)[2]>>)]
<1>1. \A w \in DOMAIN c : /\ rankNormalize(DOMAIN c, WinRates(c))[w] = Rank(DOMAIN c, WinRates(c), w)
                          /\ rankNormalize(DOMAIN c, Profits(c))[w] = Rank(DOMAIN c, Profits(c), w)
                          /\ rankNormalize(DOMAIN c, Recencies(c))[w] = Rank(DOMAIN c, Recencies(c), w)
                          /\ rankNormalize(DOMAIN c, Concentrations(c))[w] = Rank(DOMAIN c, Concentrations(c), w)
    BY MeasuresTyped, RankNormalized DEF Cohort
<1> QED
    BY <1>1 DEF ScoreWallets, FortiethsOf, PenaltyOf, EarnedBy, WinRates, Profits, Recencies, Concentrations

CrowdOf(size) == IF size <= 2 THEN 0 ELSE size - 2

LEMMA ClusterSizes ==
    ASSUME NEW c, Cohort(c), NEW w \in DOMAIN c
    PROVE  ClusterSize(c, w) \in 0..10 /\ Crowd(c, w) = CrowdOf(ClusterSize(c, w))
<1> DEFINE f == [v \in DOMAIN c |-> c[v].funders]
<1>1. Component(DOMAIN c, f, w) \in SUBSET (DOMAIN c) /\ IsFiniteSet(DOMAIN c)
    BY DEF Component, Cohort
<1>2. Cardinality(Component(DOMAIN c, f, w)) \in Nat
    BY <1>1, FS_Subset, FS_CardinalityType
<1>3. ClusterSize(c, w) = Cardinality(Component(DOMAIN c, f, w)) /\ ClusterSize(c, w) <= 10
    BY DEF ClusterSize, Cohort
<1>4. Crowd(c, w) = CrowdOf(Cardinality(Component(DOMAIN c, f, w)))
    BY DEF Crowd, CrowdOf
<1> HIDE DEF f
<1> QED
    BY <1>2, <1>3, <1>4

\* The penalty is in the order of the dollars dumped and of the crowd.
LEMMA PenaltyOrder ==
    ASSUME NEW c, Cohort(c), NEW u \in DOMAIN c, NEW v \in DOMAIN c,
           AtMost(DumpedShare(c[u]), DumpedShare(c[v])), Crowd(c, u) <= Crowd(c, v)
    PROVE  /\ PenaltyOf(c, u) \in Fraction /\ PenaltyOf(c, v) \in Fraction
           /\ AtMost(PenaltyOf(c, u), PenaltyOf(c, v))
           /\ Less(DumpedShare(c[u]), DumpedShare(c[v])) \/ Crowd(c, u) < Crowd(c, v)
              => Less(PenaltyOf(c, u), PenaltyOf(c, v))
<1>1. PICK m \in 0..10, n \in 0..10 :
        /\ m = ClusterSize(c, u) /\ n = ClusterSize(c, v)
        /\ Crowd(c, u) = CrowdOf(m) /\ Crowd(c, v) = CrowdOf(n)
    BY ClusterSizes
<1>2. PICK x \in Fraction, y \in Fraction :
        /\ x = DumpedShare(c[u]) /\ x = distributionPenalty(c[u].bought, Dumping)
        /\ y = DumpedShare(c[v]) /\ y = distributionPenalty(c[v].bought, Dumping)
    <2>1. ASSUME NEW w \in DOMAIN c
          PROVE  distributionPenalty(c[w].bought, Dumping) = DumpedShare(c[w]) /\ DumpedShare(c[w]) \in Fraction
        BY DumpedShareFraction DEF Cohort
    <2> QED
        BY <2>1
<1>3. PICK g \in Fraction, h \in Fraction :
        /\ g = clusterPenaltyFor(m) /\ h = clusterPenaltyFor(n)
        /\ AtMost(g, h) /\ (CrowdOf(m) < CrowdOf(n) => Less(g, h))
    BY <1>1, ClusterPenaltyOrder DEF CrowdOf
<1>4. PICK x6 \in Fraction, y6 \in Fraction, g4 \in Fraction, h4 \in Fraction :
        /\ x6 = Times(6, x) /\ y6 = Times(6, y) /\ g4 = Times(4, g) /\ h4 = Times(4, h)
        /\ AtMost(x6, y6) /\ (Less(x, y) => Less(x6, y6))
        /\ AtMost(g4, h4) /\ (Less(g, h) => Less(g4, h4))
    BY <1>2, <1>3, FractionsTimes
<1>5. PenaltyOf(c, u) = Plus(x6, g4) /\ PenaltyOf(c, v) = Plus(y6, h4)
    BY <1>1, <1>2, <1>3, <1>4 DEF PenaltyOf
<1>6. Plus(x6, g4) \in Fraction /\ Plus(y6, h4) \in Fraction
    BY FractionsAdd
<1>7. /\ AtMost(Plus(x6, g4), Plus(y6, h4))
      /\ Less(x6, y6) \/ Less(g4, h4) => Less(Plus(x6, g4), Plus(y6, h4))
    BY <1>4, FractionsAdd
<1> QED
    BY <1>1, <1>2, <1>3, <1>4, <1>5, <1>6, <1>7

\* A penalty takes away.
LEMMA PenaltyTakes ==
    ASSUME NEW c, Cohort(c), NEW w \in DOMAIN c
    PROVE  PenaltyOf(c, w) \in Fraction /\ 0 <= PenaltyOf(c, w)[1]
<1>1. PICK x \in Fraction : x = distributionPenalty(c[w].bought, Dumping) /\ 0 <= x[1]
    BY DumpedShareFraction DEF Cohort
<1>2. PICK y \in Fraction : y = clusterPenaltyFor(ClusterSize(c, w)) /\ 0 <= y[1]
    BY ClusterSizes, ClusterPenaltyOrder
<1>3. PICK i \in Nat, j \in Nat \ {0} : x = <<i, j>>
    BY <1>1 DEF Fraction
<1>4. PICK k \in Nat, l \in Nat \ {0} : y = <<k, l>>
    BY <1>2 DEF Fraction
<1>5. PenaltyOf(c, w) = <<6 * i * l + 4 * k * j, j * l>>
    BY <1>1, <1>2, <1>3, <1>4 DEF PenaltyOf, Plus, Times
<1>6. 6 * i * l + 4 * k * j \in Nat /\ j * l \in Nat \ {0}
    OBVIOUS
<1> QED
    BY <1>5, <1>6 DEF Fraction

\* What is earned is in the order of the four ranks.
LEMMA EarnedOrder ==
    ASSUME NEW c, Cohort(c), NEW u \in DOMAIN c, NEW v \in DOMAIN c,
           AtMost(WinRates(c)[v], WinRates(c)[u]), AtMost(Profits(c)[v], Profits(c)[u]),
           AtMost(Recencies(c)[v], Recencies(c)[u]), AtMost(Concentrations(c)[v], Concentrations(c)[u])
    PROVE  /\ EarnedBy(c, u) \in 0..(40 * Scale(DOMAIN c)) /\ EarnedBy(c, v) \in Nat
           /\ Scale(DOMAIN c) \in Nat \ {0}
           /\ EarnedBy(c, v) <= EarnedBy(c, u)
           /\ \/ Less(WinRates(c)[v], WinRates(c)[u]) \/ Less(Profits(c)[v], Profits(c)[u])
              \/ Less(Recencies(c)[v], Recencies(c)[u]) \/ Less(Concentrations(c)[v], Concentrations(c)[u])
              => EarnedBy(c, v) < EarnedBy(c, u)
<1> DEFINE W == DOMAIN c
           LessIn(m) == Less(m[v], m[u])
<1>1. PICK n \in Nat \ {0} : n = Scale(W)
    BY MeasuresTyped, RankOrder DEF Cohort
<1>2. \A m \in [W -> Amount] :
        /\ Rank(W, m, u) \in 0..n /\ Rank(W, m, v) \in 0..n
        /\ AtMost(m[v], m[u]) => Rank(W, m, v) <= Rank(W, m, u)
        /\ Less(m[v], m[u]) => Rank(W, m, v) < Rank(W, m, u)
    BY <1>1, RankOrder DEF Cohort
<1>3. PICK p \in 0..n, P \in 0..n : /\ p = Rank(W, WinRates(c), v) /\ P = Rank(W, WinRates(c), u) /\ p <= P
                                    /\ LessIn(WinRates(c)) => p < P
    BY <1>2, MeasuresTyped
<1>4. PICK q \in 0..n, Q \in 0..n : /\ q = Rank(W, Profits(c), v) /\ Q = Rank(W, Profits(c), u) /\ q <= Q
                                    /\ LessIn(Profits(c)) => q < Q
    BY <1>2, MeasuresTyped
<1>5. PICK r \in 0..n, R \in 0..n : /\ r = Rank(W, Recencies(c), v) /\ R = Rank(W, Recencies(c), u) /\ r <= R
                                    /\ LessIn(Recencies(c)) => r < R
    BY <1>2, MeasuresTyped
<1>6. PICK s \in 0..n, S \in 0..n : /\ s = Rank(W, Concentrations(c), v) /\ S = Rank(W, Concentrations(c), u) /\ s <= S
                                    /\ LessIn(Concentrations(c)) => s < S
    BY <1>2, MeasuresTyped
<1>7. /\ EarnedBy(c, v) = 18 * p + 12 * q + 5 * r + 5 * s
      /\ EarnedBy(c, u) = 18 * P + 12 * Q + 5 * R + 5 * S
    BY <1>3, <1>4, <1>5, <1>6 DEF EarnedBy
<1> QED
    BY <1>1, <1>3, <1>4, <1>5, <1>6, <1>7

\* More earned, or less taken away, leaves more.
LEMMA LeftOrder ==
    ASSUME NEW a \in Int, NEW b \in Int, NEW n \in Nat \ {0}, NEW x \in Fraction, NEW y \in Fraction,
           b <= a, AtMost(x, y), b < a \/ Less(x, y)
    PROVE  Less(Plus(<<b, n>>, Times(-1, y)), Plus(<<a, n>>, Times(-1, x)))
<1>1. PICK X \in Fraction, Y \in Fraction :
        X = Times(-1, x) /\ Y = Times(-1, y) /\ AtMost(Y, X) /\ (Less(x, y) => Less(Y, X))
    BY FractionsTimes
<1>2. PICK A \in Fraction, B \in Fraction : A = <<a, n>> /\ B = <<b, n>>
    BY DEF Fraction
<1>3. AtMost(B, A) /\ (b < a => Less(B, A))
    <2>1. b * n <= a * n
        BY TimesKeeps
    <2>2. b < a => b * n < a * n
        BY TimesKeepsStrictly
    <2> QED
        BY <1>2, <2>1, <2>2 DEF AtMost, Less
<1>4. Less(Plus(B, Y), Plus(A, X))
    BY <1>1, <1>3, FractionsAdd
<1> QED
    BY <1>1, <1>2, <1>4

\* No score is above one before it is kept within bounds.
LEMMA LeftBounded ==
    ASSUME NEW n \in Nat \ {0}, NEW a \in 0..(40 * n), NEW x \in Fraction, 0 <= x[1]
    PROVE  LET left == Plus(<<a, n>>, Times(-1, x)) IN left \in Fraction /\ left[1] <= 40 * left[2]
<1>1. PICK i \in Nat, j \in Nat \ {0} : x = <<i, j>>
    BY DEF Fraction
<1>2. Plus(<<a, n>>, Times(-1, x)) = <<a * j + (-1 * i) * n, n * j>>
    BY <1>1 DEF Plus, Times
<1>3. a * j <= (40 * n) * j
    BY TimesKeeps
<1>4. /\ (-1 * i) * n = -(i * n) /\ i * n \in Nat /\ (40 * n) * j = 40 * (n * j)
      /\ n * j \in Nat \ {0} /\ a * j \in Int
    OBVIOUS
<1> QED
    BY <1>2, <1>3, <1>4 DEF Fraction

Kept(x) == clamp01(<<x[1], 40 * x[2]>>)

\* Keeping a score within bounds keeps the order of those that are above zero.
LEMMA KeptOrder ==
    ASSUME NEW x \in Fraction, NEW y \in Fraction, x[1] <= 40 * x[2], y[1] <= 40 * y[2]
    PROVE  /\ Kept(x) \in Fraction
           /\ Less(x, y) /\ Kept(y)[1] > 0 => Less(Kept(x), Kept(y))
<1>1. PICK i \in Int, j \in Nat \ {0} : x = <<i, j>> /\ i <= 40 * j
    BY DEF Fraction
<1>2. PICK k \in Int, l \in Nat \ {0} : y = <<k, l>> /\ k <= 40 * l
    BY DEF Fraction
<1>3. /\ Kept(x) = IF i < 0 THEN <<0, 1>> ELSE <<i, 40 * j>>
      /\ Kept(y) = IF k < 0 THEN <<0, 1>> ELSE <<k, 40 * l>>
    BY <1>1, <1>2 DEF Kept, clamp01
<1>4. ASSUME Less(x, y), Kept(y)[1] > 0 PROVE Less(Kept(x), Kept(y))
    <2>1. k > 0 /\ Kept(y) = <<k, 40 * l>>
        BY <1>2, <1>3, <1>4
    <2>2. i * l < k * j /\ i * l \in Int /\ k * j \in Int
        BY <1>1, <1>2, <1>4 DEF Less
    <2>3. i * (40 * l) = 40 * (i * l) /\ k * (40 * j) = 40 * (k * j)
        OBVIOUS
    <2> QED
        BY <1>3, <2>1, <2>2, <2>3 DEF Less
<1> QED
    BY <1>1, <1>3, <1>4 DEF Fraction

\* Nothing that counts is worse, and something is better.
Better(c, u, v) == NoWorse(c, u, v) /\ ~NoWorse(c, v, u)

LEMMA BetterMeasures ==
    ASSUME NEW c, Cohort(c), NEW u \in DOMAIN c, NEW v \in DOMAIN c, Better(c, u, v)
    PROVE  /\ AtMost(WinRates(c)[v], WinRates(c)[u]) /\ AtMost(Profits(c)[v], Profits(c)[u])
           /\ AtMost(Recencies(c)[v], Recencies(c)[u]) /\ AtMost(Concentrations(c)[v], Concentrations(c)[u])
           /\ AtMost(DumpedShare(c[u]), DumpedShare(c[v])) /\ Crowd(c, u) <= Crowd(c, v)
           /\ \/ Less(WinRates(c)[v], WinRates(c)[u]) \/ Less(Profits(c)[v], Profits(c)[u])
              \/ Less(Recencies(c)[v], Recencies(c)[u]) \/ Less(Concentrations(c)[v], Concentrations(c)[u])
              \/ Less(DumpedShare(c[u]), DumpedShare(c[v])) \/ Crowd(c, u) < Crowd(c, v)
<1>1. \A w \in {u, v} :
        /\ WinRates(c)[w] = c[w].winRate /\ Profits(c)[w] = c[w].pnl
        /\ Recencies(c)[w] = recencyRaw(c[w].lastTrade, Now)
        /\ Concentrations(c)[w] = concentrationRaw(c[w].bought)
    BY MeasuresTyped DEF Profits, Recencies, Concentrations
<1>2. \A w \in {u, v} :
        /\ WinRates(c)[w] \in Amount /\ Profits(c)[w] \in Amount
        /\ Recencies(c)[w] \in Amount /\ Concentrations(c)[w] \in Amount
        /\ DumpedShare(c[w]) \in Amount /\ c[w].lastTrade \in 0..Now /\ Crowd(c, w) \in Int
    <2>1. \A w \in {u, v} : DumpedShare(c[w]) \in Amount
        BY DumpedShareFraction DEF Cohort, Amount
    <2>2. \A w \in {u, v} : Crowd(c, w) \in Int
        BY ClusterSizes DEF CrowdOf
    <2>3. \A w \in {u, v} : c[w].lastTrade \in 0..Now
        BY DEF Cohort
    <2> QED
        BY <2>1, <2>2, <2>3, MeasuresTyped
<1>3. /\ AtMost(WinRates(c)[v], WinRates(c)[u]) <=> ~Less(c[u].winRate, c[v].winRate)
      /\ AtMost(WinRates(c)[u], WinRates(c)[v]) <=> ~Less(c[v].winRate, c[u].winRate)
      /\ Less(WinRates(c)[v], WinRates(c)[u]) <=> Less(c[v].winRate, c[u].winRate)
      /\ AtMost(Profits(c)[v], Profits(c)[u]) <=> ~Less(c[u].pnl, c[v].pnl)
      /\ Less(Profits(c)[v], Profits(c)[u]) <=> Less(c[v].pnl, c[u].pnl)
    BY <1>1, <1>2, AmountsCompare
<1>4. /\ AtMost(Concentrations(c)[v], Concentrations(c)[u])
            <=> ~Less(concentrationRaw(c[u].bought), concentrationRaw(c[v].bought))
      /\ Less(Concentrations(c)[v], Concentrations(c)[u])
            <=> Less(concentrationRaw(c[v].bought), concentrationRaw(c[u].bought))
      /\ AtMost(DumpedShare(c[u]), DumpedShare(c[v])) <=> ~Less(DumpedShare(c[v]), DumpedShare(c[u]))
    BY <1>1, <1>2, AmountsCompare
<1>5. /\ AtMost(Recencies(c)[v], Recencies(c)[u]) <=> c[v].lastTrade <= c[u].lastTrade
      /\ Less(Recencies(c)[v], Recencies(c)[u]) <=> c[v].lastTrade < c[u].lastTrade
    BY <1>1, <1>2, RecencyOrder
<1>6. /\ ~Less(c[u].winRate, c[v].winRate) /\ ~Less(c[u].pnl, c[v].pnl)
      /\ c[u].lastTrade >= c[v].lastTrade
      /\ ~Less(concentrationRaw(c[u].bought), concentrationRaw(c[v].bought))
      /\ ~Less(DumpedShare(c[v]), DumpedShare(c[u]))
      /\ Crowd(c, u) <= Crowd(c, v)
    BY DEF Better, NoWorse
<1>7. \/ Less(c[v].winRate, c[u].winRate) \/ Less(c[v].pnl, c[u].pnl)
      \/ c[v].lastTrade < c[u].lastTrade
      \/ Less(concentrationRaw(c[v].bought), concentrationRaw(c[u].bought))
      \/ Less(DumpedShare(c[u]), DumpedShare(c[v]))
      \/ Crowd(c, u) < Crowd(c, v)
    <2>1. (c[v].lastTrade < c[u].lastTrade <=> ~(c[v].lastTrade >= c[u].lastTrade))
          /\ (Crowd(c, u) < Crowd(c, v) <=> ~(Crowd(c, v) <= Crowd(c, u)))
        BY <1>2
    <2> QED
        BY <2>1, Zenon DEF Better, NoWorse
<1> QED
    BY <1>3, <1>4, <1>5, <1>6, <1>7

\* The better wallet has the higher score, unless nothing is left of it.
LEMMA BetterScores ==
    ASSUME NEW c, Cohort(c), NEW u \in DOMAIN c, NEW v \in DOMAIN c, Better(c, u, v),
           Kept(FortiethsOf(c, u))[1] > 0
    PROVE  Less(Kept(FortiethsOf(c, v)), Kept(FortiethsOf(c, u)))
<1>1. PICK n \in Nat \ {0} : n = Scale(DOMAIN c)
    BY BetterMeasures, EarnedOrder
<1>2. PICK a \in 0..(40 * n), b \in 0..(40 * n) :
        /\ a = EarnedBy(c, u) /\ b = EarnedBy(c, v) /\ b <= a
        /\ \/ Less(WinRates(c)[v], WinRates(c)[u]) \/ Less(Profits(c)[v], Profits(c)[u])
           \/ Less(Recencies(c)[v], Recencies(c)[u]) \/ Less(Concentrations(c)[v], Concentrations(c)[u])
           => b < a
    <2>1. /\ EarnedBy(c, u) \in 0..(40 * Scale(DOMAIN c)) /\ EarnedBy(c, v) \in Nat
          /\ Scale(DOMAIN c) \in Nat \ {0} /\ EarnedBy(c, v) <= EarnedBy(c, u)
        BY BetterMeasures, EarnedOrder
    <2>2. EarnedBy(c, v) \in 0..(40 * Scale(DOMAIN c))
        BY <1>1, <2>1
    <2> QED
        BY <1>1, <2>1, <2>2, BetterMeasures, EarnedOrder
<1>3. PICK x \in Fraction, y \in Fraction :
        /\ x = PenaltyOf(c, u) /\ y = PenaltyOf(c, v) /\ AtMost(x, y) /\ 0 <= x[1] /\ 0 <= y[1]
        /\ Less(DumpedShare(c[u]), DumpedShare(c[v])) \/ Crowd(c, u) < Crowd(c, v) => Less(x, y)
    BY BetterMeasures, PenaltyOrder, PenaltyTakes
<1>4. b < a \/ Less(x, y)
    BY <1>2, <1>3, BetterMeasures
<1>5. PICK X \in Fraction, Y \in Fraction :
        /\ X = Plus(<<a, n>>, Times(-1, x)) /\ Y = Plus(<<b, n>>, Times(-1, y))
        /\ X[1] <= 40 * X[2] /\ Y[1] <= 40 * Y[2]
    BY <1>3, LeftBounded
<1>6. Less(Y, X)
    BY <1>2, <1>3, <1>4, <1>5, LeftOrder
<1>7. X = FortiethsOf(c, u) /\ Y = FortiethsOf(c, v)
    BY <1>1, <1>2, <1>3, <1>5 DEF FortiethsOf
<1> QED
    BY <1>5, <1>6, <1>7, KeptOrder

\* What is left of a wallet is a fraction.
LEMMA LeftTyped ==
    ASSUME NEW c, Cohort(c), NEW w \in DOMAIN c
    PROVE  Kept(FortiethsOf(c, w)) \in Fraction
<1>1. PICK n \in Nat \ {0} : n = Scale(DOMAIN c)
    BY MeasuresTyped, RankOrder DEF Cohort
<1>2. PICK a \in 0..(40 * n) : a = EarnedBy(c, w)
    <2>1. AtMost(WinRates(c)[w], WinRates(c)[w]) /\ AtMost(Profits(c)[w], Profits(c)[w])
          /\ AtMost(Recencies(c)[w], Recencies(c)[w]) /\ AtMost(Concentrations(c)[w], Concentrations(c)[w])
        BY MeasuresTyped, AmountsCompare
    <2> QED
        BY <1>1, <2>1, EarnedOrder
<1>3. PICK x \in Fraction : x = PenaltyOf(c, w) /\ 0 <= x[1]
    BY PenaltyTakes
<1>4. PICK X \in Fraction : X = FortiethsOf(c, w) /\ X[1] <= 40 * X[2]
    BY <1>1, <1>2, <1>3, LeftBounded DEF FortiethsOf
<1> QED
    BY <1>4, KeptOrder

\* The wallets are listed, each once, and none after one it is listed before.
LEMMA ListedSorted ==
    ASSUME NEW score, DOMAIN score \in SUBSET Nat, IsFiniteSet(DOMAIN score),
           \A w \in DOMAIN score : score[w] \in Fraction
    PROVE  /\ Listed(score) \in SetToSeqs(DOMAIN score)
           /\ \A i, j \in DOMAIN Listed(score) :
                 i < j => ListedBefore(score, Listed(score)[i], Listed(score)[j])
<1> DEFINE W == DOMAIN score
           v == [w \in W |-> Times(-1, score[w])]
<1>1. v \in [W -> Fraction]
    BY FractionsTimes
<1>2. ASSUME NEW x \in W, NEW y \in W
      PROVE  /\ Less(v[x], v[y]) <=> Less(score[y], score[x])
             /\ Same(v[x], v[y]) <=> Same(score[x], score[y])
    <2>1. score[x] \in Fraction /\ score[y] \in Fraction /\ v[x] \in Fraction /\ v[y] \in Fraction
        BY <1>1
    <2>2. score[x] \in Amount /\ score[y] \in Amount /\ v[x] \in Amount /\ v[y] \in Amount
        BY <2>1 DEF Amount
    <2>3. /\ Less(v[x], v[y]) <=> Less(score[y], score[x])
          /\ AtMost(v[x], v[y]) <=> AtMost(score[y], score[x])
          /\ AtMost(v[y], v[x]) <=> AtMost(score[x], score[y])
        BY <2>1, FractionsTimes
    <2> QED
        BY <2>2, <2>3, AmountsCompare
<1> HIDE DEF v
<1>3. v \in [W -> Amount]
    BY <1>1 DEF Amount
<1>4. PICK s \in SetToSeqs(W) : \A i, j \in DOMAIN s : i < j => <<s[i], s[j]>> \in InOrder(W, v)
    BY <1>3, InOrderStrict, InSequence
<1>5. \A i, j \in DOMAIN s : i < j => ListedBefore(score, s[i], s[j])
    BY <1>2, <1>4 DEF InOrder, ListedBefore
<1>6. PICK t : t = Listed(score)
    OBVIOUS
<1>7. t \in SetToSeqs(W) /\ \A i, j \in DOMAIN t : i < j => ListedBefore(score, t[i], t[j])
    BY <1>5, <1>6 DEF Listed
<1> QED
    BY <1>6, <1>7

\* In every cohort a wallet that is no worse in anything and better in something
\* is listed above the other, unless nothing is left of its score (ScoreWallets).
THEOREM BetterIsFirst ==
    ASSUME NEW c, Cohort(c)
    PROVE  BetterFirst(c)
<1>1. PICK score : score = ScoreWallets(c, Dumping, Now)
    OBVIOUS
<1>2. DOMAIN score = DOMAIN c /\ \A w \in DOMAIN c : score[w] = Kept(FortiethsOf(c, w))
    BY <1>1, ScoreIsFortieths DEF Kept
<1>3. DOMAIN score \in SUBSET Nat /\ IsFiniteSet(DOMAIN score) /\ \A w \in DOMAIN score : score[w] \in Fraction
    BY <1>2, LeftTyped DEF Cohort
<1>4. PICK list : list = Listed(score)
    OBVIOUS
<1>5. list \in SetToSeqs(DOMAIN c) /\ \A i, j \in DOMAIN list : i < j => ListedBefore(score, list[i], list[j])
    BY <1>2, <1>3, <1>4, ListedSorted
<1>6. DOMAIN list \in SUBSET Nat /\ \A i \in DOMAIN list : list[i] \in DOMAIN c
    BY <1>2, <1>3, <1>5, SortedOnto
<1>7. ASSUME NEW i \in DOMAIN list, NEW j \in DOMAIN list, Better(c, list[j], list[i]), score[list[j]][1] > 0
      PROVE  j < i
    <2>1. PICK u \in DOMAIN c, v \in DOMAIN c : u = list[j] /\ v = list[i]
        BY <1>6
    <2>2. Less(score[v], score[u])
        BY <1>2, <1>7, <2>1, BetterScores
    <2>3. score[u] \in Amount /\ score[v] \in Amount
        BY <1>2, <1>3 DEF Amount
    <2>4. ~ListedBefore(score, v, u) /\ u # v
        BY <2>2, <2>3, AmountsCompare DEF ListedBefore
    <2>5. ~(i < j) /\ i # j
        BY <1>5, <2>1, <2>4
    <2> QED
        BY <1>6, <2>5
<1> QED
    BY <1>1, <1>4, <1>7 DEF BetterFirst, Better

\* Whatever order the sort leaves ties in, a rank is the share of the others
\* that are below, and half of those it ties with (rankNormalize).
THEOREM RanksOfAnyCohort ==
    ASSUME NEW W, IsFiniteSet(W), NEW v \in [W -> Amount]
    PROVE  OrdinalRanks(v)
<1>1. ASSUME NEW s \in SortedBy(W, v), NEW w \in W
      PROVE  RanksFrom(W, v, s)[w] =
                IF W = {w} THEN 1
                ELSE 2 * Cardinality({x \in W : Less(v[x], v[w])})
                        + Cardinality({x \in W \ {w} : Same(v[x], v[w])})
    BY RanksOrdinal DEF Lower, Tied
<1>2. DOMAIN v = W
    OBVIOUS
<1> QED
    BY <1>1, <1>2 DEF OrdinalRanks, RankOutcomes

-----------------------------------------------------------------------------
(* What the runs enumerate.                                                *)

CohortInput == input.of = "cohort" => Cohort(input.cohort)

MeasureInput ==
    input.of = "measure" => \E n \in Nat : input.v \in [1..n -> Amount]

LEMMA CohortsTyped == TablesSpec => []CohortInput
<1>1. ASSUME CohortTable PROVE Cohort(input.cohort)
    <2>1. PICK w1 \in Wallet, w2 \in Wallet, w3 \in Plain, together \in BOOLEAN :
            input = [of |-> "cohort", cohort |-> CohortOf(<<w1, w2, w3, w3>>, together)]
        BY <1>1 DEF CohortTable
    <2>2. PICK c : c = CohortOf(<<w1, w2, w3, w3>>, together)
        OBVIOUS
    <2>3. DOMAIN c = 1..4 /\ \A i \in 1..4 : \E w \in Wallet :
             /\ c[i].winRate = w.winRate /\ c[i].pnl = w.pnl
             /\ c[i].bought = w.bought /\ c[i].lastTrade = w.lastTrade
        <3>1. w3 \in Wallet
            BY DEF Plain
        <3> QED
            BY <2>2, <3>1 DEF CohortOf
    <2>4. PICK W : W = 1..4 /\ W \in SUBSET Nat /\ IsFiniteSet(W) /\ Cardinality(W) = 4
        <3>1. PICK lo \in Int, hi \in Int : lo = 1 /\ hi = 4
            OBVIOUS
        <3>2. PICK W, k : W = lo..hi /\ IsFiniteSet(W) /\ k = Cardinality(W) /\ k = IF lo > hi THEN 0 ELSE hi - lo + 1
            BY FS_Interval
        <3>3. k = 4
            BY <3>1, <3>2
        <3>4. W = 1..4 /\ W \in SUBSET Nat
            BY <3>1, <3>2
        <3> QED
            BY <3>2, <3>3, <3>4, Zenon
    <2>5. \A w \in Wallet :
             /\ w.winRate \in Fraction /\ 0 <= w.winRate[1] /\ w.winRate[1] <= w.winRate[2]
             /\ w.pnl \in Fraction /\ w.lastTrade \in 0..Now
             /\ IsFiniteSet(DOMAIN w.bought) /\ \A t \in DOMAIN w.bought : w.bought[t] \in Nat
        <3>1. IsFiniteSet({"clean"} \cup {"dumped"})
            BY FS_Singleton, FS_Union
        <3> QED
            BY <3>1, TablesAssumption, {"clean"} \cup {"dumped"} = {"clean", "dumped"} DEF Wallet, Fraction, Held
    <2>6. ASSUME NEW i \in W PROVE ClusterSize(c, i) <= 10
        <3>1. PICK C : C = Component(W, [v \in W |-> c[v].funders], i)
            OBVIOUS
        <3>2. C \in SUBSET W /\ ClusterSize(c, i) = Cardinality(C)
            BY <2>3, <2>4, <3>1 DEF Component, ClusterSize
        <3>3. Cardinality(C) \in Nat /\ Cardinality(C) <= 4
            BY <2>4, <3>2, FS_Subset, FS_CardinalityType
        <3> QED
            BY <3>2, <3>3
    <2>7. Cohort(c)
        BY <2>3, <2>4, <2>5, <2>6 DEF Cohort
    <2> QED
        BY <2>1, <2>2, <2>7
<1>2. TablesInit => CohortInput
    <2>1. TokenTable => input.of = "token"
        BY DEF TokenTable
    <2>2. MeasureTable => input.of = "measure"
        BY DEF MeasureTable
    <2>3. MarketTable => input.of = "market"
        BY DEF MarketTable
    <2> QED
        BY <1>1, <2>1, <2>2, <2>3 DEF TablesInit, CohortInput
<1>3. CohortInput /\ [TablesNext]_input => CohortInput'
    BY DEF CohortInput, TablesNext
<1> QED
    BY <1>2, <1>3, PTL DEF TablesSpec

LEMMA MeasuresOfTables == TablesSpec => []MeasureInput
<1>1. ASSUME MeasureTable PROVE MeasureInput
    <2>1. PICK n \in 1..MaxWallets : \E v \in [1..n -> Values] : input = [of |-> "measure", v |-> v]
        BY <1>1 DEF MeasureTable
    <2>2. n \in Nat /\ Values \in SUBSET Amount
        BY TablesAssumption DEF Values, Amount, Fraction
    <2>3. PICK v \in [1..n -> Values] : input = [of |-> "measure", v |-> v]
        BY <2>1
    <2>4. v \in [1..n -> Amount] /\ input.v = v
        BY <2>2, <2>3
    <2> QED
        BY <2>2, <2>4 DEF MeasureInput
<1>2. TablesInit => MeasureInput
    <2>1. TokenTable => input.of = "token"
        BY DEF TokenTable
    <2>2. CohortTable => input.of = "cohort"
        BY DEF CohortTable
    <2>3. MarketTable => input.of = "market"
        BY DEF MarketTable
    <2> QED
        BY <1>1, <2>1, <2>2, <2>3 DEF TablesInit, MeasureInput
<1>3. MeasureInput /\ [TablesNext]_input => MeasureInput'
    BY DEF MeasureInput, TablesNext
<1> QED
    BY <1>2, <1>3, PTL DEF TablesSpec

\* Ranks are ordinal in every table of a measure.
THEOREM RanksAlwaysOrdinal == TablesSpec => []RanksAreOrdinal
<1>1. MeasureInput => RanksAreOrdinal
    <2> SUFFICES ASSUME MeasureInput, input.of = "measure" PROVE OrdinalRanks(input.v)
        BY DEF RanksAreOrdinal
    <2>1. PICK n \in Nat : input.v \in [1..n -> Amount]
        BY DEF MeasureInput
    <2>2. PICK W : W = 1..n /\ IsFiniteSet(W)
        BY <2>1, FS_Interval
    <2> QED
        BY <2>1, <2>2, RanksOfAnyCohort
<1> QED
    BY <1>1, MeasuresOfTables, PTL

\* The better wallet is listed first in every cohort of the tables.
THEOREM BetterAlwaysFirst == TablesSpec => []BetterListedFirst
<1>1. CohortInput => BetterListedFirst
    BY BetterIsFirst DEF CohortInput, BetterListedFirst
<1> QED
    BY <1>1, CohortsTyped, PTL

-----------------------------------------------------------------------------
(***************************************************************************)
(* Moves.  Buys and bars are any sequences of them; the one thing assumed  *)
(* of a bar is that its close is a price of the hour.                      *)
(***************************************************************************)

Buys == [usd : Int, amount : Int]

Hours == {bar \in [high : Int, close : Int] : bar.close <= bar.high}

\* What holds of every part in proportion holds of the sums.
LEMMA SumsKeepProportion ==
    ASSUME NEW S, IsFiniteSet(S), NEW a \in Int, NEW b \in Int, NEW f, NEW h,
           \A x \in S : f[x] \in Int /\ h[x] \in Int /\ f[x] * b <= a * h[x]
    PROVE  SumOf(f, S) * b <= a * SumOf(h, S)
<1> DEFINE Z == {s \in SUBSET S : SumOf(f, s) * b <= a * SumOf(h, s)}
<1>1. {} \in Z
    <2>1. SumOf(f, {}) = 0 /\ SumOf(h, {}) = 0
        BY FS_EmptySet, SumLaws
    <2> QED
        BY <2>1
<1>2. ASSUME NEW s \in SUBSET S, NEW x \in S \ s, s \in Z PROVE s \cup {x} \in Z
    <2>1. IsFiniteSet(s) /\ s \cup {x} \in SUBSET S /\ x \in S /\ x \notin s
        BY FS_Subset
    <2>2. PICK u \in Int, v \in Int : u = SumOf(f, s) /\ v = SumOf(h, s)
        BY <2>1, SumLaws
    <2>3. PICK p \in Int, q \in Int : p = f[x] /\ q = h[x] /\ p * b <= a * q
        BY <2>1
    <2>4. SumOf(f, s \cup {x}) = p + u /\ SumOf(h, s \cup {x}) = q + v
        BY <2>1, <2>2, <2>3, SumAdd
    <2>5. u * b <= a * v
        BY <1>2, <2>2
    <2>6. (p + u) * b = p * b + u * b /\ a * (q + v) = a * q + a * v
        OBVIOUS
    <2>7. p * b \in Int /\ u * b \in Int /\ a * q \in Int /\ a * v \in Int
        OBVIOUS
    <2>8. p * b + u * b <= a * q + a * v
        BY <2>3, <2>5, <2>7
    <2> QED
        BY <2>1, <2>4, <2>6, <2>8
<1> HIDE DEF Z
<1>3. S \in Z
    BY <1>1, <1>2, AddingUp
<1> QED
    BY <1>3 DEF Z

LEMMA SumPositive ==
    ASSUME NEW S, IsFiniteSet(S), S # {}, NEW f, \A x \in S : f[x] \in Nat \ {0}
    PROVE  SumOf(f, S) \in Nat \ {0}
<1>1. PICK x \in S : TRUE
    OBVIOUS
<1>2. IsFiniteSet(S \ {x})
    BY FS_Subset
<1>3. SumOf(f, S \ {x}) \in Nat
    BY <1>2, SumNatural
<1>4. SumOf(f, S) = f[x] + SumOf(f, S \ {x})
    BY SumLaws
<1> QED
    BY <1>3, <1>4

LEMMA PricesTyped ==
    ASSUME NEW buys \in Seq(Buys), NEW candles \in Seq(Hours)
    PROVE  /\ IsFiniteSet(Priced(buys)) /\ Priced(buys) \in SUBSET DOMAIN buys
           /\ \A i \in Priced(buys) : buys[i].usd \in Nat \ {0} /\ buys[i].amount \in Nat \ {0}
           /\ IsFiniteSet(Closes(candles)) /\ Closes(candles) \in SUBSET Int
           /\ \A i \in Closes(candles) : candles[i].close \in Nat \ {0} /\ candles[i].high \in Nat \ {0}
                                         /\ candles[i].close <= candles[i].high
                                         /\ <<candles[i].high, 1>> \in PeakPrices(buys, candles)
           /\ IsFiniteSet(PeakPrices(buys, candles)) /\ PeakPrices(buys, candles) \in SUBSET Fraction
<1>1. IsFiniteSet(DOMAIN buys) /\ \A i \in DOMAIN buys : buys[i] \in Buys
    BY FS_Interval
<1>2. IsFiniteSet(DOMAIN candles) /\ DOMAIN candles \in SUBSET Int /\ \A i \in DOMAIN candles : candles[i] \in Hours
    BY FS_Interval
<1> DEFINE P == Priced(buys)
           H == {i \in DOMAIN candles : candles[i].high > 0}
           fills == {<<buys[i].usd, buys[i].amount>> : i \in P}
           tops == {<<candles[i].high, 1>> : i \in H}
<1>3. IsFiniteSet(P) /\ IsFiniteSet(H) /\ IsFiniteSet(Closes(candles)) /\ P \in SUBSET DOMAIN buys
    BY <1>1, <1>2, FS_Subset DEF Priced, Closes
<1>4. IsFiniteSet(fills) /\ IsFiniteSet(tops)
    <2>1. [i \in P |-> <<buys[i].usd, buys[i].amount>>] \in Surjection(P, fills)
        BY DEF Surjection
    <2>2. [i \in H |-> <<candles[i].high, 1>>] \in Surjection(H, tops)
        BY DEF Surjection
    <2> HIDE DEF P, H, fills, tops
    <2> QED
        BY <1>3, <2>1, <2>2, FS_Surjection
<1>5. PeakPrices(buys, candles) = fills \cup tops
    BY DEF PeakPrices, Highs
<1>6. \A i \in P : buys[i].usd \in Nat \ {0} /\ buys[i].amount \in Nat \ {0}
    BY <1>1 DEF Priced, Buys
<1>7. \A i \in H : candles[i].high \in Nat \ {0}
    BY <1>2 DEF Hours
<1>8. \A i \in Closes(candles) : candles[i].close \in Nat \ {0} /\ candles[i].close <= candles[i].high /\ i \in H
    BY <1>2 DEF Closes, Hours
<1>9. IsFiniteSet(fills \cup tops)
    BY <1>4, FS_Union
<1>10. fills \cup tops \in SUBSET Fraction
    BY <1>6, <1>7 DEF Fraction
<1> QED
    BY <1>2, <1>3, <1>5, <1>6, <1>7, <1>8, <1>9, <1>10 DEF Closes

LEMMA PeakExists ==
    ASSUME NEW buys \in Seq(Buys), NEW candles \in Seq(Hours), PeakPrices(buys, candles) # {}
    PROVE  /\ Peak(buys, candles) \in Fraction
           /\ \A q \in PeakPrices(buys, candles) : AtMost(q, Peak(buys, candles))
<1> DEFINE S == PeakPrices(buys, candles)
           R == {e \in S \X S : AtMost(e[1], e[2])}
<1>1. IsFiniteSet(S) /\ S \in SUBSET Fraction /\ S \in SUBSET Amount
    BY PricesTyped DEF Amount
<1>2. \A x, y \in S : <<x, y>> \in R <=> AtMost(x, y)
    OBVIOUS
<1> HIDE DEF S, R
<1>3. \A x, y \in S : <<x, y>> \in R \/ <<y, x>> \in R
    BY <1>1, <1>2, AmountsCompare
<1>4. \A x, y, z \in S : <<x, y>> \in R /\ <<y, z>> \in R => <<x, z>> \in R
    BY <1>1, <1>2, AmountsTransitive
<1>5. \E x \in S : \A y \in S : <<y, x>> \in R
    BY <1>1, <1>3, <1>4, GreatestExists DEF S
<1>6. \E p \in S : \A q \in S : AtMost(q, p)
    BY <1>2, <1>5
<1>7. Peak(buys, candles) \in S /\ \A q \in S : AtMost(q, Peak(buys, candles))
    BY <1>6 DEF Peak, S
<1> QED
    BY <1>1, <1>7 DEF S

\* Of any buys and bars: what smart money paid on average is a price, and neither
\* it nor the last close is above the peak (ComputeMove).
THEOREM EveryMoveIsSane ==
    ASSUME NEW buys \in Seq(Buys), NEW candles \in Seq(Hours), ComputeMove(buys, candles) # NoMove
    PROVE  SaneMove(ComputeMove(buys, candles))
<1>1. Priced(buys) # {} /\ Closes(candles) # {}
    BY DEF ComputeMove
<1>2. ComputeMove(buys, candles) =
        [entry |-> EntryPrice(buys), peak |-> Peak(buys, candles),
         last |-> <<candles[Max(Closes(candles))].close, 1>>]
    BY DEF ComputeMove
<1>3. PICK i \in Closes(candles) : i = Max(Closes(candles))
    BY <1>1, PricesTyped, MaxExists
<1>4. PICK close \in Nat \ {0}, high \in Nat \ {0} :
        close = candles[i].close /\ close <= high /\ <<high, 1>> \in PeakPrices(buys, candles)
    BY PricesTyped
<1>5. PICK p \in Fraction : p = Peak(buys, candles) /\ \A q \in PeakPrices(buys, candles) : AtMost(q, p)
    BY <1>4, PeakExists
<1>6. PICK a \in Int, b \in Nat \ {0} : p = <<a, b>>
    BY <1>5 DEF Fraction
<1>7. AtMost(<<close, 1>>, p)
    <2>1. high * b <= a
        BY <1>4, <1>5, <1>6 DEF AtMost
    <2>2. close * b <= high * b
        BY <1>4, TimesKeeps
    <2>3. close * b \in Int /\ high * b \in Int
        OBVIOUS
    <2>4. close * b <= a
        BY <2>1, <2>2, <2>3
    <2> QED
        BY <1>6, <2>4 DEF AtMost
<1>8. PICK P : P = Priced(buys) /\ IsFiniteSet(P) /\ P # {} /\ P \in SUBSET DOMAIN buys
    BY <1>1, PricesTyped
<1>9. PICK usd, amount : usd = [j \in DOMAIN buys |-> buys[j].usd] /\ amount = [j \in DOMAIN buys |-> buys[j].amount]
    OBVIOUS
<1>10. \A j \in P : usd[j] \in Nat \ {0} /\ amount[j] \in Nat \ {0} /\ usd[j] * b <= a * amount[j]
    <2> SUFFICES ASSUME NEW j \in P
                 PROVE  usd[j] \in Nat \ {0} /\ amount[j] \in Nat \ {0} /\ usd[j] * b <= a * amount[j]
        OBVIOUS
    <2>1. usd[j] = buys[j].usd /\ amount[j] = buys[j].amount
        BY <1>8, <1>9
    <2>2. <<buys[j].usd, buys[j].amount>> \in PeakPrices(buys, candles)
        BY <1>8 DEF PeakPrices
    <2>3. AtMost(<<usd[j], amount[j]>>, p)
        BY <1>5, <2>1, <2>2
    <2> QED
        BY <1>6, <1>8, <2>1, <2>3, PricesTyped DEF AtMost
<1>11. EntryPrice(buys) = <<SumOf(usd, P), SumOf(amount, P)>>
    BY <1>8, <1>9 DEF EntryPrice, SumOf
<1>12. SumOf(usd, P) \in Nat \ {0} /\ SumOf(amount, P) \in Nat \ {0}
    BY <1>8, <1>10, SumPositive
<1>13. SumOf(usd, P) * b <= a * SumOf(amount, P)
    <2>1. b \in Int /\ \A j \in P : usd[j] \in Int /\ amount[j] \in Int /\ usd[j] * b <= a * amount[j]
        BY <1>10
    <2> QED
        BY <1>8, <2>1, SumsKeepProportion
<1>14. AtMost(EntryPrice(buys), p)
    BY <1>6, <1>11, <1>13 DEF AtMost
<1> QED
    BY <1>2, <1>3, <1>4, <1>5, <1>7, <1>11, <1>12, <1>14 DEF SaneMove

MarketInput == input.of = "market" => input.buys \in Seq(Buys) /\ input.candles \in Seq(Hours)

LEMMA MarketsTyped == TablesSpec => []MarketInput
<1>1. ASSUME NEW S, NEW T, S \in SUBSET T PROVE SeqUpTo2(S) \in SUBSET Seq(T)
    <2>1. <<>> \in Seq(T) /\ \A x \in T : <<x>> \in Seq(T)
        OBVIOUS
    <2>2. \A x, y \in T : <<x, y>> \in Seq(T)
        OBVIOUS
    <2>3. \A x \in S : <<x>> \in Seq(T)
        BY <1>1, <2>1, Zenon
    <2>4. \A x, y \in S : <<x, y>> \in Seq(T)
        BY <1>1, <2>2, Zenon
    <2>5. SUFFICES ASSUME NEW q \in SeqUpTo2(S) PROVE q \in Seq(T)
        BY Zenon
    <2>6. q = <<>> \/ (\E x \in S : q = <<x>>) \/ (\E x, y \in S : q = <<x, y>>)
        <3>1. q \in {<<>>} \/ q \in {<<x>> : x \in S} \/ q \in {<<x, y>> : x, y \in S}
            BY <2>5 DEF SeqUpTo2
        <3>2. q \in {<<x, y>> : x, y \in S} => \E x, y \in S : q = <<x, y>>
            OBVIOUS
        <3>3. q \in {<<x>> : x \in S} => \E x \in S : q = <<x>>
            OBVIOUS
        <3> QED
            BY <3>1, <3>2, <3>3
    <2> QED
        BY <2>1, <2>3, <2>4, <2>6, Zenon
<1>2. ASSUME MarketTable PROVE MarketInput
    <2>1. [usd : 0..2, amount : 0..2] \in SUBSET Buys
        BY DEF Buys
    <2>2. Bars \in SUBSET Hours
        BY DEF Bars, Hours, Null
    <2>3. SeqUpTo2([usd : 0..2, amount : 0..2]) \in SUBSET Seq(Buys) /\ SeqUpTo2(Bars) \in SUBSET Seq(Hours)
        BY <1>1, <2>1, <2>2
    <2>4. PICK buys \in Seq(Buys), candles \in Seq(Hours) :
            input = [of |-> "market", buys |-> buys, candles |-> candles]
        BY <1>2, <2>3 DEF MarketTable
    <2> QED
        BY <2>4 DEF MarketInput
<1>3. TablesInit => MarketInput
    <2>1. TokenTable => input.of = "token"
        BY DEF TokenTable
    <2>2. MeasureTable => input.of = "measure"
        BY DEF MeasureTable
    <2>3. CohortTable => input.of = "cohort"
        BY DEF CohortTable
    <2> QED
        BY <1>2, <2>1, <2>2, <2>3 DEF TablesInit, MarketInput
<1>4. MarketInput /\ [TablesNext]_input => MarketInput'
    BY DEF MarketInput, TablesNext
<1> QED
    BY <1>3, <1>4, PTL DEF TablesSpec

\* Every move of the tables makes sense.
THEOREM MovesAlwaysSane == TablesSpec => []MoveIsSane
<1>1. MarketInput => MoveIsSane
    BY EveryMoveIsSane DEF MarketInput, MoveIsSane
<1> QED
    BY <1>1, MarketsTyped, PTL
=============================================================================
