-------------------------------- MODULE Report --------------------------------
(***************************************************************************)
(* What a reader sees of a token: its row in the terminal's table          *)
(* (cmd/scorecard/table.go) and in the HTML report (report.go), which      *)
(* repeat each other's rules.  A token has the verdict and the numbers of  *)
(* pipeline.TokenReport; flows and N -> M are kept as numbers, colours and *)
(* CSS classes as tones.  A cell that reads as a dash is Dash.             *)
(***************************************************************************)
EXTENDS Verdict, Sequences

Dash == <<>>

\* EXIT_ONLY is shown as what fired.
verdictLabel(v) == IF v = "EXIT_ONLY" THEN "DISTRIBUTING" ELSE v

verdictColor(v) ==
    CASE v \in {"BOTH", "DISTRIBUTING", "EXIT_ONLY"} -> "red"
      [] v = "THIN" -> "yellow"
      [] v = "CONFIRMED" -> "green"
      [] OTHER -> "gray"

\* Mutant: the numbers are shown whatever the verdict.
IndependenceAlways(tr) == IF tr.covered < tr.n THEN <<tr.n, tr.m, tr.covered>> ELSE <<tr.n, tr.m>>

\* N -> M, with the number of buyers checked if that is not all of them.
independenceLabel(tr) ==
    IF tr.verdict = "EXIT_ONLY" THEN Dash
    ELSE IF tr.covered < tr.n THEN <<tr.n, tr.m, tr.covered>> ELSE <<tr.n, tr.m>>

exchFlowCell(tr) ==
    IF ~tr.flowAvailable \/ ~tr.exchangeObserved THEN Dash ELSE <<tr.exchange>>

\* Only a WEAK token has no row; it is counted in a line below the table.
TableRows(tr) ==
    IF tr.verdict = "WEAK" THEN {}
    ELSE {[badge |-> verdictLabel(tr.verdict), tone |-> verdictColor(tr.verdict),
           independence |-> independenceLabel(tr), exchange |-> exchFlowCell(tr)]}

-----------------------------------------------------------------------------
(* The report has copies of its own of the table's rules.                  *)

verdictLabelHTML(v) == IF v = "EXIT_ONLY" THEN "DISTRIBUTING" ELSE v

verdictClass(v) ==
    CASE v \in {"BOTH", "DISTRIBUTING", "EXIT_ONLY"} -> "red"
      [] v = "THIN" -> "yellow"
      [] v = "CONFIRMED" -> "green"
      [] OTHER -> "gray"

independenceLabelHTML(tr) ==
    IF tr.verdict = "EXIT_ONLY" THEN Dash
    ELSE IF tr.covered < tr.n THEN <<tr.n, tr.m, tr.covered>> ELSE <<tr.n, tr.m>>

\* Why a token has no exchange inflow, which the table leaves to its dash.
FlowNote(tr) ==
    CASE ~tr.flowAvailable                        -> "no flow row"
      [] tr.flowAvailable /\ ~tr.exchangeObserved -> "no exchange side"
      [] OTHER                                    -> "none"

\* The exchange cell is emptied together with the note.
ReportRows(tr) ==
    IF tr.verdict = "WEAK" THEN {}
    ELSE {[badge |-> verdictLabelHTML(tr.verdict), tone |-> verdictClass(tr.verdict),
           independence |-> independenceLabelHTML(tr),
           exchange |-> IF FlowNote(tr) = "none" THEN <<tr.exchange>> ELSE Dash]}

-----------------------------------------------------------------------------
(* What the rows of a token may and may not say.                           *)

\* t as Run reports it; flowAvailable says whether there was a flow row.
Reported(t, flowAvailable) ==
    [verdict |-> Label(t), n |-> t.n, m |-> t.m, covered |-> t.covered, exchange |-> t.exchange,
     flowAvailable |-> flowAvailable, exchangeObserved |-> t.exitCheckable]

Shown(tr) == {TableRows(tr), ReportRows(tr)}

\* A row that reads as "no two buyers share a funder".
ReadsAsCleared(row) == row.badge \in Cleared /\ row.independence # Dash

\* The exit signal is in every rendering: a row, with the inflow in it, and red
\* unless some buyer is unchecked.
ExitIsOnThePage(t, tr) ==
    ExitSignal(t) => \A rows \in Shown(tr) : \E row \in rows :
        /\ row.exchange = <<t.exchange>>
        /\ row.tone = "red" \/ (row.badge = "UNVERIFIED" /\ Len(row.independence) = 3)

\* An observed collapse is in every rendering, with its numbers.
LinkIsOnThePage(t, tr) ==
    t.n >= 3 /\ t.m < t.n => \A rows \in Shown(tr) : \E row \in rows :
        row.badge \in Collapse /\ SubSeq(row.independence, 1, 2) = <<t.n, t.m>>

\* EXIT_ONLY borrows the badge of a token whose buyers are independent: a row
\* may read as cleared only where the clean label was earned.
ReadsClearedOnlyIfEarned(t, tr) ==
    \A rows \in Shown(tr) : \A row \in rows :
        ReadsAsCleared(row) => t.n >= 3 /\ t.m = t.n /\ t.covered = t.n /\ t.bought >= t.floor

\* "A zero exchange flow is not a clean exit check": an inflow is shown only if
\* there was an exchange side to observe.
InflowOnlyIfObserved(t, tr) ==
    \A rows \in Shown(tr) : \A row \in rows : row.exchange # Dash => t.exitCheckable
=============================================================================
