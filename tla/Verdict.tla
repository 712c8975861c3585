------------------------------- MODULE Verdict -------------------------------
(***************************************************************************)
(* From a token's numbers to its label: score.Distributing and             *)
(* DecideVerdict (internal/score/verdict.go), decideWithFloor and          *)
(* verdictSeverity (internal/pipeline/pipeline.go).  Dollar amounts are    *)
(* integers: only their signs and the comparison with the floor matter.    *)
(***************************************************************************)
EXTENDS Integers

Verdicts == {"THIN", "CONCENTRATED", "CONFIRMED", "DISTRIBUTING", "BOTH",
             "WEAK", "UNVERIFIED", "EXIT_ONLY", "INDEPENDENT"}

\* "No two buyers share a funder", "some do", and neither.
Cleared  == {"CONFIRMED", "INDEPENDENT", "DISTRIBUTING"}
Collapse == {"THIN", "CONCENTRATED", "BOTH"}

\* Mutant: a missing flow is read as its zero value being non-negative.
DistributingOnZero(smart, exchange, hasFlow) == smart >= 0 /\ exchange >= 0

Distributing(smart, exchange, hasFlow) == hasFlow /\ smart > 0 /\ exchange > 0

\* Mutant: coverage is not asked for.
DecideVerdictUncovered(n, m, covered, smart, exchange, hasFlow) ==
    LET dist == Distributing(smart, exchange, hasFlow) IN
    CASE n < 3           -> IF dist THEN "EXIT_ONLY" ELSE "WEAK"
      [] n >= 3 /\ m = 1 -> IF dist THEN "BOTH" ELSE "THIN"
      [] n >= 3 /\ 1 # m /\ m < n -> IF dist THEN "BOTH" ELSE "CONCENTRATED"
      [] OTHER -> IF dist THEN "DISTRIBUTING" ELSE IF hasFlow THEN "CONFIRMED" ELSE "INDEPENDENT"

DecideVerdict(n, m, covered, smart, exchange, hasFlow) ==
    LET dist == Distributing(smart, exchange, hasFlow) IN
    CASE n < 3                       -> IF dist THEN "EXIT_ONLY" ELSE "WEAK"
      [] n >= 3 /\ m = 1             -> IF dist THEN "BOTH" ELSE "THIN"
      [] n >= 3 /\ m # 1 /\ m < n    -> IF dist THEN "BOTH" ELSE "CONCENTRATED"
      [] n >= 3 /\ m # 1 /\ m >= n /\ covered < n -> "UNVERIFIED"
      [] OTHER -> IF dist THEN "DISTRIBUTING" ELSE IF hasFlow THEN "CONFIRMED" ELSE "INDEPENDENT"

\* Mutant: the first version, which withheld every verdict below the floor.
WithheldAll(v) == TRUE

\* Below the floor only the verdicts that rest on an observed link stand.
Withheld(v) == v \notin Collapse

decideWithFloor(n, m, covered, smart, exchange, exitCheckable, bought, floor) ==
    LET v == DecideVerdict(n, m, covered, smart, exchange, exitCheckable) IN
    IF bought < floor /\ Withheld(v)
    THEN DecideVerdict(0, m, covered, smart, exchange, exitCheckable)
    ELSE v

\* Mutant: an exit signal without a verdict ranks with the weak rows.
verdictSeverityExitLast(v) ==
    CASE v = "BOTH" -> 0 [] v = "THIN" -> 1 [] v = "CONCENTRATED" -> 2 [] v = "DISTRIBUTING" -> 3
      [] v = "CONFIRMED" -> 4 [] v = "INDEPENDENT" -> 5 [] v = "UNVERIFIED" -> 6 [] OTHER -> 7

verdictSeverity(v) ==
    CASE v = "BOTH"         -> 0
      [] v = "THIN"         -> 1
      [] v = "CONCENTRATED" -> 2
      [] v \in {"DISTRIBUTING", "EXIT_ONLY"} -> 3
      [] v = "CONFIRMED"    -> 4
      [] v = "INDEPENDENT"  -> 5
      [] v = "UNVERIFIED"   -> 6
      [] OTHER              -> 7

-----------------------------------------------------------------------------
(* Inputs and what the label may and may not say about them.  A token has  *)
(* n buyers in m groups, covered of them with funder data; exitCheckable   *)
(* says whether an exchange side was observed.                             *)

TokenInputs(maxBuyers, dollars) ==
    {t \in [n : 0..maxBuyers, m : 0..maxBuyers, covered : 0..maxBuyers, smart : dollars,
            exchange : dollars, exitCheckable : BOOLEAN, bought : dollars, floor : dollars] :
        /\ t.m <= t.n /\ t.covered <= t.n
        /\ t.m = 0 <=> t.n = 0}

Label(t) == decideWithFloor(t.n, t.m, t.covered, t.smart, t.exchange, t.exitCheckable, t.bought, t.floor)

ExitSignal(t) == t.exitCheckable /\ t.smart > 0 /\ t.exchange > 0

\* DESIGN: "Any token whose exit signal fires belongs in the main table": it is
\* never WEAK, whatever the buyer count and the signal floor.  Its label either
\* names the signal and ranks above every row without one or a shared funder,
\* or is UNVERIFIED.
ExitSignalNeverHidden(t) ==
    ExitSignal(t) =>
        /\ Label(t) \in {"BOTH", "DISTRIBUTING", "EXIT_ONLY", "UNVERIFIED"}
        /\ Label(t) # "UNVERIFIED" => verdictSeverity(Label(t)) < verdictSeverity("CONFIRMED")

\* "A shared funder that was actually observed stays true however little was
\* bought", and whatever else is missing.
ObservedLinkStands(t) == t.n >= 3 /\ t.m < t.n => Label(t) \in Collapse

\* u is t with less known about it: coverage lost, or the exit check.
LessKnown(t, u) ==
    /\ <<u.n, u.m, u.bought, u.floor, u.smart, u.exchange>> = <<t.n, t.m, t.bought, t.floor, t.smart, t.exchange>>
    /\ u.covered <= t.covered
    /\ u.exitCheckable => t.exitCheckable

\* "Absent data must not manufacture independence", nor an exit: losing data
\* never turns a label into one that claims what the full data did not.
AbsentDataClaimsNothing(t, u) ==
    LessKnown(t, u) =>
        /\ Label(u) \in Cleared => Label(t) \in Cleared
        /\ Label(u) = "CONFIRMED" => Label(t) = "CONFIRMED"
        /\ Label(u) \in {"BOTH", "DISTRIBUTING", "EXIT_ONLY"} => ExitSignal(t)

\* A clean label was earned on every count the README lists.
ClearedIsEarned(t) ==
    Label(t) \in Cleared => t.n >= 3 /\ t.m = t.n /\ t.covered = t.n /\ t.bought >= t.floor
=============================================================================
