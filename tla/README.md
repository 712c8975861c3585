# A TLA+ model of smart-money-falsifier

The program fetches what Nansen knows about the tokens that "smart money" has
bought, and asks of each token whether its buyers are independent of each other
and whether insiders are selling into them.  Everything it fetches costs
credits, so it carries a budget guard, a disk cache and a call log; everything
it fetches may fail, so its verdicts must say no more than the data that
arrived.  Those are the two halves of this development: *spending* (`Client`,
`FanOut`, `RateLimiter`, `CallPlan`, `DiskCache`) and *judging* (`Cluster`,
`Census`, `Verdict`, `Pipeline`, `Ranking`, `Move`, `Report`).

## 1. Inventory

| component (source) | state | operations | correct when |
|---|---|---|---|
| API client (`internal/nansen/client.go`) | `creditsRemaining` under a mutex, shared by all workers; the reservation and retry counter of each call | `Do` = cache, refusals, `reserveCredits`, `doHTTP` with retries, receipt, decode, `Put`, release | the floor holds, a call is paid once, a paid response is kept and on the log, `Do` returns |
| rate limiter (`ratelimit.go`) | two token buckets: tokens, last refill | `Wait` on the second's bucket, then on the minute's | no window sees more requests than the buckets allow, nobody sleeps on a token |
| disk cache (`cache.go`) | one file per key, one temporary file per key, shared by all processes on the directory | `Key`, `Has`, `Get`, `Put` (temporary file, rename) | a key is absent or whole, in every run |
| call log (`calllog.go`) | an append-only file | `Append` | reconciles with the account |
| worker pool (`pipeline.go` `runPool`) | semaphore, wait group, position in the item list | serial while the balance is unknown, then one goroutine per item | every item once, at most Concurrency together, none left when it returns |
| pipeline (`pipeline.go` `Run`) | the universe, one record per wallet and per token, failures | seed, cut, pnl / related-wallets / token pools, judgement, moves | a verdict rests on data that arrived |
| cluster collapse (`score/cluster.go`) | union-find forest, funder owners | union, find, grouping, explanation | the groups are the connected components, each collapse is explained |
| verdict rules (`score/verdict.go`, `decideWithFloor`, `verdictSeverity`) | none | pure functions | absent data claims nothing, an observed link or exit is never hidden |
| call plan (`plan.go`) | none | counts calls and cache hits | a ceiling on what the run goes on to spend, exact but for prices |
| seed import (`seed_import.go`) | the cache | `Has`, then `Put` | the seed is not paid for twice |
| funder census (`cluster.go`, `table.go`) | none | counts wallets per funder, sums them for the headline | agrees with the groups, counts wallets |
| wallet ranking (`score/score.go`) | none | rank normalization of four measures, two penalties, the order of the list | ranks are ordinal, a better wallet is listed first |
| price moves (`score/move.go`) | none | entry price, peak, last price | no move without data, none below its entry |
| command line (`cmd/scorecard/main.go`) | flags, signal context | plan, confirm, run, render | - |
| report and table (`cmd/scorecard/report.go`, `table.go`) | none | a row per token, twice | a row claims what the verdict does |
| JSON types, scripts | none | shapes, recording | - |

How they interact.  `main` builds one client over one cache, log and limiter,
and hands it to the pipeline.  The pipeline runs its stages in order; inside a
stage `runPool` starts up to Concurrency goroutines, each of which calls
`Client.Do` and writes what came back into its wallet's or token's record under
that record's lock.  The workers share the client's balance (a mutex), the
limiter's buckets (a mutex each), the cache directory and the log.  The server
charges the account and reports what is left in a header, which each worker
writes over the shared balance.  An interrupt cancels a context that every
wait, request and pool looks at, at its own time.  A restarted program finds
the cache, temporary files, the log and the account, and nothing else.  Two
programs on one directory share a key's temporary name.

What is hard here: deductions for calls in flight against balances from calls
that ended in another order; requests that are charged and never answered;
the program dying between the charge, the receipt and the file; a pool that
must not fan out before it knows a balance; a pool that is interrupted and a
judgement that does not ask whether it was; failures and cuts that must not
read as independence; a temporary file that two writers open and one renames;
rules that are written down twice (plan and run, table and report, census and
groups).

## 2. Modules

| module | models | state and actions in the code |
|---|---|---|
| `Client` | `Do`, `reserveCredits`, `doHTTP`, `logAttempt`, release; the process dying and starting again | `pc[w]` is where a goroutine is inside `Do`: `guard` (before `reserveCredits`), `attempt` (back-off, limiter), `wire`, `reply` (before the status is looked at), `complete` / `failed` (after `doHTTP`), `store`.  One action per stretch between two points where another goroutine can see or change shared state |
| (environment in `Client`) | the server's account | `Charge`, `Reject`, `NetFail` |
| `FanOut` (extends `Client`) | `runPool` and its items' calls | `RunSerially` and `LeaveSerial` are the loop in front, `Dispatch` and `StopDispatch` the select, `WaitDone` the `wg.Wait` |
| `ForEach` | abstract: what `runPool` promises | items waiting and running, stop, return |
| `RateLimiter` | both buckets, with sleeping, late timers and giving up; `granted` and `before` remember how many requests were let through, and how many before each tick | `Take`, `Sleep`, `GiveUp` are the three ways through one turn of `tokenBucket.Wait`'s loop |
| `Cluster` | `score.Cluster` | `Union` is one `union`, both path compressions included; `Explain` one group's explanation.  The map's random order is the choice among `pending` |
| `Partition` | abstract: merging groups without a data structure | |
| `FunderGraph` | abstract: the funding relation and its components | |
| `Verdict` | `Distributing`, `DecideVerdict`, `decideWithFloor`, `verdictSeverity` | operators of the same names |
| `Pipeline` (extends `Verdict`, `FunderGraph`) | `Run`: universe cut, related-wallets pool, token pool, judgement | one action per item that returns or fails, and per pool that returns |
| `CallPlan` | `main` from the seed import over `Plan` and the confirmation to the pools of `Run`, several runs over one cache | `PlannedCalls` is `Plan`'s walk of the universe, `AskedCalls` is `Run`'s; `Answered` and `Failed` are one call, `StageDone` one pool that returns |
| `DiskCache` | `Cache.Put` on a directory that processes share | `put[<<p, k>>]` is where process p's Put of key k is: it found nothing (`Look`), opened the temporary file (`Open`), wrote it (`Write`, `WriteFails`), renamed it (`Rename`, `RenameFails`); `Kill` ends a process in the middle.  A file is apart from the names that lead to it, since an open handle keeps it |
| `Census` (extends `Cluster`) | `ComputeFunderCensus` and the sums of `censusHeadline` | operators on the funders that `Cluster` groups |
| `Ranking` (extends `FunderGraph`) | `ScoreWallets` and what it calls | operators of the same names; exact fractions, the order a sort leaves ties in as a set of outcomes (`RankOutcomes`), of which `rankNormalize` takes one: they do not differ (`RanksOfAnyCohort`) |
| `Move` | `EntryPrice`, `ComputeMove` | operators of the same names |
| `Report` (extends `Verdict`) | a token's row in `printTable` and in `writeReport` | `TableRows`, `ReportRows`: none or one |
| `MCClient`, `MCFanOut`, `MCPipeline`, `MCRateLimiter` | instances for TLC | constants, symmetry; the tier that the limiter's rates are to keep |
| `MCScore` | the rules without state (`Report`, `Ranking`, `Move`), as tables | `input`: one state for each input |
| `MCPeriphery` (extends `CallPlan`, `DiskCache`, `RateLimiter`) | the three parts around the client, one in each behaviour | they share no state, so a behaviour of all three is one of each |
| `MCGroups` (extends `MCScore`, `Census`) | package `score` whole: the grouping beside the tables | |
| `SetProofs` | theorems | finite sets, sums, places in an order; the groups that funding links make |
| `ClientProofs` | theorems | `Client`: types, what is paid and kept, the floor; then `FanOut`, which runs `Client` |
| `CallPlanProofs`, `RateLimiterProofs`, `DiskCacheProofs`, `PipelineProofs` | theorems | the component of that name |
| `ClusterProofs` | theorems | `Cluster`, and `Census` beside it |
| `ScoreProofs` | theorems | `Verdict`, `Report`, `Ranking`, `Move`: for all inputs, then for the tables of `MCScore` |

How they compose.  `FanOut` holds all of `Client`, so `ForEach` and the balance
guard are checked with every interleaving inside `Do`.  `Pipeline` uses pools
through what `ForEach` promises and clusters through the components that
`Cluster` computes: that is what the two refinements are for.  `Client` keeps
the cache as a set of keys, which is what `DiskCache` says of a directory that
one program uses at a time.  `Census` reads the state of `Cluster`, so the two
are compared on the same wallets; `Report` takes its labels from `Verdict`.

What the models leave out, and what they assume:

- In `Client` and `CallPlan` a cached file is whole or absent (`Put` is one step)
  and decodes; keys do not collide; no other process uses the account, the cache
  or the log.  `DiskCache` drops all of that but the keys.
- `DiskCache` loses nothing that was written when a process dies; a power loss,
  after which a renamed file may be empty (`Put` does not sync), is left out.
  A body is known by its length: equal bytes are equal lengths there.
- Back-off and limiter waits in `Client` are waits that end, or are cancelled;
  how long they take is `RateLimiter`'s subject.
- `--credits-remaining`, when given, is the true balance.  `--credit-floor` is
  not negative.
- A charge by the server, and the answer to it, are one step: no two workers are
  charged between.  The answer is then read, and its header taken over, at any
  later time.
- No call is asked for by two workers at a time: a stage makes one call per
  item and items have distinct keys.  (A call is asked for again only by a
  second run.)
- A 200 without a numeric balance header and one without the header are the
  same; so are error statuses the client treats alike (408 and other 4xx,
  500-599).
- `Pipeline` writes a wallet's answer in the step in which the call returns, as
  the code does under the wallet's lock; the stages that feed no verdict
  (pnl-summary, token-information, prices) are left out.  A wallet that spent
  0 on a token did not buy it.  Items an interrupted pool leaves out are any
  subset of those not returned; the code leaves out a tail of the list.  Nansen
  may list a wallet as its own first funder; the components ignore that, as the
  code's union does.
- `Ranking` and `Move` compute in exact fractions.  Floating point would add
  rounding, and with it ties that are broken by the order in which a map is
  walked.
- `Report` keeps what a row claims: its badge and tone, N -> M, and the exchange
  cell.  Labels, symbols, links and layout are left out.
- `CallPlan` answers, charges and stores a call in one step (`Pay`), or fails it
  unpaid.  In the code a call may be charged and fail, or be charged again by a
  retry (`Client`, `PaidPerAttempt`), and more is then paid than the plan says:
  `PlanIsCeiling` and `PlanIsExact` are about which calls are asked for, each
  paid once.  Flows, names and funders are in it only
  as the set of tokens with a verdict, which on complete data is fixed by the
  seed and on less may be any.

## 3. Runs

Passing runs.

| run | bounds | shows |
|---|---|---|
| `Client_serial` | 1 worker, a seed of 5 credits and 3 calls, account 8, floor 1, 1 retry; every fault but a lost or a cut response (an interrupt adds those) | the types; `WireKeepsFloor`: a reserved call leaves the account at the floor or above; `EstimateMatchesAccount`: between calls the client's balance is the account's; `PaidIsKeptOrReported`: a paid response is on disk or its caller got the error |
| `Client_races` | 2 workers, 6 calls, 3 credits above the floor | `OvershootBounded`: racing headers can re-open the gate, and the floor is missed by n(n+1)/2 - 1 credits at most |
| `Client_runs` | 2 workers, 3 calls and an expensive one that is refused, live and offline, 2 runs, server errors and missing balance headers, an interrupt (which adds network errors, lost and cut responses) or a kill at any point | `PaidOncePerRun`, `ReceiptsReconcile`, `StoredHasReceipt`, `RespendBounded` (a stopped run costs again at most one call per worker), `CachedNeverCharged` (across runs) |
| `FanOut_pool` | 3 items, 2 slots, 1 retry, server errors and charged responses that are cut off, interrupts | `ImplementsForEach`, `OneBlindInFlight`, `BlindSpendsOnce`; `PaidPerAttempt`: with cut responses a call is paid once per attempt at most; under fairness `PoolReturns`, and so every `Do` in the pool |
| `Periphery` | plan: 2 wallets that spent the same, one of them on 2 chains, cut to 1; 3 tokens of which one was only sold; 3 runs with or without a fixture, failing, interrupted or killed anywhere.  Cache: 2 processes, the seed with one body and a call with two, 6 files (2 names for each of 2 keys, and 2 handles), file systems that fail at every call, and kills.  Limiter: 2 workers, 2 a second, 4 a minute of 3 seconds, 5 half-second ticks | `PlanIsCeiling` and `PlanIsExact` of plans made from a cached seed, `RerunIsFree` after a run that went through; `WholeUnlessContended`, `EndedPutsSettle`; `WindowBounded`, `SleepersMissNothing` |
| `Groups_tables` | grouping: 3 buyers, 2 outsiders (numbered after them: the headline's list breaks ties by address), up to 2 funders each, self-funding included: 4096 fundings, every walk order.  Tables: every token of up to 4 buyers, every sign, every pair with less known; every order of 4 values, minus infinity among them, over up to 4 wallets; cohorts of 4 wallets that differ in all six measures; up to 2 buys and 2 bars | `GroupsAreComponents`, `Forest`, `ExplainedUnlessSelfFunded`, `ImplementsPartition`; `CensusAgreesWithGroups`: wallets counted for one funder are in one group, and the collapse is accounted for; `HeadlineCountsWallets`; `ExitShown`, `LinkShown`, `AbsenceSilent`, `CleanEarned`: of the label, the table's row and the report's; `RanksAreOrdinal`, `BetterListedFirst`, `MoveIsSane` |
| `Pipeline_verdicts` | 4 buyers of which two spent more, one on 2 chains with answers of their own, wallets that list each other and themselves, `--max-wallets 3` with a tie at the cut, a flow row that fires the exit signal, one that does not, one that cannot, or none, failures and interrupts | `CoveredIsComplete`, `CompleteRunIsExact`, `UninterruptedClearedAreIndependent`, `AccusationsAreTrue`, `ExitVerdictsAreTrue` |

Why the bounds are enough.  Two workers are the fewest that race, and every race
in `Client` is between one worker's read or write of the balance and another's;
`Client_races` gives them enough calls and few enough credits for both to
overshoot, and its bound is attained (a bound one lower is violated); that it
holds of any number of workers is proved. One retry separates first, repeated
and last attempts.  Two runs are enough for a crash and a resume, since nothing
but the cache, the log and the account survives.  Three items and two slots make
the third wait for a slot, or be left out by an interrupt.  Three buyers form
every funding shape up to a chain of three links and reach the verdict rules' N
>= 3; four let a group of two be cut to one, and leave three to be judged.  Two
Puts are what a temporary file can be shared by, and two bodies, the second
longer, are what one can leave behind the other.  Four wallets leave room for a
tie between two that differ from two.  `RateLimiter`'s window bound is attained
at these rates (one worker less in the bound is violated).  Symmetry is used in
runs without liveness, over workers and over calls of equal cost, and over the
wallets that are alike.  `CallPlan` needs three runs: one that stores part of
what is asked, one that completes it, one that is free.

Violations.  Each checks one statement of a document or comment that the code
does not keep.

- `Pipeline_interrupted`, `ClearedAreIndependent`: an interrupted run still
  judges.  `relatedOK` starts true and only a failed call clears it, so wallets
  that were never looked up count as covered and a token is cleared on them.
- `Client_floor_race`, `WireKeepsFloor`, in a pool of two workers with no faults,
  4 credits, a floor of 2 and a balance known from the start.  The first call is
  reserved and charged; the second is reserved; the first one's header puts the
  client's balance back to 3, the deduction for the second gone; the third call is
  reserved on it.  Both are on the wire within the guard, and the later one is
  charged below the floor.  `OvershootBounded` says by how much this can fail.
- `Client_undecodable`, `EveryResponseKept`: README.md:68 has every response
  written "before anything parses it", and `Do` unmarshals before it calls `Put`.
  A paid 200 that does not decode is not on disk, and the next run pays again.
  What is kept is `PaidIsKeptOrReported`: the caller gets the error.
- `RateLimiter_tier`, `UnderTier`, at the default 12 a second and 250 a minute: the
  buckets start full, hold a whole window's limit and refill while they are
  drained, so sixteen requests fit in half a second where the Free tier allows
  fifteen in one.  `WindowBounded` is the bound that is kept: a full bucket and
  what the window's time brings, about twice the rate in a window of its own size
  (24 in a second, 500 in a minute).
- `Cluster_own_funder`, `EveryCollapseExplained`: ViaBuyer is to be another buyer
  that funded a member.  The explanation's loop (cluster.go:193) lacks the `j != i`
  of the union's (cluster.go:128), so a buyer listed as its own first funder beside
  the buyer that funded it is named, though it funded nobody else.  Where no member
  lists itself the explanation is right (`ExplainedUnlessSelfFunded`).

One more disagreement shows in a passing run: `CompleteRunIsExact` compares
verdicts with the whole data about the buyers that `--max-wallets` left.  The
comment of `FunderChecked` (cluster.go:31-34) counts wallets outside the cut as
unchecked, which would make their tokens UNVERIFIED; the code drops them from the
token's buyers before it counts.  So a token may be cleared that shares a funder
with a buyer that was cut.

The passing runs' premises are as telling.  With the fault `cut` (the body of a
charged 200 cannot be read) a retry sends the request again and pays again
(`PaidOncePerRun` fails), the log has one line for both (`ReceiptsReconcile`
fails), and when the retries are used up the released reservation refunds
credits that are spent (`EstimateMatchesAccount` fails).  `PaidPerAttempt` is
what holds then.  With `noheader` in the pool, the client stays blind and
serial, and every item is charged unguarded (`BlindSpendsOnce` fails).  A token
below the signal floor with a firing exit signal is labelled EXIT_ONLY, where
DESIGN says DISTRIBUTING.  THIN says that the buyers form one group, which
chains of different funders can do as well as a common one.  Without a cached
seed the plan is one line of five credits, and `PlanIsCeiling` says nothing of
the run that is confirmed on it.  The README's "a cache miss is a hard error" of
`--offline` is a partial failure in the code: the run goes on and judges
without.

Of the cache: once two Puts had a key's temporary file open together, a torn file
may be published and stays, for `Has` and `Get` look at its name only and `Do`
fails to decode it in every run from then on; and a Put whose rename comes second
reports an error for a response that is on disk.  `EndedPutsSettle` says what is
left: the key is there, and whole if both wrote the same bytes, as two imports of
one fixture do.

Of the page: the headline counts a wallet once for each shared funder it names,
so "N of M wallets" is the number of wallets only when none names two
(`HeadlineCountsWallets` has that as its premise).  A wallet whose pnl-summary
failed is ranked as one that made nothing, above those that lost.  The smart-flow
column shows +$0 for a token about which no flow arrived; the exchange column
shows a dash.

## 4. Fairness

Only `FanOut_pool` assumes any.  A goroutine that can go on does
(`WF(InDo(w))`, `Ask`, `FinishItem`, and the pool's own steps): Go's scheduler
is preemptive and no goroutine here holds a lock across a wait.  A request on
the wire ends (`WF(OnWire(w))`): the HTTP client's 30 s timeout ends it if
nothing else does.  Nothing is assumed of the interrupt, or of which answer a
request gets.  `PoolReturns` is therefore about the code's own
loops: the retry loop, the slots, the serial start and the final wait.

## 5. Proofs

Every safety property of the passing runs, and both refinements, are theorems
for any constants that satisfy the modules' `ASSUME`s.  Those say that workers,
calls, keys, files, buyers and outsiders are finite in number
(`SlotsAssumption`, `BuyersAssumption`, `OrderAssumption`, `CacheAssumption`),
that addresses, numbered in their order, are naturals, that rates and clocks are
positive (`RatesAssumption`), that costs and the floor are not negative
(`ConstantsAssumption`), and what shape a seed or a universe has
(`SeedAssumption`, `UniverseAssumption`, `PlanAssumption`, `TablesAssumption`).
A bound in a guard (`MaxRuns`, `Horizon`) is a constant like the others, so
nothing depends on its value.

Where a property needs more, the theorem names it as a hypothesis, which is what
the run's own constants satisfy:

| hypothesis | says | of |
|---|---|---|
| `WholeResponses` | a charged response arrives whole (no `lost`, no `cut`), as long as nobody interrupts | `RunPaysOnce`, `OneWorkerKeepsFloor`, `OneWorkerKnowsBalance`, `RunReconciles` |
| `NothingLost` | and it decodes, and the disk takes it | `RunsRespendLittle` |
| `UnitCosts`, `HeadersRead` | an ordinary call costs a credit; a 200 is read, with its header | `RacersOvershootLittle` |
| `HeadersArrive` | no response is lost or lacks its header | `BlindSpendIsOneCall` |
| `Workers = {w}` | one worker | `OneWorkerKeepsFloor`, `OneWorkerKnowsBalance` |

*SetProofs.*  Induction over numbers and over finite sets is stated with sets
instead of predicates (`CountingUp`, `AddingUp`: a set of subsets that has {} and
is closed under adding one element has all of them), which the provers can
instantiate.  From it: a fold of + over a set has the laws of a sum, whatever
order it picks elements in (`SumLaws`, `SumAtMost`, `SumChange`, `UnionCounts`);
in a strict order of a finite set each element has a place of its own
(`OrderPlaces`), so the set can be listed and has a greatest element.  And
`UnknownFundersSplit`: taking funders away never makes fewer groups, for fewer
links connect fewer buyers, so a component of the rest lies inside one of the
whole, and distinct wholes contain distinct parts.

*ClientProofs.*  All rests on `TypeOK` and `Exclusive`: two workers inside `Do`
have different calls, and a worker inside `Do` has a call that is not on disk and
has no outcome yet.  Without it a worker could be charged for what another has
just stored.

- `NothingCachedIsCharged` is the action property that follows.
- `RunPaysOnce`: charges stay below `runs` while the call may still be sent in
  this run.  An interrupt makes `lost` and `cut` possible, but no retry sends
  after it.
- `RunPaysPerAttempt`, with no assumption: what a call was charged in earlier runs
  and in the attempts tried (`Attempted`).  A worker on the wire has its present
  attempt still uncharged; one that holds a response may have paid for it.
- `OneWorkerKeepsFloor` and `OneWorkerKnowsBalance`: a ledger.  What the client
  believes, plus what the worker has reserved and not been charged for, is what
  the account holds.
- `StoredIsReceipted`, `RunReconciles`, `NoSilentLoss`: where each worker
  stands between charge, receipt and file (`Logged`, `Receipted`, `Reported`).  The
  last assumes no fault away.
- `RunsRespendLittle`: two counts (`RespendInv`).  What was paid again together
  with what this run may yet pay again, which only a new run raises; and what was
  paid again together with all that is paid for and not on disk, which exceeds the
  bound by the responses in the workers' hands alone.  An interrupt turns the
  one into the other.
- `RacersOvershootLittle`: a triangle of charges (`OvershootInv`).  Once the
  account is at the floor, no new header opens the gate; a worker that holds an
  older one above the floor can open it once.  With f workers that hold none,
  those can be charged once each, then f + 1 can, and so on up to all n.  The
  invariant was found by running TLC on candidates; the bound is attained.
- `PoolRunsClient`: `FanOut` implements `Client`, so all of this holds under
  `runPool`.  `PoolIsForEach`: it implements `ForEach`, step by step; the
  invariant `PoolInv` is about who runs which item.  `SerialStartIsSerial` and
  `BlindSpendIsOneCall` follow the calls that passed the guard blind.

*CallPlanProofs.*  `PlanNeverExceeded`: per line, what is paid and what is planned
and not yet cached are together what the plan said (`Balanced`); each call moves
one from the second to the first.  `PlanIsWhatItCosts`: a stage that ends
unspoilt leaves all it asked for in the cache (`CacheInv`).  `RerunsAreFree`:
after such a run nothing is new (`FreeInv`); the cut of a second run is the
first's because an order of wallets allows one cut only (`CutIsUnique`).

*RateLimiterProofs.*  `NobodyOversleeps`: while a timer runs, the bucket has no
token when it would fire (`TimersSound`).  `WindowsAreBounded`: from any tick on,
what was granted and what the bucket still holds come from a full bucket and from
the ticks since (`Paid`), where for the second's bucket a worker that waits for
the minute's holds a token from this window or from before it.

*DiskCacheProofs.*  A process writes to the file its handle holds, whatever its
name is by then, so the invariant is about whose file that is: no file belongs to
two keys (`Apart`), and a key of which no two Puts had the file open has at most
one handle, on the file its temporary name leads to, which is not the published
one (`Alone`); then that file is empty or holds the writer's body, and the
published one is whole (`Contents`).  `OtherKeys` reduces a step to its own key;
each action then needs that key only, but for `Kill`, which cuts files of several.
`WholeOnDisk` and `PutsSettle` follow.

*ClusterProofs.*  A path to a root is the least set that holds a node and its
members' parents (`PathIn`), so facts about every node up to the root need no
induction.  `FindTerminates`: path compression and union keep every node rooted.
`ClusterIsPartition`: a union merges two groups and changes no other.
`ClusterFindsComponents`: buyers of one root are connected, and a union is to be
done or its buyers have one root (`GroupsInv`).  `CollapsesExplained`: a reason
that is given is one of the funding's, another buyer's unless it lists itself,
and a group that is explained stays so (`ExplainInv`).  Of the census,
`HeadlineIsRight`: the list of funders is in a strict order, so the shared ones
are its first and the headline, which stops at the first of a single wallet,
reads them all; and `CensusIsRight`: each union takes one root away at most and
is used up by it, so no more wallets collapse than there are unions
(`RootsAccounted`), and unions are counted by funder.

*ScoreProofs.*  What the tables of `Groups_tables` check of each input, proved of all.

- Labels and rows: a case split on the rules of `DecideVerdict`, which the first
  lemmas invert (`ClearedEarned`, `LinkStands`, `ExitNeverHidden`,
  `AbsentDataIsSilent`, and the rows of `Report` from them).
- `RanksOfAnyCohort`: in a sorted cohort the lower wallets come first and then a
  block of equals, so the sum of the block's first and last place counts what is
  below twice and the ties once.
- `BetterIsFirst`: ranks are in the order of the values (`RankOrder`), sums and
  multiples of fractions in the order of their parts (`FractionsAdd`,
  `FractionsTimes`), and bounding a score to 0..1 keeps the order of those above 0
  (`KeptOrder`), for the weights add up to one.  It assumes of a cohort (`Cohort`)
  that trades are not later than the reference time and that no group has more
  than ten wallets: beyond those the code takes different wallets for equal.
- `EveryMoveIsSane`: buys and bars of any number; an average is not above the
  greatest (`SumsKeepProportion`).  Of a bar it assumes that its close is not above
  its high.

*PipelineProofs.*  The invariant `IInv` says that what is known of a wallet is
true (`KnownIsTrue`); that, unless interrupted, a covered wallet's answered
pairs are all in its record (`CoveredAnswered`); the like of flows
(`FlowAnswered`); and that the verdicts are the judgement of what the records
hold (`VerdictsAsJudged`).  Together with `UnknownFundersSplit` an accusation on
partial data stands on the whole data.  `CoveredComplete`, `ClearedIndependent`,
`AccusationsTrue`, `ExitVerdictsTrue` and `CompleteExact` are the properties of
`Pipeline_verdicts`.

Only model-checked: `PoolReturns`, which is liveness and out of the prover's
reach, and the five violations, which are counterexamples.

## 6. Plan

Done: every component that keeps state or decides something, and a theorem for
every safety property of the runs.  What is left:

1. The pipeline beside its parts: that the coverage and funders `Pipeline` works
   on are what pools that implement `ForEach` leave behind, as a refinement.
2. `BetterIsFirst` for groups of more than ten, with crowds compared as the
   penalty does.
3. The hazards without a property: the cut of `--max-wallets`, a profit and win
   rate of a failed pnl-summary, the flow column's zero.

Not modelled, and why: the layout of the table and of the report's HTML, the
JSON output, the wallet and cluster lists on the page (formatting of a finished
result); the canonical JSON a cache key is hashed from (a function of the request,
taken as injective: requests are model values); the JSON types; the pnl-summary
and token-information answers inside `Run`, which feed no verdict; floating-point
rounding; the scripts, which run outside the program.
