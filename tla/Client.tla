------------------------------- MODULE Client -------------------------------
(***************************************************************************)
(* The budget-aware, cached API client (internal/nansen/client.go) as its  *)
(* worker goroutines drive it, with the part of the API server that the    *)
(* client's bookkeeping is about: the credit account it charges.           *)
(*                                                                         *)
(* A worker carries one Do from "idle" through                             *)
(*   guard    - missed the cache, about to check the budget                *)
(*   attempt  - backing off or waiting for the rate limiter                *)
(*   wire     - request sent, not yet answered                             *)
(*   reply    - the round trip ended, its result not yet looked at         *)
(*   complete - doHTTP returned a 200: about to write the receipt          *)
(*   store    - receipt written: decode, then cache.Put                    *)
(*   failed   - doHTTP returned an error: log, release the reservation     *)
(* and back to "idle".  A step of the model is a stretch of code between   *)
(* two places where another goroutine can see or change shared state.      *)
(***************************************************************************)
EXTENDS Integers, FiniteSets, FiniteSetsExt

CONSTANTS
    Workers,        \* goroutine slots that may be inside Do at once
    Calls,          \* distinct (endpoint, body) pairs, i.e. cache keys
    NoCall,         \* what an idle worker is working on
    Cost,           \* CreditCost of each call
    CreditFloor,    \* --credit-floor
    AllowExpensive, \* --allow-expensive
    Modes,          \* runs are "live" or (--offline) "offline"
    MaxRetries,     \* Client.MaxRetries
    Account,        \* credits on the account before the first run
    Faults,         \* what may go wrong outside the client
    MaxRuns         \* bound: how many times the program is run

\* net:      a round trip fails before the server acts on the request
\* lost:     the server charges, the response never arrives
\* cut:      the status and headers arrive, reading the body fails
\* noheader: a 200 without a numeric X-Nansen-Credits-Remaining
\* garbled:  a 200 whose body does not decode into the expected type
\* 429, 5xx, 4xx: error statuses, none of which is charged
\* disk:     cache.Put fails
FaultKinds == {"net", "lost", "cut", "noheader", "garbled", "429", "5xx", "4xx", "disk"}

ASSUME ConstantsAssumption ==
    /\ NoCall \notin Calls
    /\ Cost \in [Calls -> Nat]
    /\ CreditFloor \in Nat
    /\ AllowExpensive \in BOOLEAN
    /\ Modes \subseteq {"live", "offline"}
    /\ MaxRetries \in Nat
    /\ Account \in Nat
    /\ Faults \subseteq FaultKinds
    /\ MaxRuns \in Nat \ {0}

\* opts.Concurrency workers, and what one seed makes them ask for.
ASSUME SlotsAssumption == IsFiniteSet(Workers) /\ IsFiniteSet(Calls)

VARIABLES
    creditsRemaining, \* Client.creditsRemaining; Unknown until a balance is seen
    cache,            \* keys with a file in data/cache
    mode,             \* this run's --offline flag
    cancelled,        \* the run's context is done
    outcome,          \* what Do returned for each call in this run
    pc, call,         \* where each worker is, and on which call
    attempt,          \* doHTTP's retry counter
    reserved,         \* Do's local: a deduction was made for this call
    entry,            \* status in doHTTP's lastEntry
    reply,            \* what the round trip ended with
    balance,          \* server: credits left on the account
    charges,          \* server: how often each call has been charged
    receipts,         \* out/calls.jsonl: live-call lines with status 200
    runs              \* how many times the program has been started

process == <<creditsRemaining, mode, cancelled, outcome>>
local   == <<pc, call, attempt, reserved, entry, reply>>
server  == <<balance, charges>>
vars    == <<process, local, server, receipts, cache, runs>>

Unknown == -1

Reply(kind, remaining) == [kind |-> kind, remaining |-> remaining]
NoReply == Reply("none", Unknown)

ReplyKinds == {"none", "neterr", "429", "5xx", "4xx", "ok", "garbled", "cut"}
Replies    == [kind : ReplyKinds, remaining : Nat \cup {Unknown}]
Statuses   == {"blank", "neterr", "429", "5xx", "4xx", "200"}
Outcomes   == {"none", "hit", "ok", "offline", "expensive", "floor", "error"}

Busy     == {w \in Workers : pc[w] # "idle"}
InFlight == {call[w] : w \in Busy}

Labels == {"idle", "guard", "attempt", "wire", "reply", "complete", "store", "failed"}

LocalsOK ==
    /\ pc \in [Workers -> Labels]
    /\ call \in [Workers -> Calls \cup {NoCall}]
    /\ attempt \in [Workers -> 0..MaxRetries]
    /\ reserved \in [Workers -> BOOLEAN]
    /\ entry \in [Workers -> Statuses]
    /\ reply \in [Workers -> Replies]
    /\ \A w \in Workers : /\ pc[w] # "idle" => call[w] \in Calls
                          /\ pc[w] = "reply" => reply[w].kind # "none"

TypeOK ==
    /\ creditsRemaining \in Nat \cup {Unknown}
    /\ cache \subseteq Calls
    /\ mode \in Modes
    /\ cancelled \in BOOLEAN
    /\ outcome \in [Calls -> Outcomes]
    /\ balance \in Nat
    /\ charges \in [Calls -> Nat]
    /\ receipts \in [Calls -> Nat]
    /\ runs \in 1..MaxRuns
    /\ LocalsOK

-----------------------------------------------------------------------------
(* A run starts: Unknown balance, or primed with --credits-remaining.  The *)
(* operator is taken to prime the true balance.                            *)

StartingCredits(credits) == {Unknown, credits}

IdleLocals ==
    /\ pc' = [w \in Workers |-> "idle"]
    /\ call' = [w \in Workers |-> NoCall]
    /\ attempt' = [w \in Workers |-> 0]
    /\ reserved' = [w \in Workers |-> FALSE]
    /\ entry' = [w \in Workers |-> "blank"]
    /\ reply' = [w \in Workers |-> NoReply]

Init ==
    /\ creditsRemaining \in StartingCredits(Account)
    /\ cache \in SUBSET Calls
    /\ mode \in Modes
    /\ cancelled = FALSE
    /\ outcome = [c \in Calls |-> "none"]
    /\ pc = [w \in Workers |-> "idle"]
    /\ call = [w \in Workers |-> NoCall]
    /\ attempt = [w \in Workers |-> 0]
    /\ reserved = [w \in Workers |-> FALSE]
    /\ entry = [w \in Workers |-> "blank"]
    /\ reply = [w \in Workers |-> NoReply]
    /\ balance = Account
    /\ charges = [c \in Calls |-> 0]
    /\ receipts = [c \in Calls |-> 0]
    /\ runs = 1

-----------------------------------------------------------------------------
(* Do, up to the request.                                                  *)

\* Mutant: a cache that does not outlive the process.
HitInMemory(c) == c \in cache /\ runs = 1

Hit(c) == c \in cache

TooExpensive(c) == Cost[c] > 1 /\ ~AllowExpensive

\* Mutant: the check forgets what the call itself costs.
WithinFloorBeforePaying(credits, cost) == credits >= CreditFloor

\* The budget guard: what is left after paying must not be below the floor.
WithinFloor(credits, cost) == credits - cost >= CreditFloor

Goto(w, label) == pc' = [pc EXCEPT ![w] = label]

\* A caller may ask for c: nobody is working on it and this run has not asked
\* before.  Both hold in the pipeline, whose stages ask for each key once; the
\* second Seed of a run that printed a plan finds the first one's answer.
MayAsk(w, c) == pc[w] = "idle" /\ outcome[c] = "none" /\ c \notin InFlight

Refused(w, c, result) ==
    /\ outcome' = [outcome EXCEPT ![c] = result]
    /\ UNCHANGED <<creditsRemaining, mode, cancelled, local, server, receipts, cache, runs>>

CacheHit(w, c) ==
    /\ MayAsk(w, c)
    /\ Hit(c)
    /\ Refused(w, c, "hit")

RefuseOffline(w, c) ==
    /\ MayAsk(w, c)
    /\ ~Hit(c)
    /\ mode = "offline"
    /\ Refused(w, c, "offline")

RefuseExpensive(w, c) ==
    /\ MayAsk(w, c)
    /\ ~Hit(c)
    /\ mode = "live"
    /\ TooExpensive(c)
    /\ Refused(w, c, "expensive")

Miss(w, c) ==
    /\ MayAsk(w, c)
    /\ ~Hit(c)
    /\ mode = "live"
    /\ ~TooExpensive(c)
    /\ Goto(w, "guard")
    /\ call' = [call EXCEPT ![w] = c]
    /\ UNCHANGED <<process, attempt, reserved, entry, reply, server, receipts, cache, runs>>

\* Do returns: the worker's locals go out of scope.
Return(w, result) ==
    /\ outcome' = [outcome EXCEPT ![call[w]] = result]
    /\ Goto(w, "idle")
    /\ call' = [call EXCEPT ![w] = NoCall]
    /\ attempt' = [attempt EXCEPT ![w] = 0]
    /\ reserved' = [reserved EXCEPT ![w] = FALSE]
    /\ entry' = [entry EXCEPT ![w] = "blank"]
    /\ reply' = [reply EXCEPT ![w] = NoReply]

Deducted(credits, cost) == credits - cost

\* reserveCredits finds no balance to check against and lets the call pass.
ReserveBlind(w) ==
    /\ pc[w] = "guard"
    /\ creditsRemaining = Unknown
    /\ Goto(w, "attempt")
    /\ UNCHANGED <<process, call, attempt, reserved, entry, reply, server, receipts, cache, runs>>

ReserveCredits(w) ==
    /\ pc[w] = "guard"
    /\ creditsRemaining # Unknown
    /\ WithinFloor(creditsRemaining, Cost[call[w]])
    /\ creditsRemaining' = Deducted(creditsRemaining, Cost[call[w]])
    /\ reserved' = [reserved EXCEPT ![w] = TRUE]
    /\ Goto(w, "attempt")
    /\ UNCHANGED <<mode, cancelled, outcome, call, attempt, entry, reply, server, receipts, cache, runs>>

RefuseFloor(w) ==
    /\ pc[w] = "guard"
    /\ creditsRemaining # Unknown
    /\ ~WithinFloor(creditsRemaining, Cost[call[w]])
    /\ Return(w, "floor")
    /\ UNCHANGED <<creditsRemaining, mode, cancelled, server, receipts, cache, runs>>

\* The back-off or the limiter wait is over.  With the context done nothing is
\* sent any more: the wait, or HTTPClient.Do before it writes, returns ctx.Err.
Send(w) ==
    /\ pc[w] = "attempt"
    /\ ~cancelled
    /\ Goto(w, "wire")
    /\ UNCHANGED <<process, call, attempt, reserved, entry, reply, server, receipts, cache, runs>>

\* A wait returns doHTTP's last entry; HTTPClient.Do, reached when the limiter
\* has a token at hand, replaces it by one with status 0 first.
Abandon(w) ==
    /\ pc[w] = "attempt"
    /\ cancelled
    /\ Goto(w, "failed")
    /\ entry' \in {entry, [entry EXCEPT ![w] = "neterr"]}
    /\ UNCHANGED <<process, call, attempt, reserved, reply, server, receipts, cache, runs>>

-----------------------------------------------------------------------------
(* The round trip.  A cancelled context aborts it wherever it is: before   *)
(* the server acts, after it charged, or while the body is being read.     *)

Possible(fault) == fault \in Faults \/ (cancelled /\ fault \in {"net", "lost", "cut"})

Answer(w, r) ==
    /\ reply' = [reply EXCEPT ![w] = r]
    /\ Goto(w, "reply")
    /\ UNCHANGED <<process, call, attempt, reserved, entry, receipts, cache, runs>>

Charge(w) ==
    /\ pc[w] = "wire"
    /\ balance >= Cost[call[w]]
    /\ balance' = balance - Cost[call[w]]
    /\ charges' = [charges EXCEPT ![call[w]] = @ + 1]
    /\ \E remaining \in {balance'} \cup (IF Possible("noheader") THEN {Unknown} ELSE {}) :
          \/ Answer(w, Reply("ok", remaining))
          \/ Possible("garbled") /\ Answer(w, Reply("garbled", remaining))
          \/ Possible("cut")     /\ Answer(w, Reply("cut", remaining))
          \/ Possible("lost")    /\ Answer(w, Reply("neterr", Unknown))

\* A call the account cannot pay for is refused like any other bad request.
BadRequest(w) == Possible("4xx") \/ balance < Cost[call[w]]

\* An error status whose body cannot be read is retried whatever the status, as
\* a 5xx is: doHTTP looks at the read error first.
Reject(w) ==
    /\ pc[w] = "wire"
    /\ \/ Possible("429") /\ Answer(w, Reply("429", Unknown))
       \/ Possible("5xx") /\ Answer(w, Reply("5xx", Unknown))
       \/ BadRequest(w) /\ Answer(w, Reply("4xx", Unknown))
       \/ BadRequest(w) /\ Possible("cut") /\ Answer(w, Reply("5xx", Unknown))
    /\ UNCHANGED <<balance, charges>>

NetFail(w) ==
    /\ pc[w] = "wire"
    /\ Possible("net")
    /\ Answer(w, Reply("neterr", Unknown))
    /\ UNCHANGED <<balance, charges>>

-----------------------------------------------------------------------------
(* doHTTP looks at the result.                                             *)

Is200(r) == r.kind \in {"ok", "garbled", "cut"}

StatusOf(r) == IF Is200(r) THEN "200" ELSE r.kind

\* Mutant: a 200 without a balance is retried too.
RetryableHeaderless(r) == r.kind \in {"neterr", "429", "5xx", "cut"} \/ (r.kind = "ok" /\ r.remaining = Unknown)

Retryable(r) == r.kind \in {"neterr", "429", "5xx", "cut"}

\* setCreditsRemaining, from the header of a 200 that carries one.
Credited(credits, r) == IF Is200(r) /\ r.remaining # Unknown THEN r.remaining ELSE credits

\* Mutant: off by one.
AttemptsLeftInclusive(n) == n <= MaxRetries

AttemptsLeft(n) == n < MaxRetries

\* Mutant: a retry that is not counted.
NextAttemptUncounted(n) == n

NextAttempt(n) == n + 1

HandleResponse(w) ==
    /\ pc[w] = "reply"
    /\ creditsRemaining' = Credited(creditsRemaining, reply[w])
    /\ entry' = [entry EXCEPT ![w] = StatusOf(reply[w])]
    /\ \/ /\ Retryable(reply[w])
          /\ AttemptsLeft(attempt[w])
          /\ attempt' = [attempt EXCEPT ![w] = NextAttempt(@)]
          /\ reply' = [reply EXCEPT ![w] = NoReply]
          /\ Goto(w, "attempt")
       \/ /\ Retryable(reply[w]) => ~AttemptsLeft(attempt[w])
          /\ Goto(w, IF Is200(reply[w]) /\ ~Retryable(reply[w]) THEN "complete" ELSE "failed")
          /\ UNCHANGED <<attempt, reply>>
    /\ UNCHANGED <<mode, cancelled, outcome, call, reserved, server, receipts, cache, runs>>

-----------------------------------------------------------------------------
(* Do, after doHTTP.                                                       *)

\* Mutants: a receipt only when the balance came with it; one for every Do.
LogAttemptWithBalance(w) ==
    receipts' = [receipts EXCEPT ![call[w]] = @ + (IF reply[w].remaining # Unknown THEN 1 ELSE 0)]

LogAttemptAlways(w) ==
    receipts' = [receipts EXCEPT ![call[w]] = @ + 1]

\* logAttempt: one line per Do that reached doHTTP, whatever doHTTP went through.
LogAttempt(w) ==
    receipts' = [receipts EXCEPT ![call[w]] = @ + (IF entry[w] = "200" THEN 1 ELSE 0)]

WriteReceipt(w) ==
    /\ pc[w] = "complete"
    /\ LogAttempt(w)
    /\ Goto(w, "store")
    /\ UNCHANGED <<process, call, attempt, reserved, entry, reply, server, cache, runs>>

\* Mutant: the temporary file is never renamed.
StoredNowhere(c) == cache

Stored(c) == cache \cup {c}

\* Decode, then Put: a body that does not decode is not stored.
Store(w) ==
    /\ pc[w] = "store"
    /\ \/ reply[w].kind = "ok" /\ Return(w, "ok") /\ cache' = Stored(call[w])
       \/ reply[w].kind = "ok" /\ Possible("disk") /\ Return(w, "error") /\ UNCHANGED cache
       \/ reply[w].kind = "garbled" /\ Return(w, "error") /\ UNCHANGED cache
    /\ UNCHANGED <<creditsRemaining, mode, cancelled, server, receipts, runs>>

\* Mutant: a failed call keeps its reservation.
ReleasedNever(credits, held, cost) == credits

Released(credits, held, cost) == IF held THEN credits + cost ELSE credits

FailDo(w) ==
    /\ pc[w] = "failed"
    /\ LogAttempt(w)
    /\ creditsRemaining' = Released(creditsRemaining, reserved[w], Cost[call[w]])
    /\ Return(w, "error")
    /\ UNCHANGED <<mode, cancelled, server, cache, runs>>

-----------------------------------------------------------------------------

Interrupt ==
    /\ ~cancelled
    /\ cancelled' = TRUE
    /\ UNCHANGED <<creditsRemaining, mode, outcome, local, server, receipts, cache, runs>>

\* The program is run again, after it ended or was killed at any point.  What
\* survives is the disk (cache, log) and the account.
Restart ==
    /\ runs < MaxRuns
    /\ runs' = runs + 1
    /\ creditsRemaining' \in StartingCredits(balance)
    /\ mode' \in Modes
    /\ cancelled' = FALSE
    /\ outcome' = [c \in Calls |-> "none"]
    /\ IdleLocals
    /\ UNCHANGED <<server, receipts, cache>>

RunOver == Busy = {} /\ \A c \in Calls : outcome[c] # "none"

Finished == RunOver /\ UNCHANGED vars

Begin(w) ==
    \E c \in Calls : CacheHit(w, c) \/ RefuseOffline(w, c) \/ RefuseExpensive(w, c) \/ Miss(w, c)

Continue(w) ==
    \/ ReserveBlind(w) \/ ReserveCredits(w) \/ RefuseFloor(w)
    \/ Send(w) \/ Abandon(w)
    \/ HandleResponse(w)
    \/ WriteReceipt(w) \/ Store(w) \/ FailDo(w)

Serve(w) == Charge(w) \/ Reject(w) \/ NetFail(w)

Next ==
    \/ \E w \in Workers : Begin(w) \/ Continue(w) \/ Serve(w)
    \/ Interrupt
    \/ Restart
    \/ Finished

Spec == Init /\ [][Next]_vars

-----------------------------------------------------------------------------
(* Properties.                                                             *)

\* The README's budget guard: a call that went out with a reservation, when the
\* server gets to charge it, leaves the account at the floor or above.
WireKeepsFloor ==
    \A w \in Workers : pc[w] = "wire" /\ reserved[w] => balance - Cost[call[w]] >= CreditFloor

\* What the guard is worth when n workers race.  The header of a response held
\* back while others were charged erases their deductions and re-opens the gate
\* for all n; n - 1 such responses can be held back, so with one-credit calls
\* the account goes below the floor by at most n(n+1)/2 - 1 credits.
OvershootBounded ==
    LET n == Cardinality(Workers) IN
    \A w \in Workers : pc[w] = "wire" /\ reserved[w] =>
        balance - Cost[call[w]] >= CreditFloor - ((n * (n + 1)) \div 2 - 1)

\* Between two calls of a run that is not interrupted, a client that knows its
\* balance knows the right one: every reservation ended as a charge or a refund.
EstimateMatchesAccount ==
    Busy = {} /\ ~cancelled /\ creditsRemaining # Unknown => creditsRemaining = balance

\* "Nothing is ever fetched twice": once a response is on disk its call is never
\* charged again, by any worker, in any later run, whatever failed in between.
CachedNeverCharged == [][\A c \in cache : charges'[c] = charges[c]]_vars

\* One run pays for a call at most once, retries included, as long as every
\* charged response arrives whole.
PaidOncePerRun == \A c \in Calls : charges[c] <= runs

\* A charged response that is cut off is asked for, and charged, once more: what
\* a run can pay for one call stays within the attempts doHTTP may make.
PaidPerAttempt == \A c \in Calls : charges[c] <= runs * (MaxRetries + 1)

\* For each call, how often it was charged after the first time.
PaidAgain == [c \in Calls |-> IF charges[c] > 0 THEN charges[c] - 1 ELSE 0]

\* What "a run interrupted at call 600 resumes without re-spending" comes to:
\* every stopped run can cost again only the calls its workers had in flight.
RespendBounded ==
    MapThenSumSet(LAMBDA c : PaidAgain[c], Calls) <= (runs - 1) * Cardinality(Workers)

\* "Every response is cached before anything parses it" (README.md:68): in the
\* first run, once nothing is in flight, what the account was charged for is on
\* disk.  Do decodes before it stores, so a 200 that does not decode breaks it.
EveryResponseKept ==
    Busy = {} /\ runs = 1 /\ ~cancelled => \A c \in Calls : charges[c] > 0 => c \in cache

\* What the code keeps of that, under every fault and interrupt: a call that is
\* not in flight any more and was paid for in the first run is on disk, or its
\* caller got the error.  No paid response is lost in silence.
PaidIsKeptOrReported ==
    runs = 1 => \A c \in Calls \ InFlight : charges[c] > 0 => c \in cache \/ outcome[c] = "error"

\* "Every call is receipted": in a run nobody interrupts, the receipts reconcile
\* with the account once nothing is in flight.
ReceiptsReconcile ==
    Busy = {} /\ runs = 1 /\ ~cancelled => \A c \in Calls : receipts[c] = charges[c]

\* The receipt is written before the response is stored, so a crash in between
\* loses a response, never a receipt: what was paid for and is on disk is on the log.
StoredHasReceipt == \A c \in cache : charges[c] > 0 => receipts[c] > 0
=============================================================================
