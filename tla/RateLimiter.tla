----------------------------- MODULE RateLimiter -----------------------------
(***************************************************************************)
(* RateLimiter.Wait (internal/nansen/ratelimit.go): a per-second and a     *)
(* per-minute token bucket, taken one after the other by any number of     *)
(* workers.  Time passes in ticks, Second of them to a second and Minute   *)
(* seconds to a minute.  The code's floating-point tokens are counted in   *)
(* fractions of which a tick brings a whole number, so nothing is rounded. *)
(***************************************************************************)
EXTENDS Integers, FiniteSets

CONSTANTS
    Workers,
    PerSec, PerMin, \* --rate-per-sec, --rate-per-min
    Second, Minute, \* ticks to a second, seconds to a minute (60)
    Horizon         \* bound: ticks a behaviour lasts

ASSUME RatesAssumption ==
    /\ IsFiniteSet(Workers)
    /\ {PerSec, PerMin, Second, Minute} \subseteq Nat \ {0}
    /\ Horizon \in Nat

VARIABLES
    now,
    tokens,  \* tokenBucket.tokens, in fractions
    last,    \* tokenBucket.last
    at,      \* where each worker is: at one of the buckets, or outside Wait
    wake,    \* when its timer fires; Awake if it has set none
    granted, \* history: how many Waits have returned nil
    before,  \* history: how many had when each tick began
    ctxDone

limiterVars == <<now, tokens, last, at, wake, granted, before, ctxDone>>

Buckets == {"perSecond", "perMinute"}
Awake == -1

\* Fractions to a token, fractions a tick brings, and the most a bucket holds.
One(b)      == IF b = "perSecond" THEN Second ELSE Minute * Second
Rate(b)     == IF b = "perSecond" THEN PerSec ELSE PerMin
Capacity(b) == Rate(b) * One(b)

LimiterInit ==
    /\ now = 0
    /\ tokens = [b \in Buckets |-> Capacity(b)]
    /\ last = [b \in Buckets |-> 0]
    /\ at = [w \in Workers |-> "outside"]
    /\ wake = [w \in Workers |-> Awake]
    /\ granted = 0
    /\ before = [i \in 0..Horizon |-> 0]
    /\ ctxDone = FALSE

-----------------------------------------------------------------------------

\* What the bucket holds once the time since last is paid in.
Filled(b) ==
    LET t == tokens[b] + (now - last[b]) * Rate(b)
    IN  IF t > Capacity(b) THEN Capacity(b) ELSE t

\* Mutant: a sleeper waits for a whole token, not for the part that is missing.
MissingWhole(b) == One(b)

Missing(b) == One(b) - Filled(b)

\* Ticks until b has a token, if nobody else takes it.
TicksToToken(b) == (Missing(b) + Rate(b) - 1) \div Rate(b)

Call(w) ==
    /\ at[w] = "outside"
    /\ at' = [at EXCEPT ![w] = "perSecond"]
    /\ UNCHANGED <<now, tokens, last, wake, granted, before, ctxDone>>

\* The worker holds b's lock: on its first try, or once its timer has fired.
Trying(w, b) == at[w] = b /\ wake[w] <= now

\* Mutant: last stays where it was, and the same time is paid in again.
PayInAgain(b, left) ==
    /\ tokens' = [tokens EXCEPT ![b] = left]
    /\ UNCHANGED last

PayIn(b, left) ==
    /\ tokens' = [tokens EXCEPT ![b] = left]
    /\ last' = [last EXCEPT ![b] = now]

\* A token is there: on to the per-minute bucket, or out of Wait.
Take(w, b) ==
    /\ Trying(w, b)
    /\ Filled(b) >= One(b)
    /\ PayIn(b, Filled(b) - One(b))
    /\ wake' = [wake EXCEPT ![w] = Awake]
    /\ IF b = "perSecond"
       THEN at' = [at EXCEPT ![w] = "perMinute"] /\ UNCHANGED granted
       ELSE at' = [at EXCEPT ![w] = "outside"] /\ granted' = granted + 1
    /\ UNCHANGED <<now, before, ctxDone>>

\* None: sleep until one is due.
Sleep(w, b) ==
    /\ Trying(w, b)
    /\ Filled(b) < One(b)
    /\ PayIn(b, Filled(b))
    /\ wake' = [wake EXCEPT ![w] = now + TicksToToken(b)]
    /\ UNCHANGED <<now, at, granted, before, ctxDone>>

\* The select sees the context done.  A per-second token already taken is lost.
GiveUp(w) ==
    /\ ctxDone
    /\ at[w] # "outside"
    /\ wake[w] # Awake
    /\ at' = [at EXCEPT ![w] = "outside"]
    /\ wake' = [wake EXCEPT ![w] = Awake]
    /\ UNCHANGED <<now, tokens, last, granted, before, ctxDone>>

Cancel ==
    /\ ~ctxDone
    /\ ctxDone' = TRUE
    /\ UNCHANGED <<now, tokens, last, at, wake, granted, before>>

\* Time passes whatever the workers do: a timer may be noticed late.
Tick ==
    /\ now < Horizon
    /\ now' = now + 1
    /\ before' = [before EXCEPT ![now'] = granted]
    /\ UNCHANGED <<tokens, last, at, wake, granted, ctxDone>>

LimiterNext ==
    \/ \E w \in Workers : \/ Call(w)
                          \/ \E b \in Buckets : Take(w, b) \/ Sleep(w, b)
                          \/ GiveUp(w)
    \/ Cancel
    \/ Tick

LimiterSpec == LimiterInit /\ [][LimiterNext]_limiterVars

-----------------------------------------------------------------------------
(* Properties.                                                             *)

\* Waits that returned nil in the ticks from i to j.
Granted(i, j) == (IF j = now THEN granted ELSE before[j + 1]) - before[i]

\* What "under both limits simultaneously" comes to.  In any window the
\* per-minute bucket lets through one full bucket and what the window's time
\* brings: up to twice the configured rate, in a window of a minute.  The
\* per-second bucket lets through one more for each worker, which may have
\* taken its token earlier and waited with it for the minute's.
WindowBounded ==
    \A i, j \in 0..now : i <= j =>
        /\ Granted(i, j) * One("perMinute") <= Capacity("perMinute") + (j - i) * PerMin
        /\ (Granted(i, j) - Cardinality(Workers)) * Second <= Capacity("perSecond") + (j - i) * PerSec

\* Nobody sleeps on a token: while a worker's timer runs, its bucket has none to
\* give, whoever came and went since the timer was set.
SleepersMissNothing ==
    \A w \in Workers : at[w] # "outside" /\ wake[w] > now => Filled(at[w]) < One(at[w])
=============================================================================
