-------------------------- MODULE RateLimiterProofs --------------------------
(***************************************************************************)
(* What the two token buckets let through, for any rates, any number of    *)
(* workers and any length of a minute, and that no worker sleeps on a      *)
(* token.  Both proofs are about what a bucket holds once the time is paid *)
(* in: a tick adds no more than its rate, and each grant takes a token out.*)
(***************************************************************************)
EXTENDS RateLimiter, FiniteSetTheorems, TLAPS

TypeOK ==
    /\ now \in 0..Horizon
    /\ tokens \in [Buckets -> Nat]
    /\ \A b \in Buckets : tokens[b] <= Capacity(b)
    /\ last \in [Buckets -> Nat]
    /\ \A b \in Buckets : last[b] <= now
    /\ at \in [Workers -> Buckets \cup {"outside"}]
    /\ wake \in [Workers -> Int]
    /\ \A w \in Workers : at[w] = "outside" => wake[w] = Awake
    /\ granted \in Nat
    /\ before \in [0..Horizon -> Nat]
    /\ ctxDone \in BOOLEAN

LEMMA BucketSizes ==
    ASSUME NEW b \in Buckets
    PROVE  /\ One(b) \in Nat \ {0} /\ Rate(b) \in Nat \ {0} /\ Capacity(b) \in Nat
           /\ One(b) <= Capacity(b)
<1>1. \A x, y \in Nat \ {0} : x * y \in Nat \ {0} /\ y <= x * y
    OBVIOUS
<1>2. One(b) \in Nat \ {0} /\ Rate(b) \in Nat \ {0}
    BY <1>1, RatesAssumption DEF One, Rate
<1> QED
    BY <1>1, <1>2 DEF Capacity

\* What a bucket holds, and what the time since last would bring it to.
LEMMA FilledRange ==
    ASSUME TypeOK, NEW b \in Buckets
    PROVE  /\ Filled(b) \in Nat /\ Filled(b) <= Capacity(b)
           /\ tokens[b] + (now - last[b]) * Rate(b) \in Nat
           /\ Filled(b) = tokens[b] + (now - last[b]) * Rate(b) \/ Filled(b) = Capacity(b)
           /\ Filled(b) <= tokens[b] + (now - last[b]) * Rate(b)
<1>1. tokens[b] \in Nat /\ last[b] \in Nat /\ now \in Nat /\ last[b] <= now
    BY RatesAssumption DEF TypeOK
<1>2. Rate(b) \in Nat /\ Capacity(b) \in Nat
    BY BucketSizes
<1>3. (now - last[b]) * Rate(b) \in Nat
    <2>1. now - last[b] \in Nat
        BY <1>1
    <2> QED
        BY <1>2, <2>1
<1> QED
    BY <1>1, <1>2, <1>3 DEF Filled

FilledOK == \A b \in Buckets : Filled(b) \in Nat /\ Filled(b) <= Capacity(b)

LEMMA FilledAfter == TypeOK' => FilledOK'
<1>1. TypeOK => FilledOK
    BY FilledRange DEF FilledOK
<1> QED
    BY <1>1, PTL

\* A tick brings a bucket what its rate says, or less if it is full.
LEMMA FilledTick ==
    ASSUME TypeOK, NEW b \in Buckets, now' = now + 1, tokens' = tokens, last' = last
    PROVE  Filled(b)' <= Filled(b) + Rate(b)
<1>1. tokens[b] \in Nat /\ last[b] \in Nat /\ now \in Nat
    BY RatesAssumption DEF TypeOK
<1>2. Rate(b) \in Nat /\ Capacity(b) \in Nat
    BY BucketSizes
<1>3. (now + 1 - last[b]) * Rate(b) = (now - last[b]) * Rate(b) + Rate(b)
    BY <1>1, <1>2
<1>4. (now - last[b]) * Rate(b) \in Int
    BY <1>1, <1>2
<1> DEFINE x == (now - last[b]) * Rate(b)
           y == (now + 1 - last[b]) * Rate(b)
<1>5. Filled(b) = IF tokens[b] + x > Capacity(b) THEN Capacity(b) ELSE tokens[b] + x
    BY DEF Filled
<1>6. Filled(b)' = IF tokens[b] + y > Capacity(b) THEN Capacity(b) ELSE tokens[b] + y
    <2>1. Filled(b)' = IF tokens'[b] + (now' - last'[b]) * Rate(b) > Capacity(b) THEN Capacity(b)
                       ELSE tokens'[b] + (now' - last'[b]) * Rate(b)
        BY DEF Filled
    <2>2. now' - last'[b] = now + 1 - last[b] /\ tokens'[b] = tokens[b]
        BY <1>1
    <2> QED
        BY <2>1, <2>2
<1>7. y = x + Rate(b) /\ x \in Int
    BY <1>3, <1>4
<1> HIDE DEF x, y
<1> QED
    BY <1>1, <1>2, <1>5, <1>6, <1>7

\* Paying in the time changes nothing but what is left.
LEMMA FilledPaidIn ==
    ASSUME TypeOK, NEW b \in Buckets, NEW left \in Nat, left <= Capacity(b), PayIn(b, left), now' = now
    PROVE  /\ Filled(b)' = left
           /\ \A c \in Buckets : c # b => Filled(c)' = Filled(c)
           /\ tokens' \in [Buckets -> Nat] /\ last' \in [Buckets -> Nat]
           /\ \A c \in Buckets : tokens'[c] <= Capacity(c) /\ last'[c] <= now
           /\ tokens'[b] = left /\ last'[b] = now
           /\ \A c \in Buckets : c # b => tokens'[c] = tokens[c] /\ last'[c] = last[c]
<1>1. now \in Nat
    BY RatesAssumption DEF TypeOK
<1>2. tokens' = [tokens EXCEPT ![b] = left] /\ last' = [last EXCEPT ![b] = now]
    BY DEF PayIn
<1>3. tokens'[b] = left /\ last'[b] = now /\ \A c \in Buckets : c # b => tokens'[c] = tokens[c] /\ last'[c] = last[c]
    BY <1>2 DEF TypeOK
<1>4. Rate(b) \in Nat /\ (now - now) * Rate(b) = 0
    BY <1>1, BucketSizes
<1>5. Filled(b)' = left
    <2>1. tokens'[b] + (now' - last'[b]) * Rate(b) = left
        BY <1>3, <1>4
    <2>2. Filled(b)' = IF tokens'[b] + (now' - last'[b]) * Rate(b) > Capacity(b) THEN Capacity(b)
                       ELSE tokens'[b] + (now' - last'[b]) * Rate(b)
        BY DEF Filled
    <2> QED
        BY <2>1, <2>2, BucketSizes
<1>6. \A c \in Buckets : c # b => Filled(c)' = Filled(c)
    BY <1>3 DEF Filled
<1>7. tokens' \in [Buckets -> Nat] /\ last' \in [Buckets -> Nat]
    BY <1>1, <1>2 DEF TypeOK
<1>8. \A c \in Buckets : tokens'[c] <= Capacity(c) /\ last'[c] <= now
    BY <1>1, <1>3 DEF TypeOK
<1> QED
    BY <1>3, <1>5, <1>6, <1>7, <1>8

LEMMA TakePays ==
    ASSUME TypeOK, NEW w \in Workers, NEW b \in Buckets, Take(w, b)
    PROVE  /\ Filled(b) >= One(b) /\ Filled(b) - One(b) \in Nat /\ Filled(b) - One(b) <= Capacity(b)
           /\ PayIn(b, Filled(b) - One(b)) /\ now' = now
<1>1. Filled(b) \in Nat /\ Filled(b) <= Capacity(b) /\ One(b) \in Nat /\ Capacity(b) \in Nat
    BY FilledRange, BucketSizes
<1>2. Filled(b) >= One(b) /\ PayIn(b, Filled(b) - One(b)) /\ now' = now
    BY DEF Take
<1> QED
    BY <1>1, <1>2

LEMMA SleepPays ==
    ASSUME TypeOK, NEW w \in Workers, NEW b \in Buckets, Sleep(w, b)
    PROVE  /\ Filled(b) < One(b) /\ Filled(b) \in Nat /\ Filled(b) <= Capacity(b)
           /\ PayIn(b, Filled(b)) /\ now' = now
           /\ Filled(b) = tokens[b] + (now - last[b]) * Rate(b)
<1>1. /\ Filled(b) \in Nat /\ Filled(b) <= Capacity(b) /\ One(b) <= Capacity(b)
      /\ One(b) \in Nat /\ Capacity(b) \in Nat
    BY FilledRange, BucketSizes
<1>2. Filled(b) < One(b) /\ PayIn(b, Filled(b)) /\ now' = now
    BY DEF Sleep
<1>3. Filled(b) # Capacity(b)
    BY <1>1, <1>2
<1> QED
    BY <1>1, <1>2, <1>3, FilledRange

\* A timer is set for a later tick, and no later than the token is due.
LEMMA TimerSound ==
    ASSUME NEW b \in Buckets, Filled(b) \in Nat, Filled(b) < One(b)
    PROVE  /\ TicksToToken(b) \in Nat \ {0}
           /\ Filled(b) + (TicksToToken(b) - 1) * Rate(b) < One(b)
<1> DEFINE m == One(b) - Filled(b)
           r == Rate(b)
           q == (m + r - 1) \div r
<1>1. m \in Nat \ {0} /\ r \in Nat \ {0}
    BY BucketSizes
<1>2. TicksToToken(b) = q
    BY DEF TicksToToken, Missing
<1>3. Filled(b) = One(b) - m /\ One(b) \in Nat
    BY BucketSizes
<1> HIDE DEF m, r
<1>4. q \in Int /\ r * q <= m + r - 1 /\ m + r - 1 < r * q + r
    BY <1>1
<1>5. q >= 1
    <2>1. SUFFICES ASSUME q <= 0 PROVE FALSE
        BY <1>4
    <2> HIDE DEF q
    <2>2. r * q <= 0
        BY <1>1, <1>4, <2>1
    <2> QED
        BY <1>1, <1>4, <2>2
<1> HIDE DEF q
<1>6. (q - 1) * r = r * q - r
    BY <1>1, <1>4
<1>7. (q - 1) * r < m
    BY <1>1, <1>4, <1>6
<1>8. (q - 1) * r \in Int
    BY <1>1, <1>4
<1> QED
    BY <1>1, <1>2, <1>3, <1>4, <1>5, <1>7, <1>8 DEF r

LEMMA InitType == LimiterInit => TypeOK
<1> SUFFICES ASSUME LimiterInit PROVE TypeOK
    OBVIOUS
<1>1. \A b \in Buckets : Capacity(b) \in Nat
    BY BucketSizes
<1>2. tokens \in [Buckets -> Nat] /\ \A b \in Buckets : tokens[b] <= Capacity(b)
    BY <1>1 DEF LimiterInit
<1>3. /\ now \in 0..Horizon /\ last \in [Buckets -> Nat]
      /\ \A b \in Buckets : last[b] <= now
    BY RatesAssumption DEF LimiterInit
<1>4. /\ at \in [Workers -> Buckets \cup {"outside"}] /\ wake \in [Workers -> Int]
      /\ \A w \in Workers : at[w] = "outside" => wake[w] = Awake
    BY DEF LimiterInit, Awake
<1> QED
    BY <1>2, <1>3, <1>4 DEF LimiterInit, TypeOK

LEMMA StepType == TypeOK /\ [LimiterNext]_limiterVars => TypeOK'
<1> SUFFICES ASSUME TypeOK, [LimiterNext]_limiterVars PROVE TypeOK'
    OBVIOUS
<1>0. now \in Nat /\ Awake \in Int
    BY RatesAssumption DEF TypeOK, Awake
<1>1. ASSUME NEW w \in Workers, Call(w) PROVE TypeOK'
    BY <1>1 DEF Call, TypeOK, Buckets
<1>2. ASSUME NEW w \in Workers, NEW b \in Buckets, Take(w, b) PROVE TypeOK'
    <2>1. /\ tokens' \in [Buckets -> Nat] /\ last' \in [Buckets -> Nat]
          /\ \A c \in Buckets : tokens'[c] <= Capacity(c) /\ last'[c] <= now
        BY <1>2, TakePays, FilledPaidIn
    <2>2. wake' \in [Workers -> Int] /\ wake'[w] = Awake /\ \A u \in Workers : u # w => wake'[u] = wake[u]
        BY <1>0, <1>2 DEF Take, TypeOK
    <2>3. at' \in [Workers -> Buckets \cup {"outside"}] /\ \A u \in Workers : u # w => at'[u] = at[u]
        BY <1>2 DEF Take, TypeOK, Buckets
    <2>4. granted' \in Nat
        BY <1>2 DEF Take, TypeOK
    <2>5. UNCHANGED <<now, before, ctxDone>>
        BY <1>2 DEF Take
    <2> QED
        BY <2>1, <2>2, <2>3, <2>4, <2>5 DEF TypeOK
<1>3. ASSUME NEW w \in Workers, NEW b \in Buckets, Sleep(w, b) PROVE TypeOK'
    <2>1. /\ tokens' \in [Buckets -> Nat] /\ last' \in [Buckets -> Nat]
          /\ \A c \in Buckets : tokens'[c] <= Capacity(c) /\ last'[c] <= now
        BY <1>3, SleepPays, FilledPaidIn
    <2>2. now + TicksToToken(b) \in Int
        BY <1>0, <1>3, SleepPays, TimerSound
    <2>3. wake' \in [Workers -> Int] /\ \A u \in Workers : u # w => wake'[u] = wake[u]
        BY <1>3, <2>2 DEF Sleep, TypeOK
    <2>4. at[w] # "outside"
        BY <1>3 DEF Sleep, Trying, Buckets
    <2>5. UNCHANGED <<now, at, granted, before, ctxDone>>
        BY <1>3 DEF Sleep
    <2> QED
        BY <2>1, <2>3, <2>4, <2>5 DEF TypeOK
<1>4. ASSUME NEW w \in Workers, GiveUp(w) PROVE TypeOK'
    BY <1>0, <1>4 DEF GiveUp, TypeOK
<1>5. CASE Cancel
    BY <1>5 DEF Cancel, TypeOK
<1>6. CASE Tick
    <2>1. now' \in 0..Horizon /\ \A b \in Buckets : last'[b] <= now'
        BY <1>0, <1>6, RatesAssumption DEF Tick, TypeOK
    <2>2. before' \in [0..Horizon -> Nat]
        BY <1>6 DEF Tick, TypeOK
    <2> QED
        BY <1>6, <2>1, <2>2 DEF Tick, TypeOK
<1>7. CASE UNCHANGED limiterVars
    BY <1>7 DEF limiterVars, TypeOK
<1> QED
    BY <1>1, <1>2, <1>3, <1>4, <1>5, <1>6, <1>7 DEF LimiterNext

-----------------------------------------------------------------------------
(***************************************************************************)
(* Sleepers.  While a timer runs its bucket cannot come to a token, so     *)
(* nobody takes one there, and others that pay in before they sleep do not *)
(* change when the next one is due.                                        *)
(***************************************************************************)

Asleep(w, b) == at[w] = b /\ wake[w] > now

TimersSound ==
    \A w \in Workers, b \in Buckets :
        Asleep(w, b) => tokens[b] + (wake[w] - 1 - last[b]) * Rate(b) < One(b)

LEMMA AsleepNoToken ==
    ASSUME TypeOK, TimersSound, NEW w \in Workers, NEW b \in Buckets, Asleep(w, b)
    PROVE  Filled(b) < One(b)
<1>1. /\ wake[w] \in Int /\ now \in Nat /\ last[b] \in Nat /\ tokens[b] \in Nat
      /\ Rate(b) \in Nat /\ One(b) \in Nat
    BY BucketSizes DEF TypeOK
<1>2. tokens[b] + (wake[w] - 1 - last[b]) * Rate(b) < One(b)
    BY DEF TimersSound
<1>3. now - last[b] <= wake[w] - 1 - last[b]
    BY <1>1 DEF Asleep
<1>4. \A x, y \in Int, r \in Nat : x <= y => x * r <= y * r
    OBVIOUS
<1>5. (now - last[b]) * Rate(b) <= (wake[w] - 1 - last[b]) * Rate(b)
    BY <1>1, <1>3, <1>4
<1>6. (now - last[b]) * Rate(b) \in Int /\ (wake[w] - 1 - last[b]) * Rate(b) \in Int
    BY <1>1
<1>7. Filled(b) <= tokens[b] + (now - last[b]) * Rate(b) /\ Filled(b) \in Nat
    BY FilledRange
<1> QED
    BY <1>1, <1>2, <1>5, <1>6, <1>7

LEMMA TimersNext == TypeOK /\ TypeOK' /\ TimersSound /\ [LimiterNext]_limiterVars => TimersSound'
<1> SUFFICES ASSUME TypeOK, TypeOK', TimersSound, [LimiterNext]_limiterVars,
                    NEW u \in Workers, NEW c \in Buckets, Asleep(u, c)'
             PROVE  tokens'[c] + (wake'[u] - 1 - last'[c]) * Rate(c) < One(c)
    BY DEF TimersSound
<1>1. now \in Nat /\ wake[u] \in Int
    BY RatesAssumption DEF TypeOK
<1>2. CASE Asleep(u, c) /\ wake'[u] = wake[u] /\ tokens'[c] = tokens[c] /\ last'[c] = last[c]
    BY <1>2 DEF TimersSound
<1>3. ASSUME NEW w \in Workers, Call(w) PROVE Asleep(u, c) /\ UNCHANGED <<wake, tokens, last>>
    <2>1. u # w
        <3>1. at[w] = "outside" /\ wake' = wake /\ now' = now
            BY <1>3 DEF Call
        <3>2. wake[w] = Awake
            BY <3>1 DEF TypeOK
        <3> QED
            BY <1>1, <3>1, <3>2 DEF Asleep, Awake
    <2> QED
        BY <1>3, <2>1 DEF Call, Asleep, TypeOK
<1>4. ASSUME NEW w \in Workers, NEW b \in Buckets, Take(w, b)
      PROVE  Asleep(u, c) /\ wake'[u] = wake[u] /\ tokens'[c] = tokens[c] /\ last'[c] = last[c]
    <2>1. now' = now /\ wake' = [wake EXCEPT ![w] = Awake]
        BY <1>4 DEF Take
    <2>2. u # w
        BY <1>1, <2>1 DEF Asleep, Awake, TypeOK
    <2>3. wake'[u] = wake[u] /\ at'[u] = at[u]
        BY <1>4, <2>1, <2>2 DEF Take, TypeOK
    <2>4. Asleep(u, c)
        BY <2>1, <2>3 DEF Asleep
    <2>5. c # b
        <3>1. Filled(c) < One(c)
            BY <2>4, AsleepNoToken
        <3>2. Filled(b) >= One(b) /\ Filled(b) \in Nat /\ One(b) \in Nat
            BY <1>4, TakePays, FilledRange, BucketSizes
        <3> QED
            BY <3>1, <3>2
    <2> QED
        BY <1>4, <2>3, <2>4, <2>5, TakePays, FilledPaidIn
<1>5. ASSUME NEW w \in Workers, NEW b \in Buckets, Sleep(w, b)
      PROVE  tokens'[c] + (wake'[u] - 1 - last'[c]) * Rate(c) < One(c)
    <2>1. /\ now' = now /\ at' = at /\ wake' = [wake EXCEPT ![w] = now + TicksToToken(b)]
          /\ Filled(b) \in Nat /\ Filled(b) < One(b)
          /\ Filled(b) = tokens[b] + (now - last[b]) * Rate(b)
          /\ at[w] = b
        BY <1>5, SleepPays DEF Sleep, Trying
    <2>2. /\ tokens'[b] = Filled(b) /\ last'[b] = now
          /\ \A d \in Buckets : d # b => tokens'[d] = tokens[d] /\ last'[d] = last[d]
        BY <1>5, SleepPays, FilledPaidIn
    <2>3. CASE u = w
        <3>1. c = b
            BY <2>1, <2>3 DEF Asleep
        <3>2. wake'[u] = now + TicksToToken(b)
            BY <2>1, <2>3 DEF TypeOK
        <3>3. /\ TicksToToken(b) \in Nat
              /\ Filled(b) + (TicksToToken(b) - 1) * Rate(b) < One(b)
            BY <2>1, TimerSound
        <3>4. wake'[u] - 1 - last'[b] = TicksToToken(b) - 1
            BY <1>1, <2>2, <3>2, <3>3
        <3> QED
            BY <2>2, <3>1, <3>3, <3>4
    <2>4. CASE u # w
        <3>1. wake'[u] = wake[u] /\ Asleep(u, c)
            BY <2>1, <2>4 DEF Asleep, TypeOK
        <3>2. tokens[c] + (wake[u] - 1 - last[c]) * Rate(c) < One(c)
            BY <3>1 DEF TimersSound
        <3>3. CASE c # b
            BY <2>2, <3>1, <3>2, <3>3
        <3>4. CASE c = b
            <4>1. last[b] \in Nat /\ Rate(b) \in Nat /\ tokens[b] \in Nat
                BY BucketSizes DEF TypeOK
            <4>2. tokens[b] + (now - last[b]) * Rate(b) + (wake[u] - 1 - now) * Rate(b)
                    = tokens[b] + (wake[u] - 1 - last[b]) * Rate(b)
                BY <1>1, <4>1
            <4>3. tokens'[c] + (wake'[u] - 1 - last'[c]) * Rate(c) = Filled(b) + (wake[u] - 1 - now) * Rate(b)
                BY <2>2, <3>1, <3>4
            <4>4. Filled(b) + (wake[u] - 1 - now) * Rate(b) = tokens[b] + (wake[u] - 1 - last[b]) * Rate(b)
                BY <2>1, <4>2
            <4> QED
                BY <3>2, <3>4, <4>3, <4>4
        <3> QED
            BY <3>3, <3>4
    <2> QED
        BY <2>3, <2>4
<1>6. ASSUME NEW w \in Workers, GiveUp(w) PROVE Asleep(u, c) /\ wake'[u] = wake[u] /\ UNCHANGED <<tokens, last>>
    <2>1. now' = now /\ wake' = [wake EXCEPT ![w] = Awake] /\ UNCHANGED <<tokens, last>>
        BY <1>6 DEF GiveUp
    <2>2. u # w
        BY <1>1, <2>1 DEF Asleep, Awake, TypeOK
    <2> QED
        BY <1>6, <2>1, <2>2 DEF GiveUp, Asleep, TypeOK
<1>7. ASSUME Cancel \/ Tick \/ UNCHANGED limiterVars PROVE Asleep(u, c) /\ UNCHANGED <<wake, tokens, last>>
    <2>1. UNCHANGED <<wake, tokens, last, at>> /\ now <= now'
        BY <1>1, <1>7 DEF Cancel, Tick, limiterVars
    <2>2. now' \in Nat
        BY RatesAssumption DEF TypeOK
    <2> QED
        BY <1>1, <2>1, <2>2 DEF Asleep
<1> QED
    BY <1>2, <1>3, <1>4, <1>5, <1>6, <1>7 DEF LimiterNext

\* While a worker's timer runs its bucket has no token for it, whoever came and
\* went in the meantime.
THEOREM NobodyOversleeps == LimiterSpec => []SleepersMissNothing
<1>1. LimiterInit => TypeOK /\ TimersSound
    <2> SUFFICES ASSUME LimiterInit PROVE TypeOK /\ TimersSound
        OBVIOUS
    <2>1. \A w \in Workers, b \in Buckets : ~Asleep(w, b)
        BY DEF LimiterInit, Asleep, Awake
    <2> QED
        BY <2>1, InitType DEF TimersSound
<1>2. TypeOK /\ TimersSound => SleepersMissNothing
    <2> SUFFICES ASSUME TypeOK, TimersSound, NEW w \in Workers, at[w] # "outside", wake[w] > now
                 PROVE  Filled(at[w]) < One(at[w])
        BY DEF SleepersMissNothing
    <2>1. PICK b \in Buckets : at[w] = b
        BY DEF TypeOK
    <2> QED
        BY <2>1, AsleepNoToken DEF Asleep
<1> QED
    BY <1>1, <1>2, StepType, TimersNext, PTL DEF LimiterSpec

-----------------------------------------------------------------------------
(***************************************************************************)
(* Windows.  From the beginning of any tick on, what was granted and what  *)
(* the bucket still holds come from the full bucket it can have been then  *)
(* and from the ticks since.  A worker that waits for the minute's bucket  *)
(* has its second's token, from this window or from before it.             *)
(***************************************************************************)

Holding == {w \in Workers : at[w] = "perMinute"}

\* The invariant of a bucket that has let g through in d ticks.
Paid(b, g, d) == g * One(b) + Filled(b) <= Capacity(b) + d * Rate(b)

MinuteBounded == \A i \in 0..now : Paid("perMinute", granted - before[i], now - i)

SecondBounded ==
    \A i \in 0..now :
        Paid("perSecond", granted - before[i] + Cardinality(Holding) - Cardinality(Workers), now - i)

Windowed(g, i, j) ==
    /\ g * One("perMinute") <= Capacity("perMinute") + (j - i) * PerMin
    /\ (g - Cardinality(Workers)) * Second <= Capacity("perSecond") + (j - i) * PerSec

\* The ticks that are over.
PastBounded == \A j \in 0..now : j < now => \A i \in 0..j : Windowed(before[j + 1] - before[i], i, j)

\* What happens to Paid with each step of the bucket.
LEMMA PaidTake ==
    ASSUME NEW b \in Buckets, NEW g \in Int, NEW d \in Int, Paid(b, g, d),
           Filled(b) \in Nat, Filled(b)' = Filled(b) - One(b)
    PROVE  Paid(b, g + 1, d)'
<1>1. One(b) \in Nat /\ (g + 1) * One(b) = g * One(b) + One(b) /\ g * One(b) \in Int
    BY BucketSizes
<1>2. Capacity(b) \in Nat /\ d * Rate(b) \in Int
    BY BucketSizes
<1>3. g * One(b) + Filled(b) <= Capacity(b) + d * Rate(b)
    BY DEF Paid
<1>4. (g + 1) * One(b) + Filled(b)' <= Capacity(b) + d * Rate(b)
    BY <1>1, <1>2, <1>3
<1> QED
    BY <1>4 DEF Paid

LEMMA PaidLess ==
    ASSUME NEW b \in Buckets, NEW g \in Int, NEW h \in Int, h <= g, NEW d \in Int, Paid(b, g, d),
           Filled(b) \in Nat, Filled(b)' = Filled(b)
    PROVE  Paid(b, h, d)'
<1>1. One(b) \in Nat /\ h * One(b) <= g * One(b)
    <2>1. \A x, y \in Int, o \in Nat : x <= y => x * o <= y * o
        OBVIOUS
    <2> QED
        BY <2>1, BucketSizes
<1>2. g * One(b) \in Int /\ h * One(b) \in Int /\ Capacity(b) \in Nat /\ d * Rate(b) \in Int
    BY BucketSizes
<1>3. g * One(b) + Filled(b) <= Capacity(b) + d * Rate(b)
    BY DEF Paid
<1>4. h * One(b) + Filled(b)' <= Capacity(b) + d * Rate(b)
    BY <1>1, <1>2, <1>3
<1> QED
    BY <1>4 DEF Paid

LEMMA PaidTick ==
    ASSUME NEW b \in Buckets, NEW g \in Int, NEW d \in Int, Paid(b, g, d),
           Filled(b) \in Nat, Filled(b)' \in Nat, Filled(b)' <= Filled(b) + Rate(b)
    PROVE  Paid(b, g, d + 1)'
<1>1. Rate(b) \in Nat /\ (d + 1) * Rate(b) = d * Rate(b) + Rate(b) /\ d * Rate(b) \in Int
    BY BucketSizes
<1>2. Capacity(b) \in Nat /\ g * One(b) \in Int
    BY BucketSizes
<1>3. g * One(b) + Filled(b) <= Capacity(b) + d * Rate(b)
    BY DEF Paid
<1>4. g * One(b) + Filled(b)' <= Capacity(b) + (d + 1) * Rate(b)
    BY <1>1, <1>2, <1>3
<1> QED
    BY <1>4 DEF Paid

\* A window that begins now has nothing yet, and a bucket that may be full.
LEMMA PaidNow ==
    ASSUME NEW b \in Buckets, NEW g \in Int, g <= 0, Filled(b) \in Nat, Filled(b) <= Capacity(b)
    PROVE  Paid(b, g, 0)
<1>1. One(b) \in Nat /\ Capacity(b) \in Nat /\ Rate(b) \in Nat /\ 0 * Rate(b) = 0
    BY BucketSizes
<1>2. g * One(b) <= 0
    BY <1>1
<1> QED
    BY <1>1, <1>2 DEF Paid

\* The same of a window that begins with the next tick.
LEMMA PaidStarts ==
    ASSUME NEW b \in Buckets, NEW g \in Int, g <= 0, Filled(b)' \in Nat, Filled(b)' <= Capacity(b)
    PROVE  Paid(b, g, 0)'
<1>1. One(b) \in Nat /\ Capacity(b) \in Nat /\ Rate(b) \in Nat /\ 0 * Rate(b) = 0
    BY BucketSizes
<1>2. g * One(b) <= 0
    BY <1>1
<1>3. g * One(b) + Filled(b)' <= Capacity(b) + 0 * Rate(b)
    BY <1>1, <1>2
<1> QED
    BY <1>3 DEF Paid

LEMMA PaidBounds ==
    ASSUME NEW b \in Buckets, NEW g \in Int, NEW d \in Int, Paid(b, g, d), Filled(b) \in Nat
    PROVE  g * One(b) <= Capacity(b) + d * Rate(b)
<1>1. g * One(b) \in Int /\ Capacity(b) \in Nat /\ d * Rate(b) \in Int
    BY BucketSizes
<1> QED
    BY <1>1 DEF Paid

LEMMA HoldingSizes ==
    /\ IsFiniteSet(Holding) /\ Cardinality(Holding) \in Nat
    /\ Cardinality(Workers) \in Nat /\ Cardinality(Holding) <= Cardinality(Workers)
BY RatesAssumption, FS_Subset, FS_CardinalityType DEF Holding

Windows == MinuteBounded /\ SecondBounded /\ PastBounded

LEMMA WindowsTake ==
    ASSUME TypeOK, Windows, NEW w \in Workers, NEW b \in Buckets, Take(w, b)
    PROVE  Windows'
<1>1. /\ now' = now /\ before' = before /\ now \in Nat /\ granted \in Nat
      /\ \A i \in 0..now : before[i] \in Nat
    BY RatesAssumption DEF Take, TypeOK
<1>2. /\ Filled(b) \in Nat /\ Filled(b)' = Filled(b) - One(b)
      /\ \A c \in Buckets : c # b => Filled(c)' = Filled(c) /\ Filled(c) \in Nat
    BY TakePays, FilledPaidIn, FilledRange
<1>3. PastBounded'
    BY <1>1 DEF Windows, PastBounded, Windowed
<1>4. CASE b = "perSecond"
    <2>1. granted' = granted /\ Holding' = Holding \cup {w} /\ w \notin Holding
        BY <1>4 DEF Take, Trying, TypeOK, Holding, Buckets
    <2>2. Cardinality(Holding)' = Cardinality(Holding) + 1
        BY <2>1, HoldingSizes, FS_AddElement
    <2>3. ASSUME NEW i \in 0..now PROVE Paid("perMinute", granted - before[i], now - i)'
        <3>1. PICK g \in Int, d \in Int : g = granted - before[i] /\ d = now - i
            BY <1>1
        <3>2. Paid("perMinute", g, d)'
            BY <1>2, <1>4, <2>3, <3>1, PaidLess DEF Windows, MinuteBounded, Buckets
        <3> QED
            BY <1>1, <2>1, <3>1, <3>2 DEF Paid
    <2>4. ASSUME NEW i \in 0..now
          PROVE  Paid("perSecond", granted - before[i] + Cardinality(Holding) - Cardinality(Workers), now - i)'
        <3>1. PICK g \in Int, d \in Int :
                  g = granted - before[i] + Cardinality(Holding) - Cardinality(Workers) /\ d = now - i
            BY <1>1, HoldingSizes
        <3>2. Paid("perSecond", g + 1, d)'
            BY <1>2, <1>4, <2>4, <3>1, PaidTake DEF Windows, SecondBounded, Buckets
        <3>3. granted' - before'[i] + Cardinality(Holding)' - Cardinality(Workers) = g + 1
            BY <1>1, <2>1, <2>2, <3>1, HoldingSizes
        <3> QED
            BY <1>1, <3>1, <3>2, <3>3 DEF Paid
    <2> QED
        BY <1>1, <1>3, <2>3, <2>4 DEF Windows, MinuteBounded, SecondBounded
<1>5. CASE b = "perMinute"
    <2>1. granted' = granted + 1 /\ Holding' = Holding \ {w} /\ w \in Holding
        BY <1>5 DEF Take, Trying, TypeOK, Holding, Buckets
    <2>2. Cardinality(Holding)' = Cardinality(Holding) - 1
        BY <2>1, HoldingSizes, FS_RemoveElement
    <2>3. ASSUME NEW i \in 0..now PROVE Paid("perMinute", granted - before[i], now - i)'
        <3>1. PICK g \in Int, d \in Int : g = granted - before[i] /\ d = now - i
            BY <1>1
        <3>2. Paid("perMinute", g + 1, d)'
            BY <1>2, <1>5, <2>3, <3>1, PaidTake DEF Windows, MinuteBounded, Buckets
        <3>3. granted' - before'[i] = g + 1
            BY <1>1, <2>1, <3>1
        <3> QED
            BY <1>1, <3>1, <3>2, <3>3 DEF Paid
    <2>4. ASSUME NEW i \in 0..now
          PROVE  Paid("perSecond", granted - before[i] + Cardinality(Holding) - Cardinality(Workers), now - i)'
        <3>1. PICK g \in Int, d \in Int :
                  g = granted - before[i] + Cardinality(Holding) - Cardinality(Workers) /\ d = now - i
            BY <1>1, HoldingSizes
        <3>2. Paid("perSecond", g, d)'
            BY <1>2, <1>5, <2>4, <3>1, PaidLess DEF Windows, SecondBounded, Buckets
        <3>3. granted' - before'[i] + Cardinality(Holding)' - Cardinality(Workers) = g
            BY <1>1, <2>1, <2>2, <3>1, HoldingSizes
        <3> QED
            BY <1>1, <3>1, <3>2, <3>3 DEF Paid
    <2> QED
        BY <1>1, <1>3, <2>3, <2>4 DEF Windows, MinuteBounded, SecondBounded
<1> QED
    BY <1>4, <1>5 DEF Buckets

\* Steps that take no token and no time.
LEMMA WindowsStill ==
    ASSUME TypeOK, Windows, now' = now, before' = before, granted' = granted, Holding' \subseteq Holding,
           \A c \in Buckets : Filled(c)' = Filled(c)
    PROVE  Windows'
<1>1. now \in Nat /\ granted \in Nat /\ \A i \in 0..now : before[i] \in Nat
    BY RatesAssumption DEF TypeOK
<1>2. Cardinality(Holding)' <= Cardinality(Holding) /\ Cardinality(Holding)' \in Nat
    BY HoldingSizes, FS_Subset, FS_CardinalityType
<1>3. \A c \in Buckets : Filled(c) \in Nat
    BY FilledRange
<1>4. PastBounded'
    BY DEF Windows, PastBounded, Windowed
<1>5. ASSUME NEW i \in 0..now PROVE Paid("perMinute", granted - before[i], now - i)'
    <2>1. PICK g \in Int, d \in Int : g = granted - before[i] /\ d = now - i
        BY <1>1
    <2>2. Paid("perMinute", g, d)'
        BY <1>3, <1>5, <2>1, PaidLess DEF Windows, MinuteBounded, Buckets
    <2> QED
        BY <2>1, <2>2 DEF Paid
<1>6. ASSUME NEW i \in 0..now
      PROVE  Paid("perSecond", granted - before[i] + Cardinality(Holding) - Cardinality(Workers), now - i)'
    <2>1. PICK g \in Int, d \in Int :
              g = granted - before[i] + Cardinality(Holding) - Cardinality(Workers) /\ d = now - i
        BY <1>1, HoldingSizes
    <2>2. PICK h \in Int : h = granted - before[i] + Cardinality(Holding)' - Cardinality(Workers)
        BY <1>1, <1>2, HoldingSizes
    <2>3. h <= g
        BY <1>1, <1>2, <2>1, <2>2, HoldingSizes
    <2>4. Paid("perSecond", h, d)'
        BY <1>3, <1>6, <2>1, <2>3, PaidLess DEF Windows, SecondBounded, Buckets
    <2> QED
        BY <2>1, <2>2, <2>4 DEF Paid
<1> QED
    BY <1>4, <1>5, <1>6 DEF Windows, MinuteBounded, SecondBounded

\* The window that ends now is bounded, whenever it began.
LEMMA WindowsNow ==
    ASSUME TypeOK, MinuteBounded, SecondBounded, NEW i \in 0..now
    PROVE  Windowed(granted - before[i], i, now)
<1>1. now \in Nat /\ granted \in Nat /\ before[i] \in Nat /\ i \in Nat
    BY RatesAssumption DEF TypeOK
<1>2. PICK g \in Int, d \in Int : g = granted - before[i] /\ d = now - i
    BY <1>1
<1>3. g * One("perMinute") <= Capacity("perMinute") + d * PerMin
    <2>1. Paid("perMinute", g, d)
        BY <1>2 DEF MinuteBounded
    <2>2. Rate("perMinute") = PerMin
        BY DEF Rate
    <2> QED
        BY <2>1, <2>2, FilledRange, PaidBounds DEF Buckets
<1>4. (g - Cardinality(Workers)) * Second <= Capacity("perSecond") + d * PerSec
    <2>1. PICK h \in Int : h = g + Cardinality(Holding) - Cardinality(Workers)
        BY HoldingSizes
    <2>2. Paid("perSecond", h, d)
        BY <1>2, <2>1 DEF SecondBounded
    <2>3. Rate("perSecond") = PerSec /\ One("perSecond") = Second /\ Second \in Nat
        BY RatesAssumption DEF Rate, One
    <2>4. h * Second <= Capacity("perSecond") + d * PerSec
        BY <2>2, <2>3, FilledRange, PaidBounds DEF Buckets
    <2>5. g - Cardinality(Workers) <= h /\ g - Cardinality(Workers) \in Int
        BY <2>1, HoldingSizes
    <2>6. \A x, y \in Int, o \in Nat : x <= y => x * o <= y * o
        OBVIOUS
    <2>7. (g - Cardinality(Workers)) * Second <= h * Second
        BY <2>3, <2>5, <2>6
    <2>8. /\ Capacity("perSecond") \in Nat /\ PerSec \in Nat /\ d * PerSec \in Int
          /\ h * Second \in Int /\ (g - Cardinality(Workers)) * Second \in Int
        BY <2>3, <2>5, BucketSizes, RatesAssumption DEF Buckets
    <2> QED
        BY <2>4, <2>7, <2>8
<1> QED
    BY <1>2, <1>3, <1>4 DEF Windowed

\* A tick brings every bucket its rate, closes the windows that end with it, and
\* begins one.
LEMMA WindowsTick ==
    ASSUME TypeOK, TypeOK', Windows, Tick
    PROVE  Windows'
<1>1. /\ now' = now + 1 /\ now \in Nat /\ now + 1 \in 0..Horizon
      /\ granted' = granted /\ granted \in Nat /\ Holding' = Holding
      /\ UNCHANGED <<tokens, last>>
    BY RatesAssumption DEF Tick, TypeOK, Holding
<1>2. /\ before'[now + 1] = granted
      /\ \A i \in 0..now : before'[i] = before[i] /\ before[i] \in Nat
    <2>1. before' = [before EXCEPT ![now + 1] = granted]
        BY <1>1 DEF Tick
    <2>2. \A i \in 0..now : i \in 0..Horizon /\ i # now + 1
        BY <1>1, RatesAssumption
    <2> QED
        BY <1>1, <2>1, <2>2 DEF TypeOK
<1>3. \A c \in Buckets : /\ Filled(c) \in Nat /\ Filled(c)' \in Nat /\ Filled(c)' <= Filled(c) + Rate(c)
                         /\ Filled(c)' <= Capacity(c)
    <2>1. ASSUME NEW c \in Buckets PROVE Filled(c) \in Nat /\ Filled(c)' <= Filled(c) + Rate(c)
        BY <1>1, FilledRange, FilledTick
    <2>2. ASSUME NEW c \in Buckets PROVE Filled(c)' \in Nat /\ Filled(c)' <= Capacity(c)
        BY FilledAfter DEF FilledOK
    <2> QED
        BY <2>1, <2>2
<1>4. ASSUME NEW i \in 0..now' PROVE Paid("perMinute", granted - before[i], now - i)'
    <2>1. CASE i = now + 1
        <3>1. granted' - before'[i] = 0 /\ now' - i = 0
            BY <1>1, <1>2, <2>1
        <3>2. Paid("perMinute", 0, 0)'
            BY <1>3, PaidStarts DEF Buckets
        <3> QED
            BY <3>1, <3>2 DEF Paid
    <2>2. CASE i \in 0..now
        <3>1. PICK g \in Int, d \in Int : g = granted - before[i] /\ d = now - i
            BY <1>1, <1>2, <2>2
        <3>2. Paid("perMinute", g, d + 1)'
            BY <1>3, <2>2, <3>1, PaidTick DEF Windows, MinuteBounded, Buckets
        <3>3. granted' - before'[i] = g /\ now' - i = d + 1
            BY <1>1, <1>2, <2>2, <3>1
        <3> QED
            BY <3>2, <3>3 DEF Paid
    <2> QED
        BY <1>1, <1>4, <2>1, <2>2
<1>5. ASSUME NEW i \in 0..now'
      PROVE  Paid("perSecond", granted - before[i] + Cardinality(Holding) - Cardinality(Workers), now - i)'
    <2>1. CASE i = now + 1
        <3>1. PICK g \in Int : g = Cardinality(Holding) - Cardinality(Workers)
            BY HoldingSizes
        <3>2. g <= 0
            BY <3>1, HoldingSizes
        <3>3. granted' - before'[i] + Cardinality(Holding)' - Cardinality(Workers) = g /\ now' - i = 0
            BY <1>1, <1>2, <2>1, <3>1, HoldingSizes
        <3>4. Paid("perSecond", g, 0)'
            BY <1>3, <3>2, PaidStarts DEF Buckets
        <3> QED
            BY <3>3, <3>4 DEF Paid
    <2>2. CASE i \in 0..now
        <3>1. PICK g \in Int, d \in Int :
                  g = granted - before[i] + Cardinality(Holding) - Cardinality(Workers) /\ d = now - i
            BY <1>1, <1>2, <2>2, HoldingSizes
        <3>2. Paid("perSecond", g, d + 1)'
            BY <1>3, <2>2, <3>1, PaidTick DEF Windows, SecondBounded, Buckets
        <3>3. granted' - before'[i] + Cardinality(Holding)' - Cardinality(Workers) = g /\ now' - i = d + 1
            BY <1>1, <1>2, <2>2, <3>1
        <3> QED
            BY <3>2, <3>3 DEF Paid
    <2> QED
        BY <1>1, <1>5, <2>1, <2>2
<1>6. ASSUME NEW j \in 0..now', j < now', NEW i \in 0..j
      PROVE  Windowed(before'[j + 1] - before'[i], i, j)
    <2>1. CASE j = now
        <3>1. Windowed(granted - before[i], i, now)
            BY <1>1, <2>1, WindowsNow DEF Windows
        <3> QED
            BY <1>1, <1>2, <2>1, <3>1
    <2>2. CASE j < now
        <3>1. Windowed(before[j + 1] - before[i], i, j)
            BY <1>1, <2>2 DEF Windows, PastBounded
        <3>2. j + 1 \in 0..now /\ i \in 0..now
            BY <1>1, <2>2
        <3> QED
            BY <1>2, <3>1, <3>2
    <2> QED
        BY <1>1, <1>6, <2>1, <2>2
<1>7. MinuteBounded' /\ SecondBounded'
    BY <1>4, <1>5 DEF MinuteBounded, SecondBounded
<1>8. PastBounded'
    BY <1>6 DEF PastBounded, Windowed
<1> QED
    BY <1>7, <1>8 DEF Windows

LEMMA InitWindows == LimiterInit => Windows
<1> SUFFICES ASSUME LimiterInit PROVE Windows
    OBVIOUS
<1>1. TypeOK
    BY InitType
<1>2. now = 0 /\ granted = 0 /\ before[0] = 0 /\ Holding = {}
    BY RatesAssumption DEF LimiterInit, Holding
<1>3. PICK g \in Int : g = 0 - Cardinality(Workers)
    BY HoldingSizes
<1>4. g <= 0 /\ granted - before[0] + Cardinality(Holding) - Cardinality(Workers) = g
    BY <1>2, <1>3, HoldingSizes, FS_EmptySet
<1>5. Paid("perMinute", 0, 0) /\ Paid("perSecond", g, 0)
    BY <1>1, <1>4, FilledRange, PaidNow DEF Buckets
<1>6. \A i \in 0..now : i = 0
    BY <1>2
<1>7. granted - before[0] = 0 /\ now - 0 = 0
    BY <1>2
<1>8. MinuteBounded /\ SecondBounded
    BY <1>2, <1>4, <1>5, <1>6, <1>7 DEF MinuteBounded, SecondBounded
<1>9. PastBounded
    BY <1>2 DEF PastBounded
<1> QED
    BY <1>8, <1>9 DEF Windows

LEMMA WindowsNext == TypeOK /\ TypeOK' /\ Windows /\ [LimiterNext]_limiterVars => Windows'
<1> SUFFICES ASSUME TypeOK, TypeOK', Windows, [LimiterNext]_limiterVars PROVE Windows'
    OBVIOUS
<1>1. ASSUME NEW w \in Workers, Call(w) PROVE Windows'
    <2>1. Holding' \subseteq Holding
        BY <1>1 DEF Call, Holding, TypeOK
    <2> QED
        BY <1>1, <2>1, WindowsStill DEF Call, Filled
<1>2. ASSUME NEW w \in Workers, NEW b \in Buckets, Sleep(w, b) PROVE Windows'
    <2>1. \A c \in Buckets : Filled(c)' = Filled(c)
        BY <1>2, SleepPays, FilledPaidIn
    <2>2. UNCHANGED <<now, before, granted, at>>
        BY <1>2 DEF Sleep
    <2> QED
        BY <2>1, <2>2, WindowsStill DEF Holding
<1>3. ASSUME NEW w \in Workers, GiveUp(w) PROVE Windows'
    <2>1. Holding' \subseteq Holding
        BY <1>3 DEF GiveUp, Holding, TypeOK
    <2> QED
        BY <1>3, <2>1, WindowsStill DEF GiveUp, Filled
<1>4. CASE Cancel \/ UNCHANGED limiterVars
    BY <1>4, WindowsStill DEF Cancel, limiterVars, Filled, Holding
<1> QED
    BY <1>1, <1>2, <1>3, <1>4, WindowsTake, WindowsTick DEF LimiterNext

\* In any window, whoever waits and gives up, no more calls leave Wait than both
\* buckets allow, and one more per worker for the per-second one.
THEOREM WindowsAreBounded == LimiterSpec => []WindowBounded
<1>1. TypeOK /\ Windows => WindowBounded
    <2> SUFFICES ASSUME TypeOK, Windows, NEW i \in 0..now, NEW j \in 0..now, i <= j
                 PROVE  Windowed(Granted(i, j), i, j)
        BY DEF WindowBounded, Windowed
    <2>1. CASE j = now
        BY <2>1, WindowsNow DEF Windows, Granted
    <2>2. CASE j # now
        <3>1. j < now /\ i \in 0..j
            BY <2>2, RatesAssumption DEF TypeOK
        <3> QED
            BY <2>2, <3>1 DEF Windows, PastBounded, Granted
    <2> QED
        BY <2>1, <2>2
<1>2. LimiterInit => TypeOK /\ Windows
    BY InitType, InitWindows
<1> QED
    BY <1>1, <1>2, StepType, WindowsNext, PTL DEF LimiterSpec
=============================================================================
