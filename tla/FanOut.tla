------------------------------- MODULE FanOut -------------------------------
(***************************************************************************)
(* Pipeline.runPool (internal/pipeline/pipeline.go) over the client: one   *)
(* item at a time until the client has seen a balance, then a goroutine    *)
(* per item behind a semaphore, with the cancellation and the final wait.  *)
(* An item's fn makes its calls one after the other, whatever each returns *)
(* (the token stage makes two).                                            *)
(***************************************************************************)
EXTENDS Client, Sequences

CONSTANTS Plan  \* for each item, in order, the calls its fn makes

ASSUME PlanAssumption == Plan \in Seq(Seq(Calls))

VARIABLES
    stage, \* "serial", "dispatch", "wait", "returned"
    taken, \* items begun: Plan[1] .. Plan[taken]
    item,  \* the item each worker runs, 0 for none
    asked  \* how many of its item's calls the worker has made

pool    == <<stage, taken, item, asked>>
allVars == <<vars, pool>>

Running == {w \in Workers : item[w] # 0}

PoolInit ==
    /\ Init
    /\ stage = "serial"
    /\ taken = 0
    /\ item = [w \in Workers |-> 0]
    /\ asked = [w \in Workers |-> 0]

Take(w) ==
    /\ taken < Len(Plan)
    /\ taken' = taken + 1
    /\ item' = [item EXCEPT ![w] = taken + 1]
    /\ asked' = [asked EXCEPT ![w] = 0]
    /\ UNCHANGED <<vars, stage>>

\* Mutant: no serial start.
BlindNever(credits) == FALSE

Blind(credits) == credits = Unknown

\* The loop in front: the calling goroutine runs the item itself.
RunSerially(w) ==
    /\ stage = "serial"
    /\ Running = {}
    /\ Blind(creditsRemaining)
    /\ ~cancelled
    /\ Take(w)

LeaveSerial ==
    /\ stage = "serial"
    /\ Running = {}
    /\ IF taken < Len(Plan) /\ Blind(creditsRemaining)
       THEN cancelled /\ stage' = "returned"
       ELSE stage' = "dispatch"
    /\ UNCHANGED <<vars, taken, item, asked>>

FreeSlot(w) == item[w] = 0

\* The select takes a slot, or sees the context done when it is; both at once
\* is a coin toss, so a cancelled run may still dispatch.
Dispatch(w) ==
    /\ stage = "dispatch"
    /\ FreeSlot(w)
    /\ Take(w)

StopDispatch ==
    /\ stage = "dispatch"
    /\ taken = Len(Plan) \/ cancelled
    /\ stage' = "wait"
    /\ UNCHANGED <<vars, taken, item, asked>>

\* Mutant: no wg.Wait.
MayReturnAtOnce == TRUE

MayReturn == Running = {}

WaitDone ==
    /\ stage = "wait"
    /\ MayReturn
    /\ stage' = "returned"
    /\ UNCHANGED <<vars, taken, item, asked>>

\* fn makes its next call.
Ask(w) ==
    /\ item[w] # 0
    /\ asked[w] < Len(Plan[item[w]])
    /\ LET c == Plan[item[w]][asked[w] + 1] IN
         CacheHit(w, c) \/ RefuseOffline(w, c) \/ RefuseExpensive(w, c) \/ Miss(w, c)
    /\ asked' = [asked EXCEPT ![w] = @ + 1]
    /\ UNCHANGED <<stage, taken, item>>

FnReturned(w) == pc[w] = "idle" /\ asked[w] = Len(Plan[item[w]])

\* fn returns and the goroutine gives its slot back.
FinishItem(w) ==
    /\ item[w] # 0
    /\ FnReturned(w)
    /\ item' = [item EXCEPT ![w] = 0]
    /\ UNCHANGED <<vars, stage, taken, asked>>

InDo(w)   == Continue(w) /\ UNCHANGED pool
OnWire(w) == Serve(w) /\ UNCHANGED pool

Cancel == Interrupt /\ UNCHANGED pool

Returned == stage = "returned" /\ UNCHANGED allVars

PoolNext ==
    \/ \E w \in Workers : \/ RunSerially(w) \/ Dispatch(w)
                          \/ Ask(w) \/ FinishItem(w) \/ InDo(w) \/ OnWire(w)
    \/ LeaveSerial \/ StopDispatch \/ WaitDone
    \/ Cancel
    \/ Returned

PoolSpec == PoolInit /\ [][PoolNext]_allVars

\* Goroutines are scheduled, and Do's round trips end (see Client).
PoolFairness ==
    /\ \A w \in Workers : /\ WF_allVars(InDo(w)) /\ WF_allVars(OnWire(w))
                          /\ WF_allVars(Ask(w)) /\ WF_allVars(FinishItem(w))
    /\ WF_allVars(\E w \in Workers : RunSerially(w) \/ Dispatch(w))
    /\ WF_allVars(LeaveSerial \/ StopDispatch \/ WaitDone)

FairPoolSpec == PoolSpec /\ PoolFairness

-----------------------------------------------------------------------------
(* Properties.                                                             *)

\* runPool implements ForEach: no item twice, no more than Concurrency at once,
\* none left running when it returns, none left out of a run nobody cancelled.
Promise == INSTANCE ForEach WITH
    Items    <- 1..Len(Plan),
    Limit    <- Cardinality(Workers),
    waiting  <- (taken + 1)..Len(Plan),
    running  <- {item[w] : w \in Running},
    stopped  <- cancelled,
    returned <- stage = "returned"

ImplementsForEach == Promise!Spec

\* The reason for the serial start: no two calls that the budget guard waved
\* through for want of a balance are ever in flight together.
OneBlindInFlight ==
    Cardinality({w \in Workers : pc[w] \in {"attempt", "wire", "reply"} /\ ~reserved[w]}) <= 1

\* "At most one call is ever blind": while the client knows no balance, at most
\* one call has been charged.
BlindSpendsOnce ==
    creditsRemaining = Unknown => Cardinality({c \in Calls : charges[c] > 0}) <= 1

\* runPool returns, cancelled or not.
PoolReturns == <>(stage = "returned")
=============================================================================
