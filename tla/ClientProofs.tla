---------------------------- MODULE ClientProofs ----------------------------
(***************************************************************************)
(* What holds of Client for every set of workers and calls, every floor,   *)
(* retry count, account and choice of faults, and then of FanOut, which    *)
(* runs Client from the slots of a pool.                                   *)
(***************************************************************************)
EXTENDS FanOut, SetProofs

\* Every action, split by what it does to the worker that takes it.
LEMMA NextCases ==
    ASSUME Next
    PROVE  \/ \E w \in Workers, c \in Calls : CacheHit(w, c)
           \/ \E w \in Workers, c \in Calls : RefuseOffline(w, c)
           \/ \E w \in Workers, c \in Calls : RefuseExpensive(w, c)
           \/ \E w \in Workers, c \in Calls : Miss(w, c)
           \/ \E w \in Workers : ReserveBlind(w)
           \/ \E w \in Workers : ReserveCredits(w)
           \/ \E w \in Workers : RefuseFloor(w)
           \/ \E w \in Workers : Send(w)
           \/ \E w \in Workers : Abandon(w)
           \/ \E w \in Workers : Charge(w)
           \/ \E w \in Workers : Reject(w)
           \/ \E w \in Workers : NetFail(w)
           \/ \E w \in Workers : HandleResponse(w)
           \/ \E w \in Workers : WriteReceipt(w)
           \/ \E w \in Workers : Store(w)
           \/ \E w \in Workers : FailDo(w)
           \/ Interrupt
           \/ Restart
           \/ Finished
BY DEF Next, Begin, Continue, Serve

LEMMA ReplyType ==
    /\ NoReply \in Replies
    /\ \A kind \in ReplyKinds, remaining \in Nat \cup {Unknown} : 
          Reply(kind, remaining) \in Replies /\ Reply(kind, remaining).kind = kind
    /\ \A r \in Replies : r.kind \in ReplyKinds /\ r.remaining \in Nat \cup {Unknown}
BY DEF NoReply, Reply, Replies, ReplyKinds

(***************************************************************************)
(* Type correctness.  Beyond the types it says that the arithmetic of the  *)
(* budget never produces a negative balance, which the code would take for *)
(* "unknown" and wave every call through.                                  *)
(***************************************************************************)

LEMMA TypeInit == Init => TypeOK
<1> SUFFICES ASSUME Init PROVE TypeOK
  OBVIOUS
<1> USE ConstantsAssumption DEF Init
<1>1. creditsRemaining \in Nat \cup {Unknown} /\ cache \subseteq Calls /\ mode \in Modes /\ cancelled \in BOOLEAN
  BY DEF StartingCredits
<1>2. /\ balance \in Nat /\ charges \in [Calls -> Nat] /\ receipts \in [Calls -> Nat]
      /\ runs \in 1..MaxRuns /\ outcome \in [Calls -> Outcomes]
  BY DEF Outcomes
<1>3. LocalsOK
  BY ReplyType DEF LocalsOK, Labels, Statuses
<1> QED
  BY <1>1, <1>2, <1>3 DEF TypeOK

LEMMA GotoType ==
    ASSUME LocalsOK, NEW w \in Workers, NEW label \in Labels, Goto(w, label),
           UNCHANGED <<attempt, reply>>, entry' \in [Workers -> Statuses],
           reserved' \in [Workers -> BOOLEAN], label # "reply",
           \/ UNCHANGED call /\ pc[w] # "idle"
           \/ \E c \in Calls : call' = [call EXCEPT ![w] = c]
    PROVE  LocalsOK'
BY DEF LocalsOK, Goto, Labels

LEMMA AnswerType ==
    ASSUME LocalsOK, NEW w \in Workers, pc[w] # "idle",
           NEW kind \in ReplyKinds \ {"none"}, NEW remaining \in Nat \cup {Unknown},
           Answer(w, Reply(kind, remaining))
    PROVE  LocalsOK'
<1> DEFINE r == Reply(kind, remaining)
<1>1. r \in Replies /\ r.kind # "none"
  BY ReplyType
<1> HIDE DEF r
<1>2. Answer(w, r)
  BY DEF r
<1> QED
  BY <1>1, <1>2 DEF LocalsOK, Answer, Goto, Labels

LEMMA ReturnType ==
    ASSUME LocalsOK, NEW w \in Workers, NEW result, Return(w, result)
    PROVE  LocalsOK'
<1> DEFINE r == NoReply
<1>1. r \in Replies
  BY ReplyType
<1> HIDE DEF r
<1>2. reply' = [reply EXCEPT ![w] = r]
  BY DEF Return, r
<1> QED
  BY <1>1, <1>2, ConstantsAssumption DEF LocalsOK, Return, Goto, Labels, Statuses

LEMMA ReceiptType ==
    ASSUME receipts \in [Calls -> Nat], NEW w \in Workers, call[w] \in Calls, LogAttempt(w)
    PROVE  receipts' \in [Calls -> Nat]
<1> DEFINE one == IF entry[w] = "200" THEN 1 ELSE 0
<1>1. one \in Nat
  OBVIOUS
<1>2. receipts' = [receipts EXCEPT ![call[w]] = @ + one]
  BY DEF LogAttempt
<1> HIDE DEF one
<1> QED
  BY <1>1, <1>2

LEMMA HandleType ==
    ASSUME LocalsOK, NEW w \in Workers, HandleResponse(w)
    PROVE  LocalsOK'
<1> DEFINE r == NoReply
<1>0. r \in Replies
  BY ReplyType
<1> HIDE DEF r
<1>1. reply[w].kind \in ReplyKinds \ {"none"}
  BY ReplyType DEF HandleResponse, LocalsOK
<1>2. StatusOf(reply[w]) \in Statuses
  BY <1>1 DEF StatusOf, Is200, ReplyKinds, Statuses
<1>3. entry' \in [Workers -> Statuses]
  BY <1>2 DEF HandleResponse, LocalsOK
<1>4. CASE /\ AttemptsLeft(attempt[w])
           /\ attempt' = [attempt EXCEPT ![w] = NextAttempt(@)]
           /\ reply' = [reply EXCEPT ![w] = NoReply]
           /\ Goto(w, "attempt")
  <2>1. attempt' \in [Workers -> 0..MaxRetries]
    BY <1>4, ConstantsAssumption DEF AttemptsLeft, NextAttempt, LocalsOK
  <2>2. reply' = [reply EXCEPT ![w] = r]
    BY <1>4 DEF r
  <2> QED
    BY <1>0, <1>3, <1>4, <2>1, <2>2 DEF HandleResponse, LocalsOK, Goto, Labels
<1>5. CASE /\ \E label \in {"complete", "failed"} : Goto(w, label)
           /\ UNCHANGED <<attempt, reply>>
  BY <1>3, <1>5 DEF HandleResponse, LocalsOK, Goto, Labels
<1> QED
  BY <1>4, <1>5 DEF HandleResponse

LEMMA TypeNext == TypeOK /\ [Next]_vars => TypeOK'
<1> SUFFICES ASSUME TypeOK, [Next]_vars PROVE TypeOK'
  OBVIOUS
<1> USE ConstantsAssumption DEF TypeOK, process, local, server
<1>1. ASSUME NEW w \in Workers, NEW c \in Calls, MayAsk(w, c),
             NEW result \in Outcomes, Refused(w, c, result)
      PROVE  TypeOK'
  BY <1>1 DEF Refused, LocalsOK
<1>2. ASSUME NEW w \in Workers, NEW c \in Calls, Miss(w, c)
      PROVE  TypeOK'
  <2>1. LocalsOK'
    BY <1>2, GotoType DEF Miss, Labels, LocalsOK
  <2> QED
    BY <1>2, <2>1 DEF Miss
<1>3. ASSUME NEW w \in Workers, ReserveBlind(w) PROVE TypeOK'
  <2>1. LocalsOK'
    BY <1>3, GotoType DEF ReserveBlind, Labels, LocalsOK
  <2> QED
    BY <1>3, <2>1 DEF ReserveBlind
<1>4. ASSUME NEW w \in Workers, ReserveCredits(w) PROVE TypeOK'
  <2>1. LocalsOK'
    BY <1>4, GotoType DEF ReserveCredits, Labels, LocalsOK
  <2>2. creditsRemaining' \in Nat
    BY <1>4 DEF ReserveCredits, Deducted, WithinFloor, Unknown, LocalsOK
  <2> QED
    BY <1>4, <2>1, <2>2 DEF ReserveCredits
<1>5. ASSUME NEW w \in Workers, RefuseFloor(w) PROVE TypeOK'
  <2>1. outcome' \in [Calls -> Outcomes]
    BY <1>5 DEF RefuseFloor, Return, Outcomes
  <2> QED
    BY <1>5, <2>1, ReturnType DEF RefuseFloor
<1>6. ASSUME NEW w \in Workers, Send(w) PROVE TypeOK'
  <2>1. LocalsOK'
    BY <1>6, GotoType DEF Send, Labels, LocalsOK
  <2> QED
    BY <1>6, <2>1 DEF Send
<1>7. ASSUME NEW w \in Workers, Abandon(w) PROVE TypeOK'
  <2>1. entry' \in [Workers -> Statuses]
    BY <1>7 DEF Abandon, Statuses, LocalsOK
  <2>2. LocalsOK'
    BY <1>7, <2>1, GotoType DEF Abandon, Labels, LocalsOK
  <2> QED
    BY <1>7, <2>2 DEF Abandon
<1>8. ASSUME NEW w \in Workers, Charge(w) PROVE TypeOK'
  <2>1. balance' \in Nat /\ charges' \in [Calls -> Nat] /\ pc[w] = "wire"
    BY <1>8 DEF Charge, LocalsOK
  <2>2. \E kind \in ReplyKinds \ {"none"}, remaining \in Nat \cup {Unknown} : Answer(w, Reply(kind, remaining))
    <3>1. PICK remaining \in Nat \cup {Unknown} :
             \/ Answer(w, Reply("ok", remaining))
             \/ Answer(w, Reply("garbled", remaining))
             \/ Answer(w, Reply("cut", remaining))
             \/ Answer(w, Reply("neterr", Unknown))
      BY <1>8, <2>1 DEF Charge
    <3> QED
      BY <3>1 DEF ReplyKinds
  <2> QED
    BY <2>1, <2>2, AnswerType DEF Answer
<1>9. ASSUME NEW w \in Workers, Reject(w) PROVE TypeOK'
  <2>1. \E kind \in ReplyKinds \ {"none"} : Answer(w, Reply(kind, Unknown))
    BY <1>9 DEF Reject, ReplyKinds
  <2> QED
    BY <1>9, <2>1, AnswerType DEF Reject, Answer
<1>10. ASSUME NEW w \in Workers, NetFail(w) PROVE TypeOK'
  <2>1. \E kind \in ReplyKinds \ {"none"} : Answer(w, Reply(kind, Unknown))
    BY <1>10 DEF NetFail, ReplyKinds
  <2> QED
    BY <1>10, <2>1, AnswerType DEF NetFail, Answer
<1>11. ASSUME NEW w \in Workers, HandleResponse(w) PROVE TypeOK'
  <2>1. creditsRemaining' \in Nat \cup {Unknown}
    BY <1>11, ReplyType DEF HandleResponse, Credited, LocalsOK
  <2> QED
    BY <1>11, <2>1, HandleType DEF HandleResponse
<1>12. ASSUME NEW w \in Workers, WriteReceipt(w) PROVE TypeOK'
  <2>1. LocalsOK'
    BY <1>12, GotoType DEF WriteReceipt, Labels, LocalsOK
  <2> QED
    BY <1>12, <2>1, ReceiptType DEF WriteReceipt, LocalsOK
<1>13. ASSUME NEW w \in Workers, Store(w) PROVE TypeOK'
  <2>1. PICK result \in Outcomes : Return(w, result)
    BY <1>13 DEF Store, Outcomes
  <2>2. cache' \subseteq Calls
    BY <1>13 DEF Store, Stored, LocalsOK
  <2> QED
    BY <1>13, <2>1, <2>2, ReturnType DEF Store, Return
<1>14. ASSUME NEW w \in Workers, FailDo(w) PROVE TypeOK'
  <2>1. LocalsOK' /\ outcome' \in [Calls -> Outcomes]
    BY <1>14, ReturnType DEF FailDo, Return, Outcomes
  <2>2. creditsRemaining' \in Nat \cup {Unknown}
    BY <1>14 DEF FailDo, Released, Unknown, LocalsOK
  <2>3. receipts' \in [Calls -> Nat]
    BY <1>14, ReceiptType DEF FailDo, LocalsOK
  <2> QED
    BY <1>14, <2>1, <2>2, <2>3 DEF FailDo
<1>15. CASE Interrupt
  BY <1>15 DEF Interrupt, LocalsOK
<1>16. CASE Restart
  <2>1. LocalsOK'
    BY <1>16, ReplyType DEF Restart, IdleLocals, LocalsOK, Labels, Statuses
  <2>2. creditsRemaining' \in Nat \cup {Unknown} /\ outcome' \in [Calls -> Outcomes]
    BY <1>16 DEF Restart, StartingCredits, Outcomes
  <2>3. mode' \in Modes /\ cancelled' \in BOOLEAN
    BY <1>16 DEF Restart
  <2>4. runs' \in 1..MaxRuns
    <3>1. runs < MaxRuns /\ runs' = runs + 1
      BY <1>16 DEF Restart
    <3> QED
      BY <3>1
  <2>5. UNCHANGED <<balance, charges, receipts, cache>>
    BY <1>16 DEF Restart
  <2> QED
    BY <2>1, <2>2, <2>3, <2>4, <2>5
<1>17. CASE UNCHANGED vars
  BY <1>17 DEF vars, LocalsOK
<1>18. CASE Next
  BY <1>18, NextCases, <1>1, <1>2, <1>3, <1>4, <1>5, <1>6, <1>7, <1>8, <1>9, <1>10, <1>11,
     <1>12, <1>13, <1>14, <1>15, <1>16, <1>17
     DEF CacheHit, RefuseOffline, RefuseExpensive, Finished, Outcomes
<1> QED
  BY <1>17, <1>18

\* The client's state, the account and the log have their types in every
\* reachable state, and a known balance is never negative.
THEOREM TypeCorrect == Spec => []TypeOK
BY TypeInit, TypeNext, PTL DEF Spec

-----------------------------------------------------------------------------
(***************************************************************************)
(* A cached call is never charged again.  The inductive invariant: a call  *)
(* has at most one worker, which works on it because it is not on disk.    *)
(***************************************************************************)

Exclusive ==
    /\ \A w \in Busy : call[w] \notin cache /\ outcome[call[w]] = "none"
    /\ \A v, w \in Busy : v # w => call[v] # call[w]

\* Steps inside a Do leave the set of calls in flight alone.
LEMMA ExclusiveInside ==
    ASSUME Exclusive, UNCHANGED <<call, outcome, cache>>,
           \A v \in Workers : pc'[v] # "idle" => pc[v] # "idle"
    PROVE  Exclusive'
BY DEF Exclusive, Busy

LEMMA ExclusiveReturn ==
    ASSUME TypeOK, Exclusive, NEW w \in Workers, pc[w] # "idle",
           NEW result, Return(w, result), cache' \in {cache, cache \cup {call[w]}}
    PROVE  Exclusive'
<1>1. \A v \in Busy' : v \in Busy /\ v # w /\ call'[v] = call[v]
  BY DEF TypeOK, LocalsOK, Return, Goto, Busy
<1>2. \A v \in Busy' : call[v] # call[w] /\ call[v] \in Calls
  BY <1>1 DEF Exclusive, Busy, TypeOK, LocalsOK
<1>3. \A v \in Busy' : call'[v] \notin cache' /\ outcome'[call'[v]] = "none"
  BY <1>1, <1>2 DEF Exclusive, Return, TypeOK
<1> QED
  BY <1>1, <1>3 DEF Exclusive

LEMMA ExclusiveInit == Init => Exclusive
BY DEF Init, Exclusive, Busy

LEMMA ExclusiveNext == TypeOK /\ Exclusive /\ [Next]_vars => Exclusive'
<1> SUFFICES ASSUME TypeOK, Exclusive, [Next]_vars PROVE Exclusive'
  OBVIOUS
<1> USE DEF process, local, server
<1>1. ASSUME NEW w \in Workers, NEW c \in Calls, MayAsk(w, c), NEW result, Refused(w, c, result)
      PROVE  Exclusive'
  <2>1. UNCHANGED <<pc, call, cache>> /\ outcome' = [outcome EXCEPT ![c] = result]
    BY <1>1 DEF Refused
  <2>2. \A v \in Busy : call[v] # c /\ call[v] \in Calls
    BY <1>1 DEF MayAsk, InFlight, Busy, TypeOK, LocalsOK
  <2> QED
    BY <2>1, <2>2 DEF Exclusive, Busy, TypeOK
<1>2. ASSUME NEW w \in Workers, NEW c \in Calls, Miss(w, c)
      PROVE  Exclusive'
  <2>1. UNCHANGED <<outcome, cache>> /\ c \notin cache /\ outcome[c] = "none"
    BY <1>2 DEF Miss, MayAsk, Hit
  <2>2. ASSUME NEW v \in Busy', v # w
        PROVE  v \in Busy /\ call'[v] = call[v] /\ call[v] # c
    <3>1. v \in Busy /\ call'[v] = call[v]
      BY <1>2, <2>2 DEF Miss, Goto, Busy, TypeOK, LocalsOK
    <3> QED
      BY <1>2, <3>1 DEF Miss, MayAsk, InFlight
  <2>3. call'[w] = c
    BY <1>2 DEF Miss, TypeOK, LocalsOK
  <2> QED
    BY <2>1, <2>2, <2>3 DEF Exclusive
<1>3. ASSUME NEW w \in Workers, ReserveBlind(w) PROVE Exclusive'
  BY <1>3, ExclusiveInside DEF ReserveBlind, Goto, TypeOK, LocalsOK
<1>4. ASSUME NEW w \in Workers, ReserveCredits(w) PROVE Exclusive'
  BY <1>4, ExclusiveInside DEF ReserveCredits, Goto, TypeOK, LocalsOK
<1>5. ASSUME NEW w \in Workers, RefuseFloor(w) PROVE Exclusive'
  BY <1>5, ExclusiveReturn DEF RefuseFloor
<1>6. ASSUME NEW w \in Workers, Send(w) PROVE Exclusive'
  BY <1>6, ExclusiveInside DEF Send, Goto, TypeOK, LocalsOK
<1>7. ASSUME NEW w \in Workers, Abandon(w) PROVE Exclusive'
  BY <1>7, ExclusiveInside DEF Abandon, Goto, TypeOK, LocalsOK
<1>8. ASSUME NEW w \in Workers, pc[w] # "idle", NEW r, Answer(w, r) PROVE Exclusive'
  BY <1>8, ExclusiveInside DEF Answer, Goto, TypeOK, LocalsOK
<1>9. ASSUME NEW w \in Workers, HandleResponse(w) PROVE Exclusive'
  BY <1>9, ExclusiveInside DEF HandleResponse, Goto, TypeOK, LocalsOK
<1>10. ASSUME NEW w \in Workers, WriteReceipt(w) PROVE Exclusive'
  BY <1>10, ExclusiveInside DEF WriteReceipt, Goto, TypeOK, LocalsOK
<1>11. ASSUME NEW w \in Workers, Store(w) PROVE Exclusive'
  BY <1>11, ExclusiveReturn DEF Store, Stored
<1>12. ASSUME NEW w \in Workers, FailDo(w) PROVE Exclusive'
  BY <1>12, ExclusiveReturn DEF FailDo
<1>13. CASE Interrupt
  BY <1>13, ExclusiveInside DEF Interrupt
<1>14. CASE Restart
  BY <1>14 DEF Restart, IdleLocals, Exclusive, Busy
<1>15. CASE UNCHANGED vars
  BY <1>15, ExclusiveInside DEF vars
<1>16. CASE Next
  <2>1. CASE \E w \in Workers : Charge(w) \/ Reject(w) \/ NetFail(w)
    BY <2>1, <1>8 DEF Charge, Reject, NetFail
  <2> QED
    BY <1>16, NextCases, <2>1, <1>1, <1>2, <1>3, <1>4, <1>5, <1>6, <1>7, <1>9, <1>10,
       <1>11, <1>12, <1>13, <1>14, <1>15
       DEF CacheHit, RefuseOffline, RefuseExpensive, Finished
<1> QED
  BY <1>15, <1>16

\* Only Charge charges, and only the call of a worker that is on the wire.
LEMMA ChargeOnly ==
    ASSUME [Next]_vars
    PROVE  UNCHANGED charges \/ \E w \in Workers : Charge(w)
BY NextCases
   DEF vars, process, local, server, CacheHit, RefuseOffline, RefuseExpensive, Refused, Miss,
       ReserveBlind, ReserveCredits, RefuseFloor, Send, Abandon, Reject, NetFail, HandleResponse,
       WriteReceipt, Store, FailDo, Interrupt, Restart, Finished

\* "Nothing is ever fetched twice", for every number of workers, runs and
\* retries, and whatever fails: a call whose response is on disk is not charged.
THEOREM NothingCachedIsCharged == Spec => CachedNeverCharged
<1>1. TypeOK /\ Exclusive /\ [Next]_vars => [\A c \in cache : charges'[c] = charges[c]]_vars
  <2> SUFFICES ASSUME TypeOK, Exclusive, [Next]_vars, NEW c \in cache
               PROVE  charges'[c] = charges[c]
    BY Zenon
  <2>1. ASSUME NEW w \in Workers, Charge(w) PROVE charges'[c] = charges[c]
    <3>1. call[w] # c
      BY <2>1 DEF Charge, Exclusive, Busy
    <3> QED
      BY <2>1, <3>1 DEF Charge, TypeOK
  <2> QED
    BY <2>1, ChargeOnly
<1> QED
  BY <1>1, TypeInit, TypeNext, ExclusiveInit, ExclusiveNext, PTL DEF Spec, CachedNeverCharged

-----------------------------------------------------------------------------
(* What a run spends, and what it has to show for it: no call is paid for  *)
(* twice in a run, a client with one worker never spends below the floor,  *)
(* and every charge ends on the log and on disk.  Most of it needs         *)
(* responses that arrive whole: without "cut" and "lost" among the faults  *)
(* only an interrupt can lose a response, and then nothing more is sent.   *)

WholeResponses == Faults \cap {"cut", "lost"} = {}

\* A worker that will not be charged again for the call it is on.
Settled(w) ==
    \/ pc[w] \in {"complete", "store", "failed"}
    \/ pc[w] = "attempt" /\ cancelled
    \/ pc[w] = "reply" /\ (cancelled \/ ~Retryable(reply[w]))

\* The calls that can still be charged in this run.
Open ==
    {c \in Calls : \/ c \notin InFlight /\ outcome[c] = "none"
                   \/ \E w \in Busy : call[w] = c /\ ~Settled(w)}

LEMMA OpenInside ==
    ASSUME UNCHANGED <<call, outcome>>,
           \A v \in Workers : (pc'[v] = "idle") <=> (pc[v] = "idle"),
           \A v \in Busy : Settled(v) => Settled(v)'
    PROVE  Open' \subseteq Open
<1>1. Busy' = Busy
  BY DEF Busy
<1>2. InFlight' = InFlight
  BY <1>1 DEF InFlight
<1> QED
  BY <1>1, <1>2 DEF Open

LEMMA OpenReturn ==
    ASSUME TypeOK, NEW w \in Workers, pc[w] # "idle",
           NEW result \in Outcomes \ {"none"}, Return(w, result), cancelled' = cancelled
    PROVE  Open' \subseteq Open
<1>1. \A v \in Busy' : /\ v \in Busy /\ v # w /\ call'[v] = call[v]
                       /\ Settled(v) => Settled(v)'
  BY DEF TypeOK, LocalsOK, Return, Goto, Busy, Settled, Retryable
<1>2. \A v \in Busy : v = w \/ (v \in Busy' /\ call'[v] = call[v])
  BY DEF TypeOK, LocalsOK, Return, Goto, Busy
<1>3. ASSUME NEW c \in Calls, c \notin InFlight', outcome'[c] = "none"
      PROVE  c \notin InFlight /\ outcome[c] = "none"
  <2>1. c # call[w] /\ outcome[c] = "none"
    BY <1>3 DEF Return, TypeOK
  <2> QED
    BY <1>2, <1>3, <2>1 DEF InFlight
<1>4. ASSUME NEW c \in Calls, NEW v \in Busy', call'[v] = c, ~Settled(v)'
      PROVE  v \in Busy /\ call[v] = c /\ ~Settled(v)
  BY <1>1, <1>4
<1> QED
  BY <1>3, <1>4 DEF Open

\* A call is charged while it is open, and is open no more.
LEMMA OpenCharge ==
    ASSUME WholeResponses, TypeOK, Exclusive, NEW w \in Workers, Charge(w)
    PROVE  /\ call[w] \in Calls /\ call[w] \notin cache
           /\ call[w] \in Open /\ Open' \subseteq Open \ {call[w]}
<1>1. /\ pc[w] = "wire" /\ w \in Busy /\ call[w] \in Calls
  BY DEF Charge, Busy, TypeOK, LocalsOK
<1>2. PICK r : Answer(w, r) /\ (r.kind \in {"ok", "garbled"} \/ cancelled)
  BY DEF Charge, Possible, WholeResponses, Reply
<1>3. UNCHANGED <<call, outcome, cancelled>> /\ pc' = [pc EXCEPT ![w] = "reply"]
  BY <1>2 DEF Answer, Goto, process
<1>4. Settled(w)'
  BY <1>1, <1>2, <1>3 DEF Answer, Settled, Retryable, TypeOK, LocalsOK
<1>5. Busy' = Busy
  BY <1>1, <1>3 DEF Busy, TypeOK, LocalsOK
<1>6. InFlight' = InFlight /\ call[w] \in InFlight
  BY <1>1, <1>3, <1>5 DEF InFlight
<1>7. ASSUME NEW v \in Busy, ~Settled(v)' PROVE v # w /\ ~Settled(v) /\ call[v] # call[w]
  <2>1. v # w
    BY <1>4, <1>7
  <2>2. ~Settled(v)
    BY <1>2, <1>3, <1>7, <2>1 DEF Answer, Settled, Retryable, TypeOK, LocalsOK, Busy
  <2> QED
    BY <1>1, <2>1, <2>2 DEF Exclusive
<1>8. Open' \subseteq Open \ {call[w]}
  BY <1>3, <1>5, <1>6, <1>7 DEF Open
<1> QED
  BY <1>1, <1>8 DEF Open, Settled, Exclusive

LEMMA OpenNext ==
    ASSUME TypeOK, [Next]_vars
    PROVE  \/ \E w \in Workers : Charge(w)
           \/ Restart
           \/ Open' \subseteq Open /\ UNCHANGED <<charges, runs>>
<1> DEFINE Goal == Open' \subseteq Open /\ UNCHANGED <<charges, runs>>
<1> USE DEF process, local, server
<1>1. ASSUME NEW w \in Workers, NEW c \in Calls, MayAsk(w, c),
             NEW result \in Outcomes \ {"none"}, Refused(w, c, result)
      PROVE  Goal
  <2>1. /\ UNCHANGED <<pc, call, reply, cancelled, charges, runs>>
        /\ \A d \in Calls : outcome'[d] = "none" => outcome[d] = "none"
    BY <1>1 DEF Refused, TypeOK
  <2>2. Busy' = Busy /\ \A v \in Busy : Settled(v)' <=> Settled(v)
    BY <2>1 DEF Busy, Settled
  <2>3. InFlight' = InFlight
    BY <2>1, <2>2 DEF InFlight
  <2> QED
    BY <2>1, <2>2, <2>3 DEF Open
<1>2. ASSUME NEW w \in Workers, NEW c \in Calls, Miss(w, c)
      PROVE  Goal
  <2>1. /\ pc[w] = "idle" /\ outcome[c] = "none" /\ c \notin InFlight
        /\ pc' = [pc EXCEPT ![w] = "guard"] /\ call' = [call EXCEPT ![w] = c]
        /\ UNCHANGED <<reply, cancelled, charges, runs, outcome>>
    BY <1>2 DEF Miss, MayAsk, Goto
  <2>2. ASSUME NEW v \in Busy', v # w
        PROVE  v \in Busy /\ call'[v] = call[v] /\ (Settled(v) => Settled(v)')
    BY <2>1, <2>2 DEF Busy, Settled, TypeOK, LocalsOK
  <2>3. \A v \in Busy : v \in Busy' /\ call'[v] = call[v]
    BY <2>1 DEF Busy, TypeOK, LocalsOK
  <2>4. \A d \in Calls \ InFlight' : d \notin InFlight
    BY <2>3 DEF InFlight
  <2>5. call'[w] = c
    BY <2>1 DEF TypeOK, LocalsOK
  <2> QED
    BY <2>1, <2>2, <2>4, <2>5 DEF Open
<1>3. ASSUME NEW w \in Workers, ReserveBlind(w) PROVE Goal
  BY <1>3, OpenInside DEF ReserveBlind, Goto, Settled, TypeOK, LocalsOK
<1>4. ASSUME NEW w \in Workers, ReserveCredits(w) PROVE Goal
  BY <1>4, OpenInside DEF ReserveCredits, Goto, Settled, TypeOK, LocalsOK
<1>5. ASSUME NEW w \in Workers, RefuseFloor(w) PROVE Goal
  BY <1>5, OpenReturn DEF RefuseFloor, Outcomes
<1>6. ASSUME NEW w \in Workers, Send(w) PROVE Goal
  BY <1>6, OpenInside DEF Send, Goto, Settled, TypeOK, LocalsOK
<1>7. ASSUME NEW w \in Workers, Abandon(w) PROVE Goal
  BY <1>7, OpenInside DEF Abandon, Goto, Settled, TypeOK, LocalsOK
<1>8. ASSUME NEW w \in Workers, pc[w] = "wire", NEW r, Answer(w, r), UNCHANGED charges
      PROVE  Goal
  BY <1>8, OpenInside DEF Answer, Goto, Settled, TypeOK, LocalsOK
<1>9. ASSUME NEW w \in Workers, HandleResponse(w) PROVE Goal
  <2>1. /\ UNCHANGED <<call, outcome, charges, runs, cancelled>> /\ pc[w] = "reply"
        /\ \/ Retryable(reply[w]) /\ Goto(w, "attempt")
           \/ Goto(w, "complete") \/ Goto(w, "failed")
        /\ \A v \in Workers : v # w => reply'[v] = reply[v]
    BY <1>9 DEF HandleResponse, TypeOK, LocalsOK
  <2>2. \A v \in Workers : (pc'[v] = "idle") <=> (pc[v] = "idle")
    BY <2>1 DEF Goto, TypeOK, LocalsOK
  <2>3. \A v \in Busy : Settled(v) => Settled(v)'
    BY <2>1 DEF Goto, Settled, TypeOK, LocalsOK, Busy, Retryable
  <2> QED
    BY <2>1, <2>2, <2>3, OpenInside
<1>10. ASSUME NEW w \in Workers, WriteReceipt(w) PROVE Goal
  BY <1>10, OpenInside DEF WriteReceipt, Goto, Settled, TypeOK, LocalsOK
<1>11. ASSUME NEW w \in Workers, Store(w) PROVE Goal
  BY <1>11, OpenReturn DEF Store, Outcomes
<1>12. ASSUME NEW w \in Workers, FailDo(w) PROVE Goal
  BY <1>12, OpenReturn DEF FailDo, Outcomes
<1>13. ASSUME Interrupt PROVE Goal
  BY <1>13, OpenInside DEF Interrupt, Settled
<1>14. ASSUME UNCHANGED vars PROVE Goal
  BY <1>14, OpenInside DEF vars, Settled
<1>15. CASE Next
  <2>1. ASSUME NEW w \in Workers, Reject(w) \/ NetFail(w) PROVE Goal
    BY <2>1, <1>8 DEF Reject, NetFail
  <2> HIDE DEF Goal
  <2>2. Goal \/ (\E w \in Workers : Charge(w)) \/ Restart
    BY <1>15, NextCases, <2>1, <1>1, <1>2, <1>3, <1>4, <1>5, <1>6, <1>7, <1>9,
       <1>10, <1>11, <1>12, <1>13, <1>14
       DEF CacheHit, RefuseOffline, RefuseExpensive, Finished, Outcomes
  <2> QED
    BY <2>2 DEF Goal
<1>16. CASE UNCHANGED vars
  BY <1>14, <1>16
<1> QED
  BY <1>15, <1>16

\* A call that can still be charged in this run was charged in earlier runs only.
PaysOnce ==
    /\ \A c \in Calls : charges[c] <= runs
    /\ \A c \in Open : charges[c] < runs

LEMMA PaysOnceInit == Init => PaysOnce
BY DEF Init, PaysOnce, Open

LEMMA PaysOnceNext == WholeResponses /\ TypeOK /\ Exclusive /\ PaysOnce /\ [Next]_vars => PaysOnce'
<1> SUFFICES ASSUME WholeResponses, TypeOK, Exclusive, PaysOnce, [Next]_vars PROVE PaysOnce'
  OBVIOUS
<1>1. ASSUME NEW w \in Workers, Charge(w) PROVE PaysOnce'
  <2>1. charges' = [charges EXCEPT ![call[w]] = @ + 1] /\ runs' = runs
    BY <1>1 DEF Charge, Answer
  <2> QED
    BY <1>1, <2>1, OpenCharge DEF PaysOnce, TypeOK, Open
<1>2. CASE Restart
  <2>1. runs' = runs + 1 /\ charges' = charges
    BY <1>2 DEF Restart, server
  <2> QED
    BY <2>1 DEF PaysOnce, TypeOK, Open
<1>3. CASE Open' \subseteq Open /\ UNCHANGED <<charges, runs>>
  BY <1>3 DEF PaysOnce
<1> QED
  BY <1>1, <1>2, <1>3, OpenNext

\* As long as charged responses arrive whole, a run pays for a call at most
\* once: retries, races, interrupts and failing disks do not make it pay again.
THEOREM RunPaysOnce ==
    ASSUME WholeResponses
    PROVE  Spec => []PaidOncePerRun
<1>1. PaysOnce => PaidOncePerRun
  BY DEF PaysOnce, PaidOncePerRun
<1> QED
  BY <1>1, WholeResponses, TypeInit, TypeNext, ExclusiveInit, ExclusiveNext, PaysOnceInit, PaysOnceNext, PTL DEF Spec

-----------------------------------------------------------------------------
(***************************************************************************)
(* What a retry can cost.  A charged response that is cut off is asked for *)
(* again, so a run may pay more than once for a call; but each attempt is  *)
(* charged once at most, and doHTTP counts its attempts.                   *)
(***************************************************************************)

\* What a call may have been charged when a run of the program starts.
Earlier == (runs - 1) * (MaxRetries + 1)

\* How many of doHTTP's attempts may have been charged so far.
Tried(w) == IF pc[w] \in {"guard", "attempt", "wire"} THEN attempt[w] ELSE attempt[w] + 1

Attempted ==
    /\ \A c \in Calls : charges[c] <= Earlier + MaxRetries + 1
    /\ \A c \in Calls \ InFlight : outcome[c] = "none" => charges[c] <= Earlier
    /\ \A w \in Busy : charges[call[w]] <= Earlier + Tried(w)

LEMMA EarlierCounts ==
    ASSUME TypeOK
    PROVE  /\ Earlier \in Nat /\ runs * (MaxRetries + 1) = Earlier + MaxRetries + 1
           /\ MaxRetries \in Nat
           /\ \A w \in Workers : attempt[w] \in 0..MaxRetries
           /\ \A c \in Calls : charges[c] \in Nat
<1>1. MaxRetries \in Nat /\ runs \in Nat \ {0}
  BY ConstantsAssumption DEF TypeOK
<1>2. \A k \in Nat, m \in Nat : k * m \in Nat /\ (k + 1) * m = k * m + m
  OBVIOUS
<1>3. runs - 1 \in Nat /\ MaxRetries + 1 \in Nat /\ (runs - 1) + 1 = runs
  BY <1>1
<1>4. Earlier \in Nat /\ runs * (MaxRetries + 1) = Earlier + (MaxRetries + 1)
  BY <1>2, <1>3 DEF Earlier
<1>5. (\A w \in Workers : attempt[w] \in 0..MaxRetries) /\ \A c \in Calls : charges[c] \in Nat
  BY DEF TypeOK, LocalsOK
<1> QED
  BY <1>1, <1>4, <1>5

\* A step of a worker that stays inside Do and charges nothing.
LEMMA AttemptedInside ==
    ASSUME TypeOK, Attempted, NEW w \in Workers, pc[w] # "idle", pc'[w] # "idle",
           UNCHANGED <<call, outcome, charges, runs>>,
           \A v \in Workers \ {w} : pc'[v] = pc[v] /\ attempt'[v] = attempt[v],
           Tried(w)' \in Nat, Tried(w) <= Tried(w)'
    PROVE  Attempted'
<1>1. Busy' = Busy
  BY DEF Busy
<1>2. InFlight' = InFlight /\ Earlier' = Earlier
  BY <1>1 DEF InFlight, Earlier
<1>3. ASSUME NEW v \in Busy PROVE charges[call[v]] <= Earlier + Tried(v)'
  <2>1. /\ charges[call[v]] \in Nat /\ Earlier \in Nat /\ charges[call[v]] <= Earlier + Tried(v)
        /\ Tried(v) \in Nat
    BY EarlierCounts DEF Attempted, Busy, TypeOK, LocalsOK, Tried
  <2>2. CASE v = w
    BY <2>1, <2>2
  <2>3. CASE v # w
    BY <2>1, <2>3 DEF Tried, Busy
  <2> QED
    BY <2>2, <2>3
<1> QED
  BY <1>1, <1>2, <1>3 DEF Attempted

LEMMA AttemptedReturn ==
    ASSUME TypeOK, Attempted, NEW w \in Workers, pc[w] # "idle",
           NEW result \in Outcomes \ {"none"}, Return(w, result), UNCHANGED <<charges, runs>>
    PROVE  Attempted'
<1>1. \A v \in Workers : v \in Busy' <=> v \in Busy /\ v # w
  BY DEF TypeOK, LocalsOK, Return, Goto, Busy
<1>2. \A v \in Busy' : call'[v] = call[v] /\ Tried(v)' = Tried(v)
  BY <1>1 DEF TypeOK, LocalsOK, Return, Goto, Busy, Tried
<1>3. Earlier' = Earlier
  BY DEF Earlier
<1>4. ASSUME NEW c \in Calls, c \notin InFlight', outcome'[c] = "none"
      PROVE  c \notin InFlight /\ outcome[c] = "none"
  <2>1. c # call[w] /\ outcome[c] = "none"
    BY <1>4 DEF Return, TypeOK
  <2>2. \A v \in Busy : v = w \/ (v \in Busy' /\ call'[v] = call[v])
    BY <1>1, <1>2 DEF Busy
  <2> QED
    BY <1>4, <2>1, <2>2 DEF InFlight
<1>5. \A v \in Busy' : v \in Busy
  BY <1>1 DEF Busy
<1> QED
  BY <1>2, <1>3, <1>4, <1>5 DEF Attempted

LEMMA AttemptedCharge ==
    ASSUME TypeOK, Exclusive, Attempted, NEW w \in Workers, Charge(w)
    PROVE  Attempted'
<1>1. /\ pc[w] = "wire" /\ w \in Busy /\ call[w] \in Calls
      /\ charges' = [charges EXCEPT ![call[w]] = @ + 1]
      /\ UNCHANGED <<call, outcome, attempt, runs>> /\ pc' = [pc EXCEPT ![w] = "reply"]
  BY DEF Charge, Answer, Goto, process, Busy, TypeOK, LocalsOK
<1>2. Busy' = Busy
  BY <1>1 DEF Busy, TypeOK, LocalsOK
<1>3. InFlight' = InFlight /\ call[w] \in InFlight /\ Earlier' = Earlier
  BY <1>1, <1>2 DEF InFlight, Earlier
<1>4. charges[call[w]] <= Earlier + attempt[w]
  BY <1>1 DEF Attempted, Tried
<1>5. charges'[call[w]] = charges[call[w]] + 1 /\ \A c \in Calls : c # call[w] => charges'[c] = charges[c]
  BY <1>1 DEF TypeOK
<1>6. charges'[call[w]] <= Earlier + MaxRetries + 1
  BY <1>1, <1>4, <1>5, EarlierCounts
<1>7. ASSUME NEW v \in Busy PROVE charges'[call[v]] <= Earlier + Tried(v)'
  <2>1. CASE v = w
    <3>1. Tried(w)' = attempt[w] + 1
      BY <1>1 DEF Tried, TypeOK, LocalsOK
    <3> QED
      BY <1>1, <1>4, <1>5, <2>1, <3>1, EarlierCounts
  <2>2. CASE v # w
    <3>1. call[v] # call[w] /\ call[v] \in Calls
      BY <1>1, <2>2 DEF Exclusive, Busy, TypeOK, LocalsOK
    <3>2. Tried(v)' = Tried(v)
      BY <1>1, <2>2 DEF Tried, Busy, TypeOK, LocalsOK
    <3> QED
      BY <1>5, <3>1, <3>2 DEF Attempted
  <2> QED
    BY <2>1, <2>2
<1> QED
  BY <1>1, <1>2, <1>3, <1>5, <1>6, <1>7 DEF Attempted

LEMMA AttemptedRestart ==
    ASSUME TypeOK, Attempted, Restart
    PROVE  Attempted'
<1>1. runs' = runs + 1 /\ charges' = charges /\ pc' = [w \in Workers |-> "idle"]
  BY DEF Restart, IdleLocals, server
<1>2. Busy' = {}
  BY <1>1 DEF Busy
<1>3. Earlier' = Earlier + MaxRetries + 1
  <2>1. Earlier' = runs * (MaxRetries + 1)
    BY <1>1 DEF Earlier, TypeOK
  <2> QED
    BY <2>1, EarlierCounts
<1>4. ASSUME NEW c \in Calls PROVE charges'[c] <= Earlier' /\ charges'[c] <= Earlier' + MaxRetries + 1
  BY <1>1, <1>3, EarlierCounts DEF Attempted
<1> QED
  BY <1>2, <1>4 DEF Attempted

LEMMA AttemptedNext == TypeOK /\ Exclusive /\ Attempted /\ [Next]_vars => Attempted'
<1> SUFFICES ASSUME TypeOK, Exclusive, Attempted, [Next]_vars PROVE Attempted'
  OBVIOUS
<1> USE DEF process, local, server
<1>1. ASSUME NEW w \in Workers, NEW c \in Calls, MayAsk(w, c),
             NEW result \in Outcomes \ {"none"}, Refused(w, c, result)
      PROVE  Attempted'
  <2>1. /\ UNCHANGED <<pc, call, attempt, charges, runs>>
        /\ \A d \in Calls : outcome'[d] = "none" => outcome[d] = "none"
    BY <1>1 DEF Refused, TypeOK
  <2>2. Busy' = Busy /\ Earlier' = Earlier /\ \A v \in Busy : Tried(v)' = Tried(v)
    BY <2>1 DEF Busy, Earlier, Tried
  <2>3. InFlight' = InFlight
    BY <2>1, <2>2 DEF InFlight
  <2> QED
    BY <2>1, <2>2, <2>3 DEF Attempted
<1>2. ASSUME NEW w \in Workers, NEW c \in Calls, Miss(w, c)
      PROVE  Attempted'
  <2>1. /\ pc[w] = "idle" /\ outcome[c] = "none" /\ c \notin InFlight
        /\ pc' = [pc EXCEPT ![w] = "guard"] /\ call' = [call EXCEPT ![w] = c]
        /\ UNCHANGED <<attempt, charges, runs, outcome>>
    BY <1>2 DEF Miss, MayAsk, Goto
  <2>2. ASSUME NEW v \in Busy', v # w
        PROVE  v \in Busy /\ call'[v] = call[v] /\ Tried(v)' = Tried(v)
    BY <2>1, <2>2 DEF Busy, Tried, TypeOK, LocalsOK
  <2>3. \A v \in Busy : v \in Busy' /\ call'[v] = call[v]
    BY <2>1 DEF Busy, TypeOK, LocalsOK
  <2>4. \A d \in Calls \ InFlight' : d \notin InFlight
    BY <2>3 DEF InFlight
  <2>5. call'[w] = c /\ Tried(w)' = attempt[w] /\ Earlier' = Earlier
    BY <2>1 DEF Tried, Earlier, TypeOK, LocalsOK
  <2>6. charges[c] <= Earlier + attempt[w]
    BY <2>1, EarlierCounts DEF Attempted
  <2> QED
    BY <2>1, <2>2, <2>4, <2>5, <2>6 DEF Attempted
<1> DEFINE Inside(w) ==
      /\ pc[w] # "idle" /\ pc'[w] # "idle" /\ UNCHANGED <<call, outcome, charges, runs>>
      /\ \A v \in Workers \ {w} : pc'[v] = pc[v] /\ attempt'[v] = attempt[v]
      /\ Tried(w)' \in Nat /\ Tried(w) <= Tried(w)'
<1>3. ASSUME NEW w \in Workers, ReserveBlind(w) \/ ReserveCredits(w) \/ Send(w) PROVE Inside(w)
  BY <1>3 DEF ReserveBlind, ReserveCredits, Send, Goto, Tried, TypeOK, LocalsOK
<1>4. ASSUME NEW w \in Workers, Abandon(w) \/ WriteReceipt(w) PROVE Inside(w)
  BY <1>4, ConstantsAssumption DEF Abandon, WriteReceipt, Goto, Tried, TypeOK, LocalsOK
<1>5. ASSUME NEW w \in Workers, Reject(w) \/ NetFail(w) PROVE Inside(w)
  <2>1. PICK r : pc[w] = "wire" /\ Answer(w, r) /\ UNCHANGED charges
    BY <1>5 DEF Reject, NetFail
  <2> QED
    BY <2>1, ConstantsAssumption DEF Answer, Goto, Tried, TypeOK, LocalsOK
<1>6. ASSUME NEW w \in Workers, HandleResponse(w) PROVE Inside(w)
  <2>1. /\ pc[w] = "reply" /\ UNCHANGED <<call, outcome, charges, runs>>
        /\ \/ attempt' = [attempt EXCEPT ![w] = @ + 1] /\ Goto(w, "attempt")
           \/ attempt' = attempt /\ (Goto(w, "complete") \/ Goto(w, "failed"))
    BY <1>6 DEF HandleResponse, NextAttempt
  <2>2. CASE attempt' = [attempt EXCEPT ![w] = @ + 1] /\ Goto(w, "attempt")
    BY <2>1, <2>2, ConstantsAssumption DEF Goto, Tried, TypeOK, LocalsOK
  <2>3. CASE attempt' = attempt /\ (Goto(w, "complete") \/ Goto(w, "failed"))
    BY <2>1, <2>3, ConstantsAssumption DEF Goto, Tried, TypeOK, LocalsOK
  <2> QED
    BY <2>1, <2>2, <2>3
<1>7. ASSUME NEW w \in Workers, Inside(w) PROVE Attempted'
  BY <1>7, AttemptedInside
<1>8. ASSUME NEW w \in Workers, RefuseFloor(w) \/ Store(w) \/ FailDo(w) PROVE Attempted'
  <2>1. PICK result \in Outcomes \ {"none"} : Return(w, result)
    BY <1>8 DEF RefuseFloor, Store, FailDo, Outcomes
  <2>2. pc[w] # "idle" /\ UNCHANGED <<charges, runs>>
    BY <1>8 DEF RefuseFloor, Store, FailDo
  <2> QED
    BY <2>1, <2>2, AttemptedReturn
<1>9. ASSUME UNCHANGED <<local, outcome, charges, runs>> PROVE Attempted'
  BY <1>9 DEF Attempted, Earlier, Tried, Busy, InFlight
<1>10. Interrupt \/ UNCHANGED vars => UNCHANGED <<local, outcome, charges, runs>>
  BY DEF Interrupt, vars
<1> HIDE DEF Inside
<1> QED
  BY NextCases, <1>1, <1>2, <1>3, <1>4, <1>5, <1>6, <1>7, <1>8, <1>9, <1>10, AttemptedCharge, AttemptedRestart
     DEF CacheHit, RefuseOffline, RefuseExpensive, Finished, Outcomes

\* Whatever fails and wherever the program is stopped: a run pays for a call no
\* more often than doHTTP may attempt it.
THEOREM RunPaysPerAttempt == Spec => []PaidPerAttempt
<1>1. Init => Attempted
  <2>1. ASSUME Init PROVE Attempted
    <3>1. TypeOK
      BY <2>1, TypeInit
    <3>2. Busy = {} /\ \A c \in Calls : charges[c] = 0
      BY <2>1 DEF Init, Busy
    <3> QED
      BY <3>1, <3>2, EarlierCounts DEF Attempted
  <2> QED
    BY <2>1
<1>2. TypeOK /\ Attempted => PaidPerAttempt
  BY EarlierCounts DEF Attempted, PaidPerAttempt
<1> QED
  BY <1>1, <1>2, TypeInit, TypeNext, ExclusiveInit, ExclusiveNext, AttemptedNext, PTL DEF Spec

-----------------------------------------------------------------------------
(***************************************************************************)
(* One worker keeps the floor.  The inductive invariant is the ledger of a *)
(* serial run: while the call may still be charged, what the client        *)
(* believes is the account less the reservation; once it was charged or    *)
(* given up, the two agree.  An interrupt ends the bookkeeping, not the    *)
(* guarantee: what is on the wire was sent before it.                      *)
(***************************************************************************)

Exact == creditsRemaining # Unknown => creditsRemaining = balance

Held(w) ==
    /\ reserved[w] => creditsRemaining + Cost[call[w]] = balance /\ creditsRemaining >= CreditFloor
    /\ ~reserved[w] => creditsRemaining = Unknown

Charged(w) ==
    /\ reply[w].kind \in {"ok", "garbled"}
    /\ reply[w].remaining \in {Unknown, balance}
    /\ creditsRemaining = IF reserved[w] THEN balance ELSE Unknown

Ledger(w) ==
    /\ pc[w] \in {"idle", "guard"} => ~reserved[w]
    /\ pc[w] = "wire" => Held(w)
    /\ ~cancelled =>
         /\ pc[w] \in {"idle", "guard", "complete", "store"} => Exact
         /\ pc[w] \in {"attempt", "failed"} => Held(w)
         /\ pc[w] = "reply" => IF Is200(reply[w]) THEN Charged(w) ELSE Held(w)

LEMMA LedgerInit == \A w \in Workers : Init => Ledger(w)
BY DEF Init, StartingCredits, Ledger, Exact

LEMMA LedgerNext ==
    ASSUME WholeResponses, NEW w \in Workers, Workers = {w}, TypeOK, Ledger(w), [Next]_vars
    PROVE  Ledger(w)'
<1> USE ConstantsAssumption DEF process, local, server, TypeOK, LocalsOK, Labels
<1>1. ASSUME NEW c \in Calls, NEW result, Refused(w, c, result) PROVE Ledger(w)'
  BY <1>1 DEF Refused, Ledger, Exact, Held, Charged
<1>2. ASSUME NEW c \in Calls, Miss(w, c) PROVE Ledger(w)'
  BY <1>2 DEF Miss, MayAsk, Goto, Ledger, Exact
<1>3. CASE ReserveBlind(w)
  BY <1>3 DEF ReserveBlind, Goto, Ledger, Held
<1>4. CASE ReserveCredits(w)
  BY <1>4 DEF ReserveCredits, Goto, Deducted, WithinFloor, Ledger, Exact, Held, Unknown
<1>5. CASE RefuseFloor(w)
  BY <1>5 DEF RefuseFloor, Return, Goto, Ledger, Exact
<1>6. CASE Send(w)
  BY <1>6 DEF Send, Goto, Ledger, Held
<1>7. CASE Abandon(w)
  BY <1>7 DEF Abandon, Goto, Ledger
<1>8. CASE Charge(w)
  <2>1. /\ pc'[w] = "reply" /\ Held(w) /\ call[w] \in Calls
        /\ balance' = balance - Cost[call[w]]
        /\ UNCHANGED <<creditsRemaining, cancelled, call, reserved>>
    BY <1>8 DEF Charge, Answer, Goto, Ledger
  <2>2. ~cancelled => /\ reply'[w].kind \in {"ok", "garbled"}
                      /\ reply'[w].remaining \in {Unknown, balance'}
    BY <1>8 DEF Charge, Answer, Possible, WholeResponses, Reply
  <2>3. ~cancelled => Charged(w)'
    <3>1. creditsRemaining' = IF reserved'[w] THEN balance' ELSE Unknown
      BY <2>1 DEF Held, Unknown
    <3> QED
      BY <2>2, <3>1 DEF Charged
  <2> QED
    BY <2>1, <2>2, <2>3 DEF Ledger, Is200
<1>9. CASE Reject(w) \/ NetFail(w)
  <2>1. /\ pc'[w] = "reply" /\ Held(w)
        /\ UNCHANGED <<creditsRemaining, cancelled, call, reserved, balance>>
        /\ ~Is200(reply'[w])
    BY <1>9 DEF Reject, NetFail, Answer, Goto, Ledger, Is200, Reply
  <2> QED
    BY <2>1 DEF Ledger, Held, Is200
<1>10. CASE HandleResponse(w)
  <2>1. /\ pc[w] = "reply"
        /\ creditsRemaining' = Credited(creditsRemaining, reply[w])
        /\ UNCHANGED <<cancelled, call, reserved, balance>>
    BY <1>10 DEF HandleResponse
  <2>2. CASE ~cancelled /\ Is200(reply[w])
    <3>1. Charged(w)
      BY <2>1, <2>2 DEF Ledger
    <3>2. pc'[w] = "complete"
      BY <1>10, <2>2, <3>1 DEF HandleResponse, Goto, Charged, Retryable
    <3>3. Exact'
      BY <2>1, <3>1 DEF Credited, Charged, Exact, Is200
    <3> QED
      BY <3>2, <3>3 DEF Ledger
  <2>3. CASE ~cancelled /\ ~Is200(reply[w])
    <3>1. Held(w)'
      BY <2>1, <2>3 DEF Ledger, Credited, Held
    <3>2. pc'[w] \in {"attempt", "failed"}
      BY <1>10, <2>3 DEF HandleResponse, Goto
    <3> QED
      BY <3>1, <3>2 DEF Ledger
  <2>4. CASE cancelled
    <3>1. pc'[w] \in {"attempt", "failed", "complete"} /\ cancelled'
      BY <1>10, <2>1, <2>4 DEF HandleResponse, Goto
    <3> QED
      BY <3>1 DEF Ledger
  <2> QED
    BY <2>2, <2>3, <2>4
<1>11. CASE WriteReceipt(w)
  BY <1>11 DEF WriteReceipt, Goto, Ledger, Exact
<1>12. CASE Store(w)
  BY <1>12 DEF Store, Return, Goto, Ledger, Exact
<1>13. CASE FailDo(w)
  BY <1>13 DEF FailDo, Released, Return, Goto, Ledger, Exact, Held, Unknown
<1>14. CASE Interrupt
  BY <1>14 DEF Interrupt, Ledger, Held
<1>15. CASE Restart
  BY <1>15 DEF Restart, IdleLocals, StartingCredits, Ledger, Exact
<1>16. CASE UNCHANGED vars
  BY <1>16 DEF vars, Ledger, Exact, Held, Charged
<1>17. CASE Next
  BY <1>17, NextCases, <1>1, <1>2, <1>3, <1>4, <1>5, <1>6, <1>7, <1>8, <1>9, <1>10,
     <1>11, <1>12, <1>13, <1>14, <1>15, <1>16
     DEF CacheHit, RefuseOffline, RefuseExpensive, Finished
<1> QED
  BY <1>16, <1>17

LEMMA OneWorkerLedger ==
    ASSUME WholeResponses, NEW w \in Workers, Workers = {w}
    PROVE  Spec => [](TypeOK /\ Ledger(w))
<1>1. Init => Ledger(w)
  BY LedgerInit
<1>2. TypeOK /\ Ledger(w) /\ [Next]_vars => Ledger(w)'
  BY LedgerNext, WholeResponses, Workers = {w}
<1> QED
  BY <1>1, <1>2, TypeInit, TypeNext, PTL DEF Spec

\* With one worker, a call sent under a reservation leaves the account at the
\* floor or above.
THEOREM OneWorkerKeepsFloor ==
    ASSUME WholeResponses, NEW w \in Workers, Workers = {w}
    PROVE  Spec => []WireKeepsFloor
<1>1. TypeOK /\ Ledger(w) => WireKeepsFloor
  BY ConstantsAssumption DEF TypeOK, LocalsOK, Ledger, Held, WireKeepsFloor
<1>2. Spec => [](TypeOK /\ Ledger(w))
  BY OneWorkerLedger, WholeResponses, Workers = {w}
<1> QED
  BY <1>1, <1>2, PTL

\* With one worker, the balance the client knows between two calls is the
\* account's: every reservation ended as a charge or a refund.
THEOREM OneWorkerKnowsBalance ==
    ASSUME WholeResponses, NEW w \in Workers, Workers = {w}
    PROVE  Spec => []EstimateMatchesAccount
<1>1. Ledger(w) => EstimateMatchesAccount
  BY DEF Ledger, Exact, Busy, EstimateMatchesAccount
<1>2. Spec => [](TypeOK /\ Ledger(w))
  BY OneWorkerLedger, WholeResponses, Workers = {w}
<1> QED
  BY <1>1, <1>2, PTL

-----------------------------------------------------------------------------
(***************************************************************************)
(* The call log.  The receipt of a call comes before its response is       *)
(* stored, and in a run that nobody interrupts every charge is followed by *)
(* its receipt: the inductive invariants say which worker still owes one.  *)
(***************************************************************************)

\* A worker that is past its receipt has written one.
Logged ==
    /\ StoredHasReceipt
    /\ \A w \in Workers : /\ pc[w] = "complete" => entry[w] = "200"
                          /\ pc[w] = "store" => receipts[call[w]] > 0

\* No step takes a receipt back.
LEMMA ReceiptsGrow ==
    ASSUME TypeOK, [Next]_vars, NEW c \in Calls
    PROVE  receipts'[c] >= receipts[c]
<1>1. ASSUME NEW w \in Workers, call[w] \in Calls, LogAttempt(w) PROVE receipts'[c] >= receipts[c]
  <2>1. CASE call[w] = c
    BY <1>1, <2>1 DEF LogAttempt, TypeOK
  <2>2. CASE call[w] # c
    BY <1>1, <2>2 DEF LogAttempt, TypeOK
  <2> QED
    BY <2>1, <2>2
<1>2. ASSUME NEW w \in Workers, WriteReceipt(w) \/ FailDo(w) PROVE receipts'[c] >= receipts[c]
  BY <1>1, <1>2 DEF WriteReceipt, FailDo, TypeOK, LocalsOK
<1>3. receipts' = receipts => receipts'[c] >= receipts[c]
  BY DEF TypeOK
<1> QED
  BY NextCases, <1>2, <1>3
     DEF vars, process, local, server, CacheHit, RefuseOffline, RefuseExpensive, Refused, Miss,
         ReserveBlind, ReserveCredits, RefuseFloor, Send, Abandon, Charge, Answer, Reject, NetFail,
         HandleResponse, Store, Interrupt, Restart, Finished

\* A worker comes to its receipt and past it in two ways only.
LEMMA LoggedWorkers ==
    ASSUME TypeOK, Logged, [Next]_vars, NEW w \in Workers
    PROVE  /\ pc'[w] = "complete" => entry'[w] = "200"
           /\ pc'[w] = "store" => receipts'[call'[w]] > 0
<1> DEFINE Ready == /\ pc'[w] = "complete" => entry'[w] = "200"
                    /\ pc'[w] = "store" => receipts'[call'[w]] > 0
<1> USE DEF process, local, server
<1>1. ASSUME pc'[w] = pc[w], entry'[w] = entry[w], call'[w] = call[w] PROVE Ready
  <2>1. pc[w] = "store" => receipts'[call[w]] >= receipts[call[w]] /\ call[w] \in Calls
    BY ReceiptsGrow DEF TypeOK, LocalsOK
  <2>2. receipts \in [Calls -> Nat] /\ receipts' \in [Calls -> Nat]
    BY TypeNext DEF TypeOK
  <2> QED
    BY <1>1, <2>1, <2>2 DEF Logged
<1>2. ASSUME pc'[w] \notin {"complete", "store"} PROVE Ready
  BY <1>2
<1>3. ASSUME NEW v \in Workers, v # w,
             \/ Begin(v) \/ Continue(v) \/ Serve(v)
      PROVE  Ready
  <2>1. pc'[w] = pc[w] /\ entry'[w] = entry[w] /\ call'[w] = call[w]
    BY <1>3 DEF Begin, CacheHit, RefuseOffline, RefuseExpensive, Refused, Miss, Continue, ReserveBlind,
       ReserveCredits, RefuseFloor, Send, Abandon, HandleResponse, WriteReceipt, Store, FailDo, Return,
       Serve, Charge, Reject, NetFail, Answer, Goto, TypeOK, LocalsOK
  <2> QED
    BY <1>1, <2>1
<1>4. ASSUME NEW c \in Calls, CacheHit(w, c) \/ RefuseOffline(w, c) \/ RefuseExpensive(w, c) PROVE Ready
  BY <1>1, <1>4 DEF CacheHit, RefuseOffline, RefuseExpensive, Refused
<1>5. CASE HandleResponse(w)
  <2>1. pc'[w] = "complete" => entry'[w] = "200"
    BY <1>5 DEF HandleResponse, Goto, StatusOf, TypeOK, LocalsOK
  <2>2. pc'[w] # "store"
    BY <1>5 DEF HandleResponse, Goto, TypeOK, LocalsOK
  <2> QED
    BY <2>1, <2>2
<1>6. CASE WriteReceipt(w)
  <2>1. pc'[w] = "store" /\ entry[w] = "200" /\ call'[w] = call[w] /\ call[w] \in Calls
    BY <1>6 DEF WriteReceipt, Goto, Logged, TypeOK, LocalsOK
  <2>2. receipts'[call[w]] > 0
    BY <1>6, <2>1 DEF WriteReceipt, LogAttempt, TypeOK
  <2> QED
    BY <2>1, <2>2
<1>7. CASE Begin(w) \/ Continue(w) \/ Serve(w)
  <2>1. CASE \E c \in Calls : Miss(w, c)
    BY <1>2, <2>1 DEF Miss, Goto, TypeOK, LocalsOK
  <2>2. CASE ReserveBlind(w) \/ ReserveCredits(w) \/ Send(w) \/ Abandon(w) \/ Serve(w)
    BY <1>2, <2>2 DEF ReserveBlind, ReserveCredits, Send, Abandon, Serve, Charge, Reject, NetFail, Answer, Goto, TypeOK, LocalsOK
  <2>3. CASE RefuseFloor(w) \/ Store(w) \/ FailDo(w)
    BY <1>2, <2>3 DEF RefuseFloor, Store, FailDo, Return, Goto, TypeOK, LocalsOK
  <2> QED
    BY <1>4, <1>5, <1>6, <1>7, <2>1, <2>2, <2>3 DEF Begin, Continue
<1>8. CASE Restart
  BY <1>2, <1>8 DEF Restart, IdleLocals
<1>9. CASE Interrupt \/ Finished \/ UNCHANGED vars
  BY <1>1, <1>9 DEF Interrupt, Finished, vars
<1> QED
  BY <1>3, <1>7, <1>8, <1>9 DEF Next

LEMMA LoggedNext == TypeOK /\ Exclusive /\ Logged /\ [Next]_vars => Logged'
<1> SUFFICES ASSUME TypeOK, Exclusive, Logged, [Next]_vars, NEW c \in cache', charges'[c] > 0
             PROVE  receipts'[c] > 0
  BY LoggedWorkers DEF Logged, StoredHasReceipt
<1>0. c \in Calls /\ receipts'[c] >= receipts[c] /\ receipts'[c] \in Nat /\ receipts[c] \in Nat
  BY TypeNext, ReceiptsGrow DEF TypeOK
<1>1. CASE c \in cache
  <2>1. charges'[c] = charges[c]
    <3>1. ASSUME NEW w \in Workers, Charge(w) PROVE charges'[c] = charges[c]
      BY <1>1, <3>1 DEF Charge, Exclusive, Busy, TypeOK
    <3> QED
      BY <3>1, ChargeOnly
  <2> QED
    BY <1>0, <1>1, <2>1 DEF Logged, StoredHasReceipt
<1>2. CASE c \notin cache
  <2>1. PICK w \in Workers : Store(w)
    BY <1>2, NextCases
       DEF vars, process, local, server, CacheHit, RefuseOffline, RefuseExpensive, Refused, Miss,
           ReserveBlind, ReserveCredits, RefuseFloor, Send, Abandon, Charge, Answer, Reject, NetFail,
           HandleResponse, WriteReceipt, FailDo, Interrupt, Restart, Finished
  <2>2. pc[w] = "store" /\ c = call[w]
    BY <1>2, <2>1 DEF Store, Stored
  <2> QED
    BY <1>0, <2>2 DEF Logged
<1> QED
  BY <1>1, <1>2

\* What was paid for and is on disk is on the log, whatever crashed in between.
THEOREM StoredIsReceipted == Spec => []StoredHasReceipt
<1>1. Init => Logged
  BY DEF Init, Logged, StoredHasReceipt
<1>2. Logged => StoredHasReceipt
  BY DEF Logged
<1> QED
  BY <1>1, <1>2, LoggedNext, TypeInit, TypeNext, ExclusiveInit, ExclusiveNext, PTL DEF Spec

-----------------------------------------------------------------------------
(***************************************************************************)
(* What an uninterrupted first run has to show for its money: a receipt    *)
(* for every charge, once nothing is in flight.                            *)
(***************************************************************************)

Uninterrupted == runs = 1 /\ ~cancelled

\* A worker whose call has been charged and is not on the log yet.
Owing(w) == pc[w] = "complete" \/ (pc[w] = "reply" /\ Is200(reply[w]))

\* What the receipt of w will say is what became of its call.
Truthful(w) ==
    /\ pc[w] = "complete" => entry[w] = "200"
    /\ pc[w] = "failed" => entry[w] # "200"
    /\ pc[w] = "reply" => reply[w].kind # "cut"

Receipted ==
    /\ \A c \in Calls \ InFlight : receipts[c] = charges[c]
    /\ \A w \in Busy : charges[call[w]] = IF Owing(w) THEN receipts[call[w]] + 1 ELSE receipts[call[w]]
    /\ \A w \in Workers : Truthful(w)

\* A worker whose call's response is in its hands.
Holding(w) == pc[w] \in {"complete", "store"} \/ (pc[w] = "reply" /\ reply[w].kind = "ok")

\* A step of the worker w that stays inside its Do, as the others see it.
StaysInside(w) ==
    /\ w \in Busy /\ pc'[w] # "idle" /\ UNCHANGED <<call, cache>>
    /\ \A v \in Workers \ {w} : pc'[v] = pc[v] /\ entry'[v] = entry[v] /\ reply'[v] = reply[v]
    /\ \A c \in Calls \ {call[w]} : charges'[c] = charges[c] /\ receipts'[c] = receipts[c]

LEMMA InsideSame ==
    ASSUME NEW w \in Workers, StaysInside(w)
    PROVE  Busy' = Busy /\ InFlight' = InFlight
<1>1. Busy' = Busy
  BY DEF StaysInside, Busy
<1> QED
  BY <1>1 DEF StaysInside, InFlight

LEMMA OtherCalls ==
    ASSUME TypeOK, Exclusive, NEW w \in Busy, NEW v \in Busy \ {w}
    PROVE  call[v] \in Calls \ {call[w]}
BY DEF Exclusive, Busy, TypeOK, LocalsOK

LEMMA ReceiptedInside ==
    ASSUME TypeOK, Exclusive, Receipted, NEW w \in Workers, StaysInside(w), Truthful(w)',
           charges'[call[w]] = IF Owing(w)' THEN receipts'[call[w]] + 1 ELSE receipts'[call[w]]
    PROVE  Receipted'
<1>1. Busy' = Busy /\ InFlight' = InFlight /\ w \in Busy /\ call[w] \in InFlight /\ call' = call
  BY InsideSame DEF StaysInside, InFlight
<1>2. \A c \in Calls \ InFlight' : receipts'[c] = charges'[c]
  BY <1>1 DEF StaysInside, Receipted
<1>3. ASSUME NEW v \in Busy \ {w}
      PROVE  charges'[call[v]] = IF Owing(v)' THEN receipts'[call[v]] + 1 ELSE receipts'[call[v]]
  <2>1. charges'[call[v]] = charges[call[v]] /\ receipts'[call[v]] = receipts[call[v]]
    BY <1>1, OtherCalls DEF StaysInside
  <2>2. Owing(v)' <=> Owing(v)
    BY DEF StaysInside, Owing, Busy
  <2> QED
    BY <2>1, <2>2 DEF Receipted
<1>4. \A v \in Workers \ {w} : Truthful(v)'
  BY DEF StaysInside, Receipted, Truthful
<1> QED
  BY <1>1, <1>2, <1>3, <1>4 DEF Receipted

\* Miss and Return as the others see them: w's call becomes, or ceases to be,
\* in flight.
LEMMA MissFlights ==
    ASSUME TypeOK, NEW w \in Workers, NEW c \in Calls, Miss(w, c)
    PROVE  /\ w \notin Busy /\ c \notin InFlight /\ call'[w] = c /\ pc'[w] = "guard"
           /\ Busy' = Busy \cup {w}
           /\ \A v \in Workers \ {w} : pc'[v] = pc[v] /\ call'[v] = call[v]
           /\ InFlight' = InFlight \cup {c}
<1>1. /\ w \notin Busy /\ c \notin InFlight /\ call'[w] = c /\ pc'[w] = "guard"
      /\ \A v \in Workers \ {w} : pc'[v] = pc[v] /\ call'[v] = call[v]
  BY DEF Miss, MayAsk, Goto, Busy, TypeOK, LocalsOK
<1>2. Busy' = Busy \cup {w}
  BY <1>1 DEF Busy
<1>3. InFlight' = InFlight \cup {c}
  BY <1>1, <1>2 DEF InFlight, Busy
<1> QED
  BY <1>1, <1>2, <1>3

LEMMA ReturnFlights ==
    ASSUME TypeOK, Exclusive, NEW w \in Busy, NEW result, Return(w, result)
    PROVE  /\ pc'[w] = "idle" /\ Busy' = Busy \ {w}
           /\ \A v \in Workers \ {w} : pc'[v] = pc[v] /\ call'[v] = call[v] /\ entry'[v] = entry[v] /\ reply'[v] = reply[v]
           /\ InFlight' = InFlight \ {call[w]}
<1>1. /\ pc'[w] = "idle"
      /\ \A v \in Workers \ {w} : pc'[v] = pc[v] /\ call'[v] = call[v] /\ entry'[v] = entry[v] /\ reply'[v] = reply[v]
  BY DEF Return, Goto, Busy, TypeOK, LocalsOK
<1>2. Busy' = Busy \ {w}
  BY <1>1 DEF Busy
<1>3. \A v \in Busy \ {w} : call'[v] = call[v] /\ call[v] # call[w]
  BY <1>1 DEF Exclusive, Busy
<1>4. InFlight' = InFlight \ {call[w]}
  BY <1>2, <1>3 DEF InFlight
<1> QED
  BY <1>1, <1>2, <1>4

LEMMA ReceiptedReturn ==
    ASSUME TypeOK, Exclusive, Receipted, NEW w \in Busy, NEW result, Return(w, result),
           charges' = charges, receipts' = receipts, ~Owing(w)
    PROVE  Receipted'
<1>1. /\ pc'[w] = "idle" /\ Busy' = Busy \ {w}
      /\ \A v \in Workers \ {w} : pc'[v] = pc[v] /\ call'[v] = call[v] /\ entry'[v] = entry[v] /\ reply'[v] = reply[v]
      /\ InFlight' = InFlight \ {call[w]}
  BY ReturnFlights
<1>2. \A c \in Calls \ InFlight' : receipts'[c] = charges'[c]
  BY <1>1 DEF Receipted
<1>3. \A v \in Busy' : charges'[call'[v]] = IF Owing(v)' THEN receipts'[call'[v]] + 1 ELSE receipts'[call'[v]]
  BY <1>1 DEF Receipted, Owing, Busy
<1>4. \A v \in Workers : Truthful(v)'
  BY <1>1 DEF Receipted, Truthful
<1> QED
  BY <1>2, <1>3, <1>4 DEF Receipted

LEMMA ReceiptedNext ==
    ASSUME WholeResponses, TypeOK, Exclusive, Receipted, ~cancelled', runs' = 1, Uninterrupted, [Next]_vars
    PROVE  Receipted'
<1> USE DEF process, local, server
<1>1. ASSUME UNCHANGED <<pc, call, entry, reply, charges, receipts>> PROVE Receipted'
  <2>1. Busy' = Busy
    BY <1>1 DEF Busy
  <2>2. InFlight' = InFlight
    BY <1>1, <2>1 DEF InFlight
  <2> QED
    BY <1>1, <2>1, <2>2 DEF Receipted, Owing, Truthful
<1>2. ASSUME NEW w \in Workers, NEW c \in Calls, Miss(w, c) PROVE Receipted'
  <2>1. /\ c \notin InFlight /\ call'[w] = c /\ pc'[w] = "guard" /\ Busy' = Busy \cup {w}
        /\ \A v \in Workers \ {w} : pc'[v] = pc[v] /\ call'[v] = call[v]
        /\ InFlight' = InFlight \cup {c}
    BY <1>2, MissFlights
  <2>2. UNCHANGED <<entry, reply, charges, receipts>>
    BY <1>2 DEF Miss
  <2>3. ~Owing(w)' /\ \A v \in Workers \ {w} : (Owing(v)' <=> Owing(v)) /\ (Truthful(v) => Truthful(v)')
    BY <2>1, <2>2 DEF Owing, Truthful
  <2>4. \A v \in Busy' : charges'[call'[v]] = IF Owing(v)' THEN receipts'[call'[v]] + 1 ELSE receipts'[call'[v]]
    BY <2>1, <2>2, <2>3 DEF Receipted, Busy
  <2>5. Truthful(w)'
    BY <2>1 DEF Truthful
  <2> QED
    BY <2>1, <2>2, <2>3, <2>4, <2>5 DEF Receipted
\* Steps on the way to the request: nothing is owed before it is sent.
<1>3. ASSUME NEW w \in Workers, NEW label \in {"attempt", "wire"}, Goto(w, label), w \in Busy, ~Owing(w),
             UNCHANGED <<call, entry, reply, charges, receipts, cache>>
      PROVE  Receipted'
  <2>1. StaysInside(w) /\ Truthful(w)' /\ ~Owing(w)'
    BY <1>3 DEF StaysInside, Goto, Truthful, Owing, TypeOK, LocalsOK
  <2>2. charges'[call[w]] = receipts'[call[w]]
    BY <1>3 DEF Receipted
  <2> QED
    BY <2>1, <2>2, ReceiptedInside
<1>4. ASSUME NEW w \in Workers, Charge(w) PROVE Receipted'
  <2>1. PICK r \in Replies : Answer(w, r) /\ r.kind \in {"ok", "garbled"}
    <3>1. PICK remaining \in Nat \cup {Unknown} :
             Answer(w, Reply("ok", remaining)) \/ Answer(w, Reply("garbled", remaining))
      <4>1. balance' \in Nat
        BY <1>4, TypeNext DEF TypeOK
      <4> QED
        BY <1>4, <4>1 DEF Charge, Possible, WholeResponses, Uninterrupted
    <3> QED
      BY <3>1, ReplyType DEF ReplyKinds
  <2>2. pc[w] = "wire" /\ charges' = [charges EXCEPT ![call[w]] = @ + 1] /\ call[w] \in Calls
    BY <1>4 DEF Charge, TypeOK, LocalsOK
  <2>3. StaysInside(w) /\ Truthful(w)' /\ Owing(w)'
    BY <2>1, <2>2 DEF Answer, Goto, StaysInside, Truthful, Owing, Is200, Busy, TypeOK, LocalsOK
  <2>4. charges[call[w]] = receipts[call[w]]
    BY <2>2 DEF Receipted, Owing, Busy
  <2>5. charges'[call[w]] = receipts'[call[w]] + 1
    BY <2>1, <2>2, <2>4 DEF Answer, TypeOK
  <2> QED
    BY <2>3, <2>5, ReceiptedInside
<1>5. ASSUME NEW w \in Workers, Reject(w) \/ NetFail(w) PROVE Receipted'
  <2>1. PICK r : Answer(w, r) /\ r.kind \in {"429", "5xx", "4xx", "neterr"}
    BY <1>5 DEF Reject, NetFail, Reply
  <2>2. pc[w] = "wire" /\ charges' = charges
    BY <1>5 DEF Reject, NetFail
  <2>3. StaysInside(w) /\ Truthful(w)' /\ ~Owing(w)'
    BY <2>1, <2>2 DEF Answer, Goto, StaysInside, Truthful, Owing, Is200, Busy, TypeOK, LocalsOK
  <2>4. charges'[call[w]] = receipts'[call[w]]
    BY <2>1, <2>2 DEF Receipted, Owing, Busy, Answer
  <2> QED
    BY <2>3, <2>4, ReceiptedInside
<1>6. ASSUME NEW w \in Workers, HandleResponse(w) PROVE Receipted'
  <2>1. pc[w] = "reply" /\ w \in Busy /\ UNCHANGED <<call, charges, receipts, cache>>
        /\ entry'[w] = StatusOf(reply[w])
    BY <1>6 DEF HandleResponse, Busy, TypeOK, LocalsOK
  <2>2. reply[w].kind \in ReplyKinds \ {"cut", "none"}
    BY <2>1, ReplyType DEF Receipted, Truthful, TypeOK, LocalsOK
  <2>3. /\ pc'[w] \in {"attempt", "complete", "failed"}
        /\ pc'[w] = "complete" <=> Is200(reply[w])
    BY <1>6, <2>1, <2>2 DEF HandleResponse, Goto, Retryable, Is200, TypeOK, LocalsOK
  <2>4. entry'[w] = "200" <=> Is200(reply[w])
    BY <2>1, <2>2 DEF StatusOf, Is200, ReplyKinds
  <2>5. StaysInside(w)
    BY <1>6, <2>1, <2>3 DEF HandleResponse, Goto, StaysInside, TypeOK, LocalsOK
  <2>6. Truthful(w)' /\ (Owing(w)' <=> Owing(w))
    BY <2>1, <2>3, <2>4 DEF Truthful, Owing
  <2>7. charges'[call[w]] = IF Owing(w)' THEN receipts'[call[w]] + 1 ELSE receipts'[call[w]]
    BY <2>1, <2>6 DEF Receipted
  <2> QED
    BY <2>5, <2>6, <2>7, ReceiptedInside
<1>7. ASSUME NEW w \in Workers, WriteReceipt(w) PROVE Receipted'
  <2>1. /\ pc[w] = "complete" /\ w \in Busy /\ pc'[w] = "store" /\ call[w] \in Calls
        /\ UNCHANGED <<call, entry, reply, charges, cache>>
    BY <1>7 DEF WriteReceipt, Goto, Busy, TypeOK, LocalsOK
  <2>2. entry[w] = "200"
    BY <2>1 DEF Receipted, Truthful
  <2>3. receipts' = [receipts EXCEPT ![call[w]] = @ + 1]
    BY <1>7, <2>2 DEF WriteReceipt, LogAttempt
  <2>4. StaysInside(w) /\ Truthful(w)' /\ ~Owing(w)'
    BY <1>7, <2>1, <2>3 DEF WriteReceipt, Goto, StaysInside, Truthful, Owing, TypeOK, LocalsOK
  <2>5. charges'[call[w]] = receipts'[call[w]]
    BY <2>1, <2>3 DEF Receipted, Owing, TypeOK
  <2> QED
    BY <2>4, <2>5, ReceiptedInside
<1>8. ASSUME NEW w \in Workers, RefuseFloor(w) \/ Store(w) PROVE Receipted'
  <2>1. w \in Busy /\ ~Owing(w) /\ charges' = charges /\ receipts' = receipts
    BY <1>8 DEF RefuseFloor, Store, Owing, Busy
  <2>2. \E result : Return(w, result)
    BY <1>8 DEF RefuseFloor, Store
  <2> QED
    BY <2>1, <2>2, ReceiptedReturn
<1>9. ASSUME NEW w \in Workers, FailDo(w) PROVE Receipted'
  <2>1. pc[w] = "failed" /\ w \in Busy /\ ~Owing(w) /\ charges' = charges /\ Return(w, "error")
    BY <1>9 DEF FailDo, Owing, Busy
  <2>2. receipts' = receipts
    <3>1. entry[w] # "200" /\ call[w] \in Calls
      BY <2>1 DEF Receipted, Truthful, TypeOK, LocalsOK
    <3>2. receipts' = [receipts EXCEPT ![call[w]] = @ + 0]
      BY <1>9, <3>1 DEF FailDo, LogAttempt
    <3> QED
      BY <3>1, <3>2 DEF TypeOK
  <2> QED
    BY <2>1, <2>2, ReceiptedReturn
<1>10. ASSUME NEW w \in Workers, ReserveBlind(w) \/ ReserveCredits(w) \/ Send(w) PROVE Receipted'
  BY <1>3, <1>10 DEF ReserveBlind, ReserveCredits, Send, Busy, Owing
<1>11. ~(\E w \in Workers : Abandon(w)) /\ ~Interrupt /\ ~Restart
  BY DEF Uninterrupted, Abandon, Interrupt, Restart
<1> QED
  BY NextCases, <1>1, <1>2, <1>4, <1>5, <1>6, <1>7, <1>8, <1>9, <1>10, <1>11
     DEF CacheHit, RefuseOffline, RefuseExpensive, Refused, Finished, vars

LEMMA ReceiptedInit == Init => Receipted
BY DEF Init, Receipted, Busy, InFlight, Truthful

\* A run that was cancelled or restarted stays so.
LEMMA InterruptedStays == TypeOK /\ [Next]_vars /\ Uninterrupted' => Uninterrupted
<1> SUFFICES ASSUME TypeOK, [Next]_vars, Uninterrupted' PROVE Uninterrupted
  OBVIOUS
<1>1. (runs' = runs /\ cancelled' = cancelled) \/ Interrupt \/ Restart
  BY NextCases
     DEF vars, process, local, server, CacheHit, RefuseOffline, RefuseExpensive, Refused, Miss,
         ReserveBlind, ReserveCredits, RefuseFloor, Send, Abandon, Charge, Answer, Reject, NetFail,
         HandleResponse, WriteReceipt, Store, FailDo, Finished
<1>2. ~Interrupt
  BY DEF Interrupt, Uninterrupted
<1>3. ~Restart
  <2>1. runs \in Nat \ {0}
    BY ConstantsAssumption DEF TypeOK
  <2> QED
    BY <2>1 DEF Restart, Uninterrupted
<1> QED
  BY <1>1, <1>2, <1>3 DEF Uninterrupted

\* As long as charged responses arrive whole, the receipts of a run that nobody
\* interrupts reconcile with the account: one for every charge, none besides.
THEOREM RunReconciles ==
    ASSUME WholeResponses
    PROVE  Spec => []ReceiptsReconcile
<1> DEFINE Inv == Uninterrupted => Receipted
<1>1. Inv => ReceiptsReconcile
  BY DEF Uninterrupted, Receipted, ReceiptsReconcile, InFlight
<1>2. Init => Inv
  BY ReceiptedInit
<1>3. TypeOK /\ Exclusive /\ Inv /\ [Next]_vars => Inv'
  BY WholeResponses, InterruptedStays, ReceiptedNext DEF Uninterrupted
<1> HIDE DEF Inv
<1> QED
  BY <1>1, <1>2, <1>3, TypeInit, TypeNext, ExclusiveInit, ExclusiveNext, PTL DEF Spec

-----------------------------------------------------------------------------
(* What a first run pays for is on disk or was reported.  The inductive    *)
(* invariant adds that a call the budget guard may still refuse is unpaid. *)

Reported ==
    /\ \A c \in Calls \ InFlight : charges[c] > 0 => c \in cache \/ outcome[c] = "error"
    /\ \A w \in Workers : pc[w] = "guard" => charges[call[w]] = 0

\* Steps inside a Do: what they may charge is the call of a worker past the guard.
LEMMA ReportedInside ==
    ASSUME TypeOK, Exclusive, Reported, NEW w \in Busy, pc'[w] \notin {"idle", "guard"},
           UNCHANGED <<call, cache, outcome>>,
           \A v \in Workers \ {w} : pc'[v] = pc[v],
           \A c \in Calls \ {call[w]} : charges'[c] = charges[c]
    PROVE  Reported'
<1>1. Busy' = Busy /\ w \in Workers
  BY DEF Busy
<1>2. InFlight' = InFlight /\ call[w] \in InFlight
  BY <1>1 DEF InFlight
<1>3. \A c \in Calls \ InFlight' : charges'[c] > 0 => c \in cache' \/ outcome'[c] = "error"
  BY <1>2 DEF Reported
<1>4. ASSUME NEW v \in Workers, pc'[v] = "guard" PROVE charges'[call'[v]] = 0
  <2>1. v \in Busy \ {w} /\ pc[v] = "guard"
    BY <1>4 DEF Busy
  <2>2. call[v] \in Calls \ {call[w]}
    BY <2>1, OtherCalls
  <2> QED
    BY <2>1, <2>2 DEF Reported
<1> QED
  BY <1>3, <1>4 DEF Reported

LEMMA ReportedReturn ==
    ASSUME TypeOK, Exclusive, Reported, NEW w \in Busy, NEW result, Return(w, result), charges' = charges,
           \/ cache' = Stored(call[w])
           \/ cache' = cache /\ (result = "error" \/ pc[w] = "guard")
    PROVE  Reported'
<1>1. /\ pc'[w] = "idle" /\ Busy' = Busy \ {w}
      /\ \A v \in Workers \ {w} : pc'[v] = pc[v] /\ call'[v] = call[v]
      /\ InFlight' = InFlight \ {call[w]}
  BY ReturnFlights
<1>2. call[w] \in Calls /\ outcome' = [outcome EXCEPT ![call[w]] = result] /\ cache \subseteq cache'
  BY DEF Return, Stored, Busy, TypeOK, LocalsOK
<1>3. charges[call[w]] > 0 => call[w] \in cache' \/ outcome'[call[w]] = "error"
  BY <1>2 DEF Stored, Reported, Busy, TypeOK
<1>4. \A c \in Calls \ InFlight' : charges'[c] > 0 => c \in cache' \/ outcome'[c] = "error"
  BY <1>1, <1>2, <1>3 DEF Reported, TypeOK
<1>5. \A v \in Workers : pc'[v] = "guard" => charges'[call'[v]] = 0
  BY <1>1 DEF Reported
<1> QED
  BY <1>4, <1>5 DEF Reported

LEMMA ReportedNext ==
    ASSUME TypeOK, Exclusive, Reported, ~Restart, [Next]_vars
    PROVE  Reported'
<1> USE DEF process, local, server
\* A call that was asked for again, and paid for before, is on disk.
<1>1. ASSUME NEW w \in Workers, NEW c \in Calls, MayAsk(w, c), NEW result, Refused(w, c, result)
      PROVE  Reported'
  <2>1. UNCHANGED <<pc, call, charges, cache>> /\ outcome' = [outcome EXCEPT ![c] = result]
    BY <1>1 DEF Refused
  <2>2. Busy' = Busy
    BY <2>1 DEF Busy
  <2>3. InFlight' = InFlight
    BY <2>1, <2>2 DEF InFlight
  <2>4. charges[c] > 0 => c \in cache
    BY <1>1 DEF MayAsk, Reported
  <2> QED
    BY <2>1, <2>3, <2>4 DEF Reported, TypeOK
<1>2. ASSUME NEW w \in Workers, NEW c \in Calls, Miss(w, c) PROVE Reported'
  <2>1. /\ c \notin InFlight /\ call'[w] = c /\ pc'[w] = "guard"
        /\ \A v \in Workers \ {w} : pc'[v] = pc[v] /\ call'[v] = call[v]
        /\ InFlight' = InFlight \cup {c}
    BY <1>2, MissFlights
  <2>2. UNCHANGED <<charges, cache, outcome>>
    BY <1>2 DEF Miss
  <2>3. charges[c] = 0
    BY <1>2, <2>1 DEF Miss, MayAsk, Hit, Reported, TypeOK
  <2> QED
    BY <2>1, <2>2, <2>3 DEF Reported
<1>3. ASSUME NEW w \in Workers, pc[w] # "idle", NEW label \in {"attempt", "wire", "reply", "complete", "store", "failed"},
             Goto(w, label), UNCHANGED <<call, cache, outcome>>,
             \A c \in Calls \ {call[w]} : charges'[c] = charges[c]
      PROVE  Reported'
  <2>1. w \in Busy /\ pc'[w] = label /\ \A v \in Workers \ {w} : pc'[v] = pc[v]
    BY <1>3 DEF Goto, Busy, TypeOK, LocalsOK
  <2> QED
    BY <1>3, <2>1, ReportedInside
<1>4. ASSUME NEW w \in Workers, ReserveBlind(w) \/ ReserveCredits(w) \/ Send(w) \/ Abandon(w) PROVE Reported'
  BY <1>3, <1>4 DEF ReserveBlind, ReserveCredits, Send, Abandon
<1>5. ASSUME NEW w \in Workers, Charge(w) \/ Reject(w) \/ NetFail(w) PROVE Reported'
  <2>1. pc[w] = "wire" /\ \E r : Answer(w, r)
    BY <1>5 DEF Charge, Reject, NetFail
  <2>2. \A c \in Calls \ {call[w]} : charges'[c] = charges[c]
    BY <1>5 DEF Charge, Reject, NetFail, TypeOK
  <2> QED
    BY <1>3, <2>1, <2>2 DEF Answer
<1>6. ASSUME NEW w \in Workers, HandleResponse(w) \/ WriteReceipt(w) PROVE Reported'
  <2>1. pc[w] # "idle" /\ UNCHANGED <<call, cache, outcome, charges>>
    BY <1>6 DEF HandleResponse, WriteReceipt
  <2>2. Goto(w, "attempt") \/ Goto(w, "complete") \/ Goto(w, "failed") \/ Goto(w, "store")
    BY <1>6 DEF HandleResponse, WriteReceipt
  <2> QED
    BY <1>3, <2>1, <2>2
<1>7. ASSUME NEW w \in Workers, RefuseFloor(w) PROVE Reported'
  BY <1>7, ReportedReturn DEF RefuseFloor, Busy
<1>8. ASSUME NEW w \in Workers, Store(w) PROVE Reported'
  <2>1. w \in Busy /\ charges' = charges
    BY <1>8 DEF Store, Busy
  <2>2. \E result : /\ Return(w, result)
                    /\ \/ cache' = Stored(call[w])
                       \/ cache' = cache /\ result = "error"
    BY <1>8 DEF Store
  <2> QED
    BY <2>1, <2>2, ReportedReturn
<1>9. ASSUME NEW w \in Workers, FailDo(w) PROVE Reported'
  BY <1>9, ReportedReturn DEF FailDo, Busy
<1>10. ASSUME UNCHANGED <<pc, call, charges, cache, outcome>> PROVE Reported'
  <2>1. Busy' = Busy
    BY <1>10 DEF Busy
  <2>2. InFlight' = InFlight
    BY <1>10, <2>1 DEF InFlight
  <2> QED
    BY <1>10, <2>1, <2>2 DEF Reported
<1>11. (Interrupt \/ Finished \/ UNCHANGED vars) => UNCHANGED <<pc, call, charges, cache, outcome>>
  BY DEF Interrupt, Finished, vars
<1> QED
  BY NextCases, <1>1, <1>2, <1>4, <1>5, <1>6, <1>7, <1>8, <1>9, <1>10, <1>11
     DEF CacheHit, RefuseOffline, RefuseExpensive

LEMMA ReportedInit == Init => Reported
BY DEF Init, Reported

\* A restarted run is not the first.
LEMMA FirstRunStays == TypeOK /\ [Next]_vars /\ runs' = 1 => runs = 1 /\ ~Restart
<1> SUFFICES ASSUME TypeOK, [Next]_vars, runs' = 1 PROVE runs = 1 /\ ~Restart
  OBVIOUS
<1>1. ~Restart
  <2>1. runs \in Nat \ {0}
    BY ConstantsAssumption DEF TypeOK
  <2> QED
    BY <2>1 DEF Restart
<1>2. runs' = runs \/ Restart
  BY NextCases
     DEF vars, process, local, server, CacheHit, RefuseOffline, RefuseExpensive, Refused, Miss,
         ReserveBlind, ReserveCredits, RefuseFloor, Send, Abandon, Charge, Answer, Reject, NetFail,
         HandleResponse, WriteReceipt, Store, FailDo, Interrupt, Finished
<1> QED
  BY <1>1, <1>2

\* Whatever fails, in the network, the body or the disk, and wherever the run is
\* interrupted: no response is paid for and lost without its caller being told.
THEOREM NoSilentLoss == Spec => []PaidIsKeptOrReported
<1> DEFINE Inv == runs = 1 => Reported
<1>1. Inv => PaidIsKeptOrReported
  BY DEF Reported, PaidIsKeptOrReported
<1>2. Init => Inv
  BY ReportedInit
<1>3. TypeOK /\ Exclusive /\ Inv /\ [Next]_vars => Inv'
  BY FirstRunStays, ReportedNext
<1> HIDE DEF Inv
<1> QED
  BY <1>1, <1>2, <1>3, TypeInit, TypeNext, ExclusiveInit, ExclusiveNext, PTL DEF Spec

\* Nothing but the client itself stands between a charge and the disk.
NothingLost == Faults \cap {"cut", "lost", "garbled", "disk"} = {}

-----------------------------------------------------------------------------
(***************************************************************************)
(* Stopped runs pay again for no more than their workers had in flight.    *)
(* Two things are counted: what was paid again so far together with what   *)
(* this run may yet pay again, which only a new run raises; and what was   *)
(* paid again together with all that is paid for and not on disk, which    *)
(* exceeds the bound by the responses in the workers' hands alone, or,     *)
(* once interrupted, by what each worker had in its hands or on the wire.  *)
(***************************************************************************)

Respent == SumOf(PaidAgain, Calls)

\* Paid for, and not on disk.
Lost == {c \in Calls : charges[c] > 0 /\ c \notin cache}

Holders == {w \in Workers : Holding(w)}
Senders == {w \in Workers : pc[w] = "wire"}

\* Responses in hand are whole, and paid for.
HandsFull ==
    \A w \in Workers :
        /\ reply[w].kind # "garbled"
        /\ pc[w] \in {"complete", "store"} => reply[w].kind = "ok"
        /\ Holding(w) => charges[call[w]] > 0

RespendInv ==
    LET bound == (runs - 1) * Cardinality(Workers)
    IN  /\ Respent + Cardinality(Lost \cap Open) <= bound
        /\ ~cancelled => Respent + Cardinality(Lost) <= bound + Cardinality(Holders)
        /\ cancelled => Respent + Cardinality(Lost) + Cardinality(Senders) <= bound + Cardinality(Workers)

LEMMA HandsFullInit == Init => HandsFull
BY DEF Init, HandsFull, Holding, NoReply, Reply

LEMMA HandsFullNext == NothingLost /\ TypeOK /\ HandsFull /\ [Next]_vars => HandsFull'
<1> SUFFICES ASSUME NothingLost, TypeOK, HandsFull, [Next]_vars PROVE HandsFull'
  OBVIOUS
<1> USE DEF process, local, server
<1>1. ASSUME UNCHANGED <<pc, call, reply, charges>> PROVE HandsFull'
  BY <1>1 DEF HandsFull, Holding
<1>2. ASSUME NEW w \in Workers, NEW c \in Calls, Miss(w, c) PROVE HandsFull'
  BY <1>2 DEF Miss, MayAsk, Goto, HandsFull, Holding, TypeOK, LocalsOK
<1>3. ASSUME NEW w \in Workers, NEW label \in {"attempt", "wire", "failed"}, Goto(w, label),
             UNCHANGED <<call, reply, charges>>
      PROVE  HandsFull'
  BY <1>3 DEF Goto, HandsFull, Holding, TypeOK, LocalsOK
<1>4. ASSUME NEW w \in Workers, Charge(w) PROVE HandsFull'
  <2>1. PICK r : Answer(w, r) /\ r.kind # "garbled"
    BY <1>4 DEF Charge, Possible, NothingLost, Reply
  <2>2. charges' = [charges EXCEPT ![call[w]] = @ + 1] /\ call[w] \in Calls
    BY <1>4 DEF Charge, TypeOK, LocalsOK
  <2>3. \A c \in Calls : charges'[c] \in Nat /\ charges'[c] >= charges[c]
    BY <2>2 DEF TypeOK
  <2>4. charges'[call[w]] > 0
    BY <2>2 DEF TypeOK
  <2>5. \A v \in Workers \ {w} : pc'[v] = pc[v] /\ call'[v] = call[v] /\ reply'[v] = reply[v]
    BY <2>1 DEF Answer, Goto, TypeOK, LocalsOK
  <2>6. pc'[w] = "reply" /\ call'[w] = call[w] /\ reply'[w] = r
    BY <2>1 DEF Answer, Goto, TypeOK, LocalsOK
  <2>7. \A v \in Workers : Holding(v) => call[v] \in Calls
    BY DEF Holding, TypeOK, LocalsOK
  <2>8. ASSUME NEW v \in Workers \ {w}, Holding(v)' PROVE charges'[call'[v]] > 0
    <3>1. Holding(v)
      BY <2>5, <2>8 DEF Holding
    <3>2. charges[call[v]] > 0 /\ charges[call[v]] \in Nat
      BY <2>7, <3>1 DEF HandsFull, TypeOK
    <3> QED
      BY <2>3, <2>5, <2>7, <3>1, <3>2
  <2> QED
    BY <2>1, <2>4, <2>5, <2>6, <2>8 DEF HandsFull
<1>5. ASSUME NEW w \in Workers, Reject(w) \/ NetFail(w) PROVE HandsFull'
  <2>1. PICK r : Answer(w, r) /\ r.kind \in {"429", "5xx", "4xx", "neterr"}
    BY <1>5 DEF Reject, NetFail, Reply
  <2>2. charges' = charges
    BY <1>5 DEF Reject, NetFail
  <2> QED
    BY <2>1, <2>2 DEF Answer, Goto, HandsFull, Holding, TypeOK, LocalsOK
<1>6. ASSUME NEW w \in Workers, HandleResponse(w) PROVE HandsFull'
  <2>1. /\ pc[w] = "reply" /\ UNCHANGED <<call, charges>>
        /\ \A v \in Workers \ {w} : pc'[v] = pc[v] /\ reply'[v] = reply[v]
        /\ \/ pc'[w] \in {"attempt", "failed"} /\ reply'[w] \in {reply[w], NoReply}
           \/ pc'[w] = "complete" /\ reply'[w] = reply[w] /\ reply[w].kind = "ok"
    BY <1>6 DEF HandleResponse, Goto, Retryable, Is200, HandsFull, TypeOK, LocalsOK
  <2> QED
    BY <2>1 DEF HandsFull, Holding, NoReply, Reply
<1>7. ASSUME NEW w \in Workers, WriteReceipt(w) PROVE HandsFull'
  BY <1>7 DEF WriteReceipt, Goto, HandsFull, Holding, TypeOK, LocalsOK
<1>8. ASSUME NEW w \in Workers, NEW result, Return(w, result), charges' = charges PROVE HandsFull'
  BY <1>8 DEF Return, Goto, HandsFull, Holding, NoReply, Reply, TypeOK, LocalsOK
<1>9. CASE Restart
  BY <1>9 DEF Restart, IdleLocals, HandsFull, Holding, NoReply, Reply
<1>10. ASSUME NEW w \in Workers,
              ReserveBlind(w) \/ ReserveCredits(w) \/ Send(w) \/ Abandon(w)
       PROVE  HandsFull'
  BY <1>10, <1>3 DEF ReserveBlind, ReserveCredits, Send, Abandon
<1>11. ASSUME NEW w \in Workers, RefuseFloor(w) \/ Store(w) \/ FailDo(w) PROVE HandsFull'
  BY <1>11, <1>8 DEF RefuseFloor, Store, FailDo
<1> QED
  BY NextCases, <1>1, <1>2, <1>4, <1>5, <1>6, <1>7, <1>9, <1>10, <1>11
     DEF CacheHit, RefuseOffline, RefuseExpensive, Refused, Interrupt, Finished, vars

-----------------------------------------------------------------------------

LEMMA SpendTypes ==
    ASSUME TypeOK
    PROVE  /\ IsFiniteSet(Lost) /\ IsFiniteSet(Lost \cap Open) /\ IsFiniteSet(Holders) /\ IsFiniteSet(Senders)
           /\ Cardinality(Lost) \in Nat /\ Cardinality(Lost \cap Open) \in Nat
           /\ Cardinality(Holders) \in Nat /\ Cardinality(Senders) \in Nat
           /\ Cardinality(Workers) \in Nat
           /\ Respent \in Int
<1>1. IsFiniteSet(Lost) /\ IsFiniteSet(Lost \cap Open) /\ IsFiniteSet(Holders) /\ IsFiniteSet(Senders)
  BY SlotsAssumption, FS_Subset DEF Lost, Holders, Senders
<1>2. \A c \in Calls : PaidAgain[c] \in Int
  BY DEF PaidAgain, TypeOK
<1>3. Respent \in Int
  BY <1>2, SlotsAssumption, SumLaws DEF Respent
<1> QED
  BY <1>1, <1>3, SlotsAssumption, FS_CardinalityType

\* In hand and on the wire are different workers.
LEMMA HandsAndWire ==
    ASSUME TypeOK
    PROVE  Cardinality(Holders) + Cardinality(Senders) <= Cardinality(Workers)
<1>1. Holders \cap Senders = {} /\ Holders \cup Senders \subseteq Workers
  BY DEF Holders, Senders, Holding
<1>2. Cardinality(Holders \cup Senders) <= Cardinality(Workers)
  BY <1>1, SlotsAssumption, FS_Subset
<1>3. Cardinality(Holders \cup Senders) = Cardinality(Holders) + Cardinality(Senders)
  <2>1. Cardinality(Holders \cap Senders) = 0
    BY <1>1, FS_EmptySet
  <2>2. Cardinality(Holders \cup Senders) =
          Cardinality(Holders) + Cardinality(Senders) - Cardinality(Holders \cap Senders)
    BY SpendTypes, FS_Union
  <2> QED
    BY <2>1, <2>2, SpendTypes
<1> QED
  BY <1>2, <1>3

\* A charge is one call paid again or one more call paid for, and what the call
\* costs again it may no longer cost in this run.
LEMMA ChargeCounts ==
    ASSUME NothingLost, TypeOK, TypeOK', Exclusive, NEW w \in Workers, Charge(w)
    PROVE  /\ Respent' + Cardinality(Lost') = Respent + Cardinality(Lost) + 1
           /\ Respent' + Cardinality((Lost \cap Open)') <= Respent + Cardinality(Lost \cap Open)
<1>1. PICK c : c = call[w]
  OBVIOUS
<1>2. c \in Calls /\ c \notin cache /\ c \in Open /\ Open' \subseteq Open \ {c}
  BY <1>1, OpenCharge DEF NothingLost, WholeResponses
<1>3. charges' = [charges EXCEPT ![c] = @ + 1] /\ cache' = cache
  BY <1>1 DEF Charge, Answer
<1>4. PICK f : f = PaidAgain
  OBVIOUS
<1>5. PICK h : h = PaidAgain'
  OBVIOUS
<1>6. Respent = SumOf(f, Calls) /\ Respent' = SumOf(h, Calls)
  BY <1>4, <1>5 DEF Respent
<1>7. \A d \in Calls : f[d] \in Int /\ h[d] \in Int /\ (d # c => f[d] = h[d])
  BY <1>2, <1>3, <1>4, <1>5 DEF PaidAgain, TypeOK
<1>8. Respent' - Respent = h[c] - f[c]
  BY <1>2, <1>6, <1>7, SlotsAssumption, SumChange
<1>9. charges[c] \in Nat /\ charges'[c] = charges[c] + 1
  BY <1>2, <1>3 DEF TypeOK
<1>10. Respent \in Int /\ Respent' \in Int
  BY <1>6, <1>7, SlotsAssumption, SumLaws
<1>11. PICK owed, owing : owed = Lost \cap Open /\ owing = (Lost \cap Open)'
  OBVIOUS
<1>12. IsFiniteSet(Lost) /\ IsFiniteSet(owed) /\ Cardinality(Lost) \in Nat /\ Cardinality(owed) \in Nat
  BY <1>11, SpendTypes
<1>13. CASE charges[c] = 0
  <2>1. h[c] = f[c]
    BY <1>2, <1>4, <1>5, <1>9, <1>13 DEF PaidAgain
  <2>2. c \notin Lost /\ Lost' = Lost \cup {c}
    BY <1>2, <1>3, <1>13 DEF Lost, TypeOK
  <2>3. Cardinality(Lost') = Cardinality(Lost) + 1
    BY <1>12, <2>2, FS_AddElement
  <2>4. owing \subseteq owed
    BY <1>2, <1>11, <2>2
  <2>5. Cardinality(owing) <= Cardinality(owed) /\ Cardinality(owing) \in Nat
    BY <1>12, <2>4, FS_Subset, FS_CardinalityType
  <2>6. Respent' = Respent
    BY <1>7, <1>8, <1>2, <1>10, <2>1
  <2>7. Respent' + Cardinality(Lost') = Respent + Cardinality(Lost) + 1
    BY <1>10, <1>12, <2>3, <2>6
  <2>8. Respent' + Cardinality(owing) <= Respent + Cardinality(owed)
    BY <1>10, <1>12, <2>5, <2>6
  <2> QED
    BY <1>11, <2>7, <2>8
<1>14. CASE charges[c] # 0
  <2>1. h[c] = f[c] + 1 /\ f[c] \in Int
    BY <1>2, <1>4, <1>5, <1>9, <1>14 DEF PaidAgain
  <2>2. c \in Lost /\ Lost' = Lost
    BY <1>2, <1>3, <1>9, <1>14 DEF Lost, TypeOK
  <2>3. owing \subseteq owed \ {c} /\ c \in owed
    BY <1>2, <1>11, <2>2
  <2>4. Cardinality(owing) <= Cardinality(owed \ {c}) /\ Cardinality(owing) \in Nat
    BY <1>12, <2>3, FS_Subset, FS_CardinalityType
  <2>5. Cardinality(owed \ {c}) = Cardinality(owed) - 1
    BY <1>12, <2>3, FS_RemoveElement
  <2>6. Respent' = Respent + 1
    BY <1>8, <1>10, <2>1
  <2>7. Respent' + Cardinality(Lost') = Respent + Cardinality(Lost) + 1
    BY <1>10, <1>12, <2>2, <2>6
  <2>8. Respent' + Cardinality(owing) <= Respent + Cardinality(owed)
    BY <1>10, <1>12, <2>4, <2>5, <2>6
  <2> QED
    BY <1>11, <2>7, <2>8
<1> QED
  BY <1>13, <1>14

\* A step that is no charge and no new run.
LEMMA HandsNext ==
    ASSUME NothingLost, TypeOK, Exclusive, HandsFull, [Next]_vars,
           ~(\E w \in Workers : Charge(w)), ~Restart
    PROVE  /\ UNCHANGED <<charges, runs>>
           /\ cancelled => cancelled' /\ cache \subseteq cache' /\ Senders' \subseteq Senders
           /\ \/ Holders \subseteq Holders' /\ cache \subseteq cache'
              \/ \E w \in Holders : /\ Holders' = Holders \ {w} /\ call[w] \in Lost
                                    /\ cache' = cache \cup {call[w]}
              \/ cancelled
<1> DEFINE Goal == /\ UNCHANGED <<charges, runs>>
                   /\ cancelled => cancelled' /\ cache \subseteq cache' /\ Senders' \subseteq Senders
                   /\ \/ Holders \subseteq Holders' /\ cache \subseteq cache'
                      \/ \E w \in Holders : /\ Holders' = Holders \ {w} /\ call[w] \in Lost
                                            /\ cache' = cache \cup {call[w]}
                      \/ cancelled
<1> USE DEF process, local, server
<1>1. ASSUME UNCHANGED <<pc, reply, charges, runs, cache>>, cancelled' \in {cancelled, TRUE} PROVE Goal
  BY <1>1 DEF Holders, Senders, Holding, TypeOK
<1>2. ASSUME NEW w \in Workers, ~Holding(w), pc'[w] # "wire" \/ ~cancelled,
             \A v \in Workers \ {w} : pc'[v] = pc[v] /\ reply'[v] = reply[v],
             UNCHANGED <<charges, runs, cancelled, cache>>
      PROVE  Goal
  BY <1>2 DEF Holders, Senders, Holding
<1>3. ASSUME NEW w \in Workers, NEW c \in Calls, Miss(w, c) PROVE Goal
  <2>1. ~Holding(w) /\ pc'[w] # "wire"
    BY <1>3 DEF Miss, MayAsk, Goto, Holding, TypeOK, LocalsOK
  <2>2. \A v \in Workers \ {w} : pc'[v] = pc[v] /\ reply'[v] = reply[v]
    BY <1>3 DEF Miss, Goto, TypeOK, LocalsOK
  <2> QED
    BY <1>2, <1>3, <2>1, <2>2 DEF Miss
<1>4. ASSUME NEW w \in Workers,
             ReserveBlind(w) \/ ReserveCredits(w) \/ Send(w) \/ Abandon(w)
      PROVE  Goal
  <2>1. ~Holding(w) /\ (pc'[w] # "wire" \/ ~cancelled)
    BY <1>4 DEF ReserveBlind, ReserveCredits, Send, Abandon, Goto, Holding, TypeOK, LocalsOK
  <2>2. \A v \in Workers \ {w} : pc'[v] = pc[v] /\ reply'[v] = reply[v]
    BY <1>4 DEF ReserveBlind, ReserveCredits, Send, Abandon, Goto, TypeOK, LocalsOK
  <2>3. UNCHANGED <<charges, runs, cancelled, cache>>
    BY <1>4 DEF ReserveBlind, ReserveCredits, Send, Abandon
  <2> QED
    BY <1>2, <2>1, <2>2, <2>3
<1>5. ASSUME NEW w \in Workers, Reject(w) \/ NetFail(w) PROVE Goal
  <2>1. PICK r : Answer(w, r)
    BY <1>5 DEF Reject, NetFail
  <2>2. ~Holding(w) /\ pc'[w] # "wire" /\ charges' = charges
    BY <1>5, <2>1 DEF Reject, NetFail, Answer, Goto, Holding, TypeOK, LocalsOK
  <2>3. \A v \in Workers \ {w} : pc'[v] = pc[v] /\ reply'[v] = reply[v]
    BY <2>1 DEF Answer, Goto, TypeOK, LocalsOK
  <2> QED
    BY <1>2, <2>1, <2>2, <2>3 DEF Answer
<1>6. ASSUME NEW w \in Workers, HandleResponse(w) PROVE Goal
  <2>1. \A v \in Workers \ {w} : pc'[v] = pc[v] /\ reply'[v] = reply[v]
    BY <1>6 DEF HandleResponse, Goto, TypeOK, LocalsOK
  <2>2. UNCHANGED <<charges, runs, cancelled, cache>>
    BY <1>6 DEF HandleResponse
  <2>3. pc'[w] # "wire" /\ (Holding(w) => Holding(w)')
    BY <1>6 DEF HandleResponse, Goto, Holding, Retryable, Is200, TypeOK, LocalsOK
  <2> QED
    BY <2>1, <2>2, <2>3 DEF Holders, Senders, Holding
<1>7. ASSUME NEW w \in Workers, WriteReceipt(w) PROVE Goal
  BY <1>7 DEF WriteReceipt, Goto, Holders, Senders, Holding, TypeOK, LocalsOK
<1>8. ASSUME NEW w \in Workers, RefuseFloor(w) \/ FailDo(w) PROVE Goal
  <2>1. PICK result : Return(w, result)
    BY <1>8 DEF RefuseFloor, FailDo
  <2>2. ~Holding(w) /\ pc'[w] # "wire"
    BY <1>8, <2>1 DEF RefuseFloor, FailDo, Return, Goto, Holding, TypeOK, LocalsOK
  <2>3. \A v \in Workers \ {w} : pc'[v] = pc[v] /\ reply'[v] = reply[v]
    BY <2>1 DEF Return, Goto, TypeOK, LocalsOK
  <2>4. UNCHANGED <<charges, runs, cancelled, cache>>
    BY <1>8 DEF RefuseFloor, FailDo
  <2> QED
    BY <1>2, <2>2, <2>3, <2>4
<1>9. ASSUME NEW w \in Workers, Store(w) PROVE Goal
  <2>1. pc[w] = "store" /\ reply[w].kind = "ok" /\ w \in Holders /\ w \in Busy
    BY <1>9 DEF Store, HandsFull, Holders, Holding, Busy
  <2>2. (cache' = cache \cup {call[w]} \/ cancelled) /\ cache \subseteq cache' /\ \E result : Return(w, result)
    BY <1>9, <2>1 DEF Store, Stored, Possible, NothingLost
  <2>3. UNCHANGED <<charges, runs, cancelled>>
    BY <1>9 DEF Store
  <2>4. pc' = [pc EXCEPT ![w] = "idle"] /\ \A v \in Workers \ {w} : pc'[v] = pc[v] /\ reply'[v] = reply[v]
    BY <2>2 DEF Return, Goto, TypeOK, LocalsOK
  <2>5. Holders' = Holders \ {w} /\ Senders' \subseteq Senders
    BY <2>1, <2>4 DEF Holders, Senders, Holding, TypeOK, LocalsOK
  <2>6. call[w] \in Lost
    BY <2>1 DEF Lost, HandsFull, Exclusive, Holders, Busy, TypeOK, LocalsOK
  <2> QED
    BY <2>1, <2>2, <2>3, <2>5, <2>6
<1>10. Goal
  <2>1. CASE Next
    <3> HIDE DEF Goal
    <3> QED
      BY <2>1, NextCases, <1>1, <1>3, <1>4, <1>5, <1>6, <1>7, <1>8, <1>9
         DEF CacheHit, RefuseOffline, RefuseExpensive, Refused, Interrupt, Finished, vars
  <2>2. CASE UNCHANGED vars
    BY <2>2, <1>1 DEF vars
  <2> QED
    BY <2>1, <2>2
<1> QED
  BY <1>10

LEMMA RespendInit == Init => RespendInv
<1> SUFFICES ASSUME Init PROVE RespendInv
  OBVIOUS
<1>1. TypeOK /\ runs = 1 /\ ~cancelled /\ Lost = {} /\ Lost \cap Open = {}
  BY TypeInit DEF Init, Lost
<1>2. PICK f : f = PaidAgain
  OBVIOUS
<1>3. PICK z : z = [c \in Calls |-> 0]
  OBVIOUS
<1>4. \A c \in Calls : f[c] = 0 /\ z[c] = 0
  BY <1>2, <1>3 DEF Init, PaidAgain
<1>5. Respent = 0
  <2>1. SumOf(f, Calls) = 0
    BY <1>4, SlotsAssumption, SumOfNothing
  <2> QED
    BY <1>2, <2>1 DEF Respent
<1>6. Cardinality({}) = 0 /\ Cardinality(Workers) \in Nat /\ Cardinality(Holders) \in Nat
  BY <1>1, SpendTypes, FS_EmptySet
<1>7. (runs - 1) * Cardinality(Workers) = 0
  BY <1>1, <1>6
<1> QED
  BY <1>1, <1>5, <1>6, <1>7 DEF RespendInv

\* A run that is over leaves at most one loss per worker to the next.
LEMMA RespendRestart ==
    ASSUME TypeOK, TypeOK', RespendInv, Restart
    PROVE  RespendInv'
<1>1. /\ runs' = runs + 1 /\ ~cancelled' /\ Lost' = Lost /\ PaidAgain' = PaidAgain
      /\ runs \in Nat
  BY DEF Restart, server, Lost, PaidAgain, TypeOK
<1>2. Respent' = Respent
  BY <1>1 DEF Respent
<1>3. PICK n \in Nat : n = Cardinality(Workers)
  BY SpendTypes
<1>4. (runs' - 1) * n = (runs - 1) * n + n /\ (runs - 1) * n \in Int
  BY <1>1
<1>5. PICK bound \in Int : bound = (runs - 1) * n
  BY <1>4
<1>6. Respent + Cardinality(Lost) <= bound + n
  BY <1>3, <1>5, SpendTypes, HandsAndWire DEF RespendInv
<1>7. Cardinality((Lost \cap Open)') <= Cardinality(Lost) /\ Cardinality((Lost \cap Open)') \in Nat
  <2>1. (Lost \cap Open)' \subseteq Lost
    BY <1>1
  <2> QED
    BY <2>1, SpendTypes, FS_Subset, FS_CardinalityType
<1>8. Cardinality(Holders') \in Nat /\ Cardinality(Lost) \in Nat /\ Respent \in Int
  <2>1. Cardinality(Holders') \in Nat
    BY SlotsAssumption, FS_Subset, FS_CardinalityType DEF Holders
  <2> QED
    BY <2>1, SpendTypes
<1>9. (runs' - 1) * Cardinality(Workers) = bound + n
  BY <1>3, <1>4, <1>5
<1>10. Respent' + Cardinality((Lost \cap Open)') <= bound + n
  BY <1>2, <1>6, <1>7, <1>8
<1>11. Respent' + Cardinality(Lost') <= bound + n + Cardinality(Holders')
  BY <1>1, <1>2, <1>6, <1>8
<1> QED
  BY <1>1, <1>9, <1>10, <1>11 DEF RespendInv

LEMMA RespendNext ==
    ASSUME NothingLost, TypeOK, TypeOK', Exclusive, HandsFull, RespendInv, [Next]_vars
    PROVE  RespendInv'
<1>1. PICK bound \in Int : bound = (runs - 1) * Cardinality(Workers)
  <2>1. runs \in Nat /\ Cardinality(Workers) \in Nat
    BY SpendTypes DEF TypeOK
  <2> QED
    BY <2>1
<1>2. PICK owed, owing : owed = Lost \cap Open /\ owing = (Lost \cap Open)'
  OBVIOUS
<1>3. /\ Respent \in Int /\ Cardinality(Lost) \in Nat /\ Cardinality(owed) \in Nat
      /\ Cardinality(Holders) \in Nat /\ Cardinality(Senders) \in Nat /\ Cardinality(Workers) \in Nat
      /\ IsFiniteSet(Lost) /\ IsFiniteSet(owed) /\ IsFiniteSet(Holders) /\ IsFiniteSet(Senders)
  BY <1>2, SpendTypes
<1>4. /\ Respent + Cardinality(owed) <= bound
      /\ ~cancelled => Respent + Cardinality(Lost) <= bound + Cardinality(Holders)
      /\ cancelled => Respent + Cardinality(Lost) + Cardinality(Senders) <= bound + Cardinality(Workers)
  BY <1>1, <1>2 DEF RespendInv
<1>5. /\ Respent' \in Int /\ Cardinality(Lost') \in Nat /\ Cardinality(owing) \in Nat
      /\ Cardinality(Holders') \in Nat /\ Cardinality(Senders') \in Nat
      /\ IsFiniteSet(Lost') /\ IsFiniteSet(owing) /\ IsFiniteSet(Holders') /\ IsFiniteSet(Senders')
  <2>1. PICK h : h = PaidAgain'
    OBVIOUS
  <2>2. \A c \in Calls : h[c] \in Int
    BY <2>1 DEF PaidAgain, TypeOK
  <2>3. Respent' \in Int
    BY <2>1, <2>2, SlotsAssumption, SumLaws DEF Respent
  <2>4. IsFiniteSet(Lost') /\ IsFiniteSet(owing) /\ IsFiniteSet(Holders') /\ IsFiniteSet(Senders')
    BY <1>2, SlotsAssumption, FS_Subset DEF Lost, Holders, Senders
  <2> QED
    BY <2>3, <2>4, FS_CardinalityType
<1>6. ASSUME NEW w \in Workers, Charge(w) PROVE RespendInv'
  <2>1. /\ Respent' + Cardinality(Lost') = Respent + Cardinality(Lost) + 1
        /\ Respent' + Cardinality(owing) <= Respent + Cardinality(owed)
    BY <1>2, <1>6, ChargeCounts
  <2>2. PICK r : Answer(w, r) /\ (r.kind = "ok" \/ cancelled)
    BY <1>6 DEF Charge, Possible, NothingLost, Reply
  <2>3. /\ pc[w] = "wire" /\ pc' = [pc EXCEPT ![w] = "reply"] /\ reply' = [reply EXCEPT ![w] = r]
        /\ UNCHANGED <<runs, cancelled>>
    BY <1>6, <2>2 DEF Charge, Answer, Goto, process
  <2>4. (runs' - 1) * Cardinality(Workers) = bound
    BY <1>1, <2>3
  <2>5. CASE cancelled
    <3>1. w \in Senders /\ Senders' = Senders \ {w}
      BY <2>3 DEF Senders, TypeOK, LocalsOK
    <3>2. Cardinality(Senders') = Cardinality(Senders) - 1
      BY <1>3, <3>1, FS_RemoveElement
    <3> QED
      BY <1>2, <1>3, <1>4, <1>5, <2>1, <2>3, <2>4, <2>5, <3>2 DEF RespendInv
  <2>6. CASE ~cancelled
    <3>1. w \notin Holders /\ Holders' = Holders \cup {w}
      BY <2>2, <2>3, <2>6 DEF Holders, Holding, TypeOK, LocalsOK
    <3>2. Cardinality(Holders') = Cardinality(Holders) + 1
      BY <1>3, <3>1, FS_AddElement
    <3> QED
      BY <1>2, <1>3, <1>4, <1>5, <2>1, <2>3, <2>4, <2>6, <3>2 DEF RespendInv
  <2> QED
    BY <2>5, <2>6
<1>7. CASE Restart
  BY <1>7, RespendRestart
<1>8. ASSUME ~(\E w \in Workers : Charge(w)), ~Restart PROVE RespendInv'
  <2>1. /\ UNCHANGED <<charges, runs>>
        /\ cancelled => cancelled' /\ cache \subseteq cache' /\ Senders' \subseteq Senders
        /\ \/ Holders \subseteq Holders' /\ cache \subseteq cache'
           \/ \E w \in Holders : /\ Holders' = Holders \ {w} /\ call[w] \in Lost
                                 /\ cache' = cache \cup {call[w]}
           \/ cancelled
    BY <1>8, HandsNext
  <2>2. Open' \subseteq Open
    BY <1>8, OpenNext
  <2>3. cache \subseteq cache' /\ Lost' \subseteq Lost /\ PaidAgain' = PaidAgain
    BY <2>1 DEF Lost, PaidAgain
  <2>4. Respent' = Respent
    BY <2>3 DEF Respent
  <2>5. owing \subseteq owed
    BY <1>2, <2>2, <2>3
  <2>6. Cardinality(owing) <= Cardinality(owed) /\ Cardinality(Lost') <= Cardinality(Lost)
    BY <1>3, <2>3, <2>5, FS_Subset
  <2>7. (runs' - 1) * Cardinality(Workers) = bound
    BY <1>1, <2>1
  <2>8. Respent' + Cardinality(owing) <= bound
    BY <1>3, <1>4, <1>5, <2>4, <2>6
  <2>9. ASSUME cancelled PROVE RespendInv'
    <3>1. Cardinality(Senders') <= Cardinality(Senders) /\ cancelled'
      BY <1>3, <2>1, <2>9, FS_Subset
    <3>2. Respent' + Cardinality(Lost') + Cardinality(Senders') <= bound + Cardinality(Workers)
      BY <1>3, <1>4, <1>5, <2>4, <2>6, <2>9, <3>1
    <3> QED
      BY <1>2, <2>7, <2>8, <3>1, <3>2 DEF RespendInv
  <2>10. ASSUME ~cancelled PROVE RespendInv'
    <3>1. Respent' + Cardinality(Lost') <= bound + Cardinality(Holders')
      <4>1. CASE Holders \subseteq Holders'
        <5>1. Cardinality(Holders) <= Cardinality(Holders')
          BY <1>5, <4>1, FS_Subset
        <5> QED
          BY <1>3, <1>4, <1>5, <2>4, <2>6, <2>10, <5>1
      <4>2. ASSUME NEW w \in Holders, Holders' = Holders \ {w}, call[w] \in Lost,
                   cache' = cache \cup {call[w]}
            PROVE  Respent' + Cardinality(Lost') <= bound + Cardinality(Holders')
        <5>1. Cardinality(Holders') = Cardinality(Holders) - 1
          BY <1>3, <4>2, FS_RemoveElement
        <5>2. PICK c \in Lost : c = call[w]
          BY <4>2
        <5>3. Lost' \subseteq Lost \ {c}
          BY <2>1, <4>2, <5>2 DEF Lost
        <5>4. Cardinality(Lost \ {c}) = Cardinality(Lost) - 1 /\ IsFiniteSet(Lost \ {c})
          BY <1>3, FS_RemoveElement
        <5>5. Cardinality(Lost') <= Cardinality(Lost \ {c})
          BY <5>3, <5>4, FS_Subset
        <5> QED
          BY <1>3, <1>4, <1>5, <2>4, <2>10, <5>1, <5>4, <5>5
      <4> QED
        BY <2>1, <2>10, <4>1, <4>2
    <3>2. Cardinality(Holders') + Cardinality(Senders') <= Cardinality(Workers)
      <4>1. (TypeOK => Cardinality(Holders) + Cardinality(Senders) <= Cardinality(Workers))'
        BY HandsAndWire, PTL
      <4> QED
        BY <4>1
    <3>3. Respent' + Cardinality(Lost') + Cardinality(Senders') <= bound + Cardinality(Workers)
      BY <1>3, <1>5, <3>1, <3>2
    <3> QED
      BY <1>2, <2>7, <2>8, <3>1, <3>3 DEF RespendInv
  <2> QED
    BY <2>9, <2>10
<1> QED
  BY <1>6, <1>7, <1>8

\* "A run interrupted at call 600 resumes without re-spending": as long as nothing
\* but an interrupt or a kill loses a response, all the runs together pay again for
\* at most one call per worker and stopped run.
THEOREM RunsRespendLittle ==
    ASSUME NothingLost
    PROVE  Spec => []RespendBounded
<1>1. TypeOK /\ RespendInv => RespendBounded
  <2> SUFFICES ASSUME TypeOK, RespendInv PROVE RespendBounded
    OBVIOUS
  <2>1. PICK bound \in Int : bound = (runs - 1) * Cardinality(Workers)
    <3>1. runs \in Nat /\ Cardinality(Workers) \in Nat
      BY SpendTypes DEF TypeOK
    <3> QED
      BY <3>1
  <2>2. Respent <= bound
    BY <2>1, SpendTypes DEF RespendInv
  <2> QED
    BY <2>1, <2>2 DEF RespendBounded, Respent, SumOf
<1>2. TypeOK /\ TypeOK' /\ Exclusive /\ HandsFull /\ RespendInv /\ [Next]_vars => RespendInv'
  BY NothingLost, RespendNext
<1>3. TypeOK /\ HandsFull /\ [Next]_vars => HandsFull'
  BY NothingLost, HandsFullNext
<1> QED
  BY <1>1, <1>2, <1>3, TypeInit, TypeNext, ExclusiveInit, ExclusiveNext, HandsFullInit, RespendInit, PTL DEF Spec

-----------------------------------------------------------------------------
(***************************************************************************)
(* How far racing workers can miss the floor.  Once the account is at the  *)
(* floor, a worker is in one of four roles.  It asks (it may still get     *)
(* past the gate), spends (it passed, and is not charged yet), or it holds *)
(* the header of its charge: one above the floor opens the gate again when *)
(* it is taken over, any other shuts it.  No new header opens the gate, so *)
(* with f workers not holding one that does, those can be charged once     *)
(* each, then f + 1 can, and so on up to all: a triangle of charges.       *)
(***************************************************************************)

\* Ordinary calls cost a credit, and a 200 is read, header and all.
UnitCosts == \A c \in Calls : Cost[c] = 1
HeadersRead == Faults \cap {"cut", "lost", "noheader"} = {}

Role(label, r) ==
    IF label \in {"attempt", "wire", "failed"} \/ (label = "reply" /\ ~Is200(r)) THEN "spends"
    ELSE IF label # "reply" THEN "asks"
    ELSE IF r.remaining > CreditFloor THEN "opens"
    ELSE "shuts"

roles == [w \in Workers |-> Role(pc[w], reply[w])]

Those(f, role) == {w \in Workers : f[w] = role}
Free(f) == {w \in Workers : f[w] # "opens"}

Triangle(n) == (n * (n + 1)) \div 2

\* How many of q asking workers the gate lets through before a header comes.
Room(credits, q) ==
    IF credits = Unknown \/ credits - CreditFloor >= q THEN q
    ELSE IF credits > CreditFloor THEN credits - CreditFloor
    ELSE 0

\* What can still be charged before a header opens the gate, and after.
Gate(f, r, q, credits, left) == Triangle(f) + left >= CreditFloor + 1 + r + Room(credits, q)

Gated(f, credits, left) ==
    Gate(Cardinality(Free(f)), Cardinality(Those(f, "spends")), Cardinality(Those(f, "asks")), credits, left)

\* Nobody got past a gate that was shut all along.
Shut ==
    /\ \A w \in Workers : roles[w] # "opens" /\ ~reserved[w]
    /\ creditsRemaining <= CreditFloor

HeadersWhole ==
    \A w \in Workers : pc[w] = "reply" =>
        reply[w].kind # "cut" /\ (Is200(reply[w]) => reply[w].remaining # Unknown)

OnTheWire == {w \in Workers : pc[w] = "wire"}

\* An interrupted run sends no more: what is on the wire is all that is charged.
LastCharges ==
    \/ \A w \in OnTheWire : ~reserved[w]
    \/ Triangle(Cardinality(Workers)) + balance >= CreditFloor + 1 + Cardinality(OnTheWire)

OvershootInv ==
    /\ ~cancelled => HeadersWhole /\ (balance > CreditFloor \/ Shut \/ Gated(roles, creditsRemaining, balance))
    /\ cancelled => LastCharges

-----------------------------------------------------------------------------

LEMMA TriangleGrows ==
    ASSUME NEW n \in Nat
    PROVE  /\ Triangle(n) \in Nat /\ Triangle(n) >= n
           /\ Triangle(n + 1) = Triangle(n) + n + 1
<1>1. PICK x \in Nat : x = n * (n + 1)
    OBVIOUS
<1>2. (n + 1) * (n + 1 + 1) = x + 2 * (n + 1)
    BY <1>1
<1>3. x >= 2 * n
    <2>1. n * n >= n
        OBVIOUS
    <2> QED
        BY <2>1, <1>1
<1>4. x \div 2 \in Nat /\ x \div 2 >= n /\ (x + 2 * (n + 1)) \div 2 = x \div 2 + n + 1
    BY <1>3
<1> QED
    BY <1>1, <1>2, <1>4 DEF Triangle

LEMMA TriangleMonotone ==
    ASSUME NEW n \in Nat, NEW m \in Nat, m <= n
    PROVE  Triangle(m) <= Triangle(n)
<1>1. PICK x \in Nat : x = n * (n + 1)
    OBVIOUS
<1>2. PICK y \in Nat : y = m * (m + 1)
    OBVIOUS
<1>3. y <= x
    <2>1. PICK d \in Nat : n = m + d
        <3>1. n - m \in Nat /\ n = m + (n - m)
            OBVIOUS
        <3> QED
            BY <3>1
    <2>2. n * (n + 1) = m * (m + 1) + d * m + m * d + d * d + d
        BY <2>1
    <2>3. d * m \in Nat /\ m * d \in Nat /\ d * d \in Nat
        OBVIOUS
    <2> QED
        BY <2>2, <2>3, <1>1, <1>2
<1> QED
    BY <1>1, <1>2, <1>3 DEF Triangle

\* Every move of a worker between the roles keeps the gate's account.
LEMMA GateMoves ==
    ASSUME NEW f \in Nat, NEW r \in Nat, NEW q \in Nat, r + q <= f,
           NEW c \in Nat \cup {Unknown}, NEW left \in Int, Gate(f, r, q, c, left)
    PROVE  /\ q >= 1 /\ c # Unknown /\ c - 1 >= CreditFloor => Gate(f, r + 1, q - 1, c - 1, left)
           /\ q >= 1 /\ c = Unknown => Gate(f, r + 1, q - 1, c, left)
           /\ r >= 1 => Gate(f, r - 1, q, c, left - 1)
           /\ r >= 1 => Gate(f, r - 1, q + 1, c, left) /\ Gate(f, r - 1, q + 1, c + 1, left)
           /\ \A h \in Nat : h <= CreditFloor => Gate(f, r, q + 1, h, left)
           /\ \A h \in Nat : Gate(f + 1, r, q + 1, h, left)
           /\ Triangle(f) + left >= CreditFloor + 1 + r
<1>1. PICK t \in Nat : Triangle(f) = t /\ Triangle(f + 1) = t + f + 1
    BY TriangleGrows
<1> QED
    BY <1>1, ConstantsAssumption DEF Gate, Room, Unknown

\* The account reaches the floor.
LEMMA GateReached ==
    ASSUME NEW f \in Nat, NEW r \in Nat, NEW q \in Nat, r + q + 1 <= f, NEW c \in Nat \cup {Unknown}
    PROVE  Gate(f, r, q, c, CreditFloor)
<1>1. PICK t \in Nat : Triangle(f) = t /\ t >= f
    BY TriangleGrows
<1> QED
    BY <1>1, ConstantsAssumption DEF Gate, Room, Unknown

\* What becomes of the number of workers in a role when w takes another.
Moved(f, g, w, role) ==
    LET before == Cardinality(Those(f, role))
        after  == Cardinality(Those(g, role))
    IN  /\ before \in Nat /\ after \in Nat
        /\ (f[w] = role <=> g[w] = role) => after = before
        /\ f[w] = role /\ g[w] # role => before >= 1 /\ after = before - 1
        /\ f[w] # role /\ g[w] = role => after = before + 1

LEMMA CountMoves ==
    ASSUME NEW f, NEW g, NEW w \in Workers, \A v \in Workers \ {w} : g[v] = f[v], NEW role
    PROVE  Moved(f, g, w, role)
<1> DEFINE Rest == {v \in Workers \ {w} : f[v] = role}
<1>1. IsFiniteSet(Rest) /\ w \notin Rest
    BY SlotsAssumption, FS_Subset
<1>2. Cardinality(Rest) \in Nat /\ Cardinality(Rest \cup {w}) = Cardinality(Rest) + 1
    BY <1>1, FS_CardinalityType, FS_AddElement
<1>3. Those(f, role) = IF f[w] = role THEN Rest \cup {w} ELSE Rest
    BY DEF Those
<1>4. Those(g, role) = IF g[w] = role THEN Rest \cup {w} ELSE Rest
    BY DEF Those
<1> HIDE DEF Rest
<1> QED
    BY <1>2, <1>3, <1>4 DEF Moved

LEMMA FreeMoves ==
    ASSUME NEW f, NEW g, NEW w \in Workers, \A v \in Workers \ {w} : g[v] = f[v]
    PROVE  /\ Cardinality(Free(f)) \in Nat
           /\ (f[w] = "opens" <=> g[w] = "opens") => Cardinality(Free(g)) = Cardinality(Free(f))
           /\ f[w] = "opens" /\ g[w] # "opens" => Cardinality(Free(g)) = Cardinality(Free(f)) + 1
<1> DEFINE Rest == {v \in Workers \ {w} : f[v] # "opens"}
<1>1. IsFiniteSet(Rest) /\ w \notin Rest
    BY SlotsAssumption, FS_Subset
<1>2. Cardinality(Rest) \in Nat /\ Cardinality(Rest \cup {w}) = Cardinality(Rest) + 1
    BY <1>1, FS_CardinalityType, FS_AddElement
<1>3. Free(f) = IF f[w] # "opens" THEN Rest \cup {w} ELSE Rest
    BY DEF Free
<1>4. Free(g) = IF g[w] # "opens" THEN Rest \cup {w} ELSE Rest
    BY DEF Free
<1> HIDE DEF Rest
<1> QED
    BY <1>2, <1>3, <1>4

\* Who spends or asks is free, and so is a worker whose header shuts the gate.
LEMMA FreeCounts ==
    ASSUME NEW f
    PROVE  /\ Cardinality(Those(f, "spends")) \in Nat /\ Cardinality(Those(f, "asks")) \in Nat
           /\ Cardinality(Free(f)) \in Nat /\ Cardinality(Free(f)) <= Cardinality(Workers)
           /\ Cardinality(Those(f, "spends")) + Cardinality(Those(f, "asks")) <= Cardinality(Free(f))
           /\ \A w \in Workers : f[w] = "shuts" =>
                 Cardinality(Those(f, "spends")) + Cardinality(Those(f, "asks")) + 1 <= Cardinality(Free(f))
<1> DEFINE S == Those(f, "spends")
           A == Those(f, "asks")
<1>1. IsFiniteSet(S) /\ IsFiniteSet(A) /\ IsFiniteSet(Free(f)) /\ S \cap A = {}
    BY SlotsAssumption, FS_Subset DEF Those, Free
<1>2. Cardinality(S) \in Nat /\ Cardinality(A) \in Nat /\ Cardinality(S \cap A) = 0
    BY <1>1, FS_CardinalityType, FS_EmptySet
<1>3. IsFiniteSet(S \cup A) /\ Cardinality(S \cup A) = Cardinality(S) + Cardinality(A)
    <2> HIDE DEF S, A
    <2>1. Cardinality(S \cup A) = Cardinality(S) + Cardinality(A) - Cardinality(S \cap A)
        BY <1>1, FS_Union
    <2>2. IsFiniteSet(S \cup A)
        BY <1>1, FS_Union
    <2> QED
        BY <2>1, <2>2, <1>2
<1>4. S \cup A \subseteq Free(f) /\ Free(f) \subseteq Workers
    BY DEF Those, Free
<1>5. Cardinality(S \cup A) <= Cardinality(Free(f)) /\ Cardinality(Free(f)) <= Cardinality(Workers)
    BY <1>1, <1>4, SlotsAssumption, FS_Subset
<1>6. ASSUME NEW w \in Workers, f[w] = "shuts"
      PROVE  Cardinality(S) + Cardinality(A) + 1 <= Cardinality(Free(f))
    <2>1. w \notin S \cup A /\ (S \cup A) \cup {w} \subseteq Free(f)
        BY <1>6 DEF Those, Free
    <2>2. Cardinality((S \cup A) \cup {w}) = Cardinality(S \cup A) + 1
        BY <2>1, <1>3, FS_AddElement
    <2>3. Cardinality((S \cup A) \cup {w}) <= Cardinality(Free(f))
        BY <2>1, <1>1, FS_Subset
    <2> HIDE DEF S, A
    <2> QED
        BY <2>2, <2>3, <1>3
<1>7. Cardinality(Free(f)) \in Nat
    BY <1>1, FS_CardinalityType
<1> HIDE DEF S, A
<1>8. QED
    BY <1>2, <1>3, <1>5, <1>6, <1>7 DEF S, A

\* Whatever w does with its role, the gate's account stands.
AccountStands(f, g, w, c, left) ==
    /\ g[w] = f[w] => Gated(g, c, left)
    /\ f[w] = "asks" /\ g[w] = "spends" /\ c # Unknown /\ c - 1 >= CreditFloor => Gated(g, c - 1, left)
    /\ f[w] = "asks" /\ g[w] = "spends" /\ c = Unknown => Gated(g, c, left)
    /\ f[w] = "spends" /\ g[w] = "shuts" => Gated(g, c, left - 1)
    /\ f[w] = "spends" /\ g[w] = "asks" => Gated(g, c, left) /\ Gated(g, c + 1, left)
    /\ f[w] = "shuts" /\ g[w] = "asks" => \A h \in Nat : h <= CreditFloor => Gated(g, h, left)
    /\ f[w] = "opens" /\ g[w] = "asks" => \A h \in Nat : Gated(g, h, left)

LEMMA GatedMoves ==
    ASSUME NEW f, NEW g, NEW w \in Workers, \A v \in Workers \ {w} : g[v] = f[v],
           NEW c \in Nat \cup {Unknown}, NEW left \in Int, Gated(f, c, left)
    PROVE  AccountStands(f, g, w, c, left)
<1>1. PICK x, r, q : x = Cardinality(Free(f)) /\ r = Cardinality(Those(f, "spends")) /\ q = Cardinality(Those(f, "asks"))
    OBVIOUS
<1>2. PICK y, s, p : y = Cardinality(Free(g)) /\ s = Cardinality(Those(g, "spends")) /\ p = Cardinality(Those(g, "asks"))
    OBVIOUS
<1>3. x \in Nat /\ r \in Nat /\ q \in Nat /\ r + q <= x
    BY <1>1, FreeCounts
<1>4. Gate(x, r, q, c, left)
    BY <1>1 DEF Gated
<1>5. \A d, l : Gated(g, d, l) <=> Gate(y, s, p, d, l)
    BY <1>2 DEF Gated
<1>6. /\ (f[w] = "opens" <=> g[w] = "opens") => y = x
      /\ f[w] = "opens" /\ g[w] # "opens" => y = x + 1
    BY <1>1, <1>2, FreeMoves
<1>m. Moved(f, g, w, "spends") /\ Moved(f, g, w, "asks")
    BY CountMoves
<1>7. /\ (f[w] = "spends" <=> g[w] = "spends") => s = r
      /\ f[w] = "spends" /\ g[w] # "spends" => r >= 1 /\ s = r - 1
      /\ f[w] # "spends" /\ g[w] = "spends" => s = r + 1
    BY <1>1, <1>2, <1>m DEF Moved
<1>8. /\ (f[w] = "asks" <=> g[w] = "asks") => p = q
      /\ f[w] = "asks" /\ g[w] # "asks" => q >= 1 /\ p = q - 1
      /\ f[w] # "asks" /\ g[w] = "asks" => p = q + 1
    BY <1>1, <1>2, <1>m DEF Moved
<1>9. /\ q >= 1 /\ c # Unknown /\ c - 1 >= CreditFloor => Gate(x, r + 1, q - 1, c - 1, left)
      /\ q >= 1 /\ c = Unknown => Gate(x, r + 1, q - 1, c, left)
      /\ r >= 1 => Gate(x, r - 1, q, c, left - 1)
      /\ r >= 1 => Gate(x, r - 1, q + 1, c, left) /\ Gate(x, r - 1, q + 1, c + 1, left)
      /\ \A h \in Nat : h <= CreditFloor => Gate(x, r, q + 1, h, left)
      /\ \A h \in Nat : Gate(x + 1, r, q + 1, h, left)
    BY <1>3, <1>4, GateMoves
<1> QED
    BY <1>4, <1>5, <1>6, <1>7, <1>8, <1>9 DEF AccountStands

-----------------------------------------------------------------------------

\* What a step of w does to its role, the client's balance and the account.
Keeps     == roles' = roles /\ creditsRemaining' = creditsRemaining /\ balance' = balance
Passes(w) ==
    /\ roles[w] = "asks" /\ roles'[w] = "spends" /\ balance' = balance
    /\ \/ creditsRemaining = Unknown /\ creditsRemaining' = Unknown /\ reserved' = reserved
       \/ /\ creditsRemaining # Unknown /\ creditsRemaining - 1 >= CreditFloor
          /\ creditsRemaining' = creditsRemaining - 1
IsCharged(w) ==
    /\ roles[w] = "spends" /\ roles'[w] = (IF balance' > CreditFloor THEN "opens" ELSE "shuts")
    /\ creditsRemaining' = creditsRemaining /\ balance' = balance - 1 /\ reserved' = reserved
GivesUp(w) ==
    /\ roles[w] = "spends" /\ roles'[w] = "asks" /\ balance' = balance
    /\ \/ creditsRemaining' = creditsRemaining
       \/ reserved[w] /\ creditsRemaining' = creditsRemaining + 1
TakesHeader(w) ==
    /\ roles[w] \in {"opens", "shuts"} /\ roles'[w] = "asks" /\ balance' = balance
    /\ creditsRemaining' \in Nat /\ (roles[w] = "shuts" => creditsRemaining' <= CreditFloor)

RoleStep(w) ==
    /\ \A v \in Workers \ {w} : roles'[v] = roles[v]
    /\ \/ Keeps \/ IsCharged(w) \/ GivesUp(w) \/ TakesHeader(w)
       \/ Passes(w)
    /\ \/ \A v \in Workers : reserved'[v] => reserved[v]
       \/ creditsRemaining > CreditFloor

\* An account above the floor, a shut gate or the gate's account: one of them is
\* what every step leaves.
LEMMA GateSteps ==
    ASSUME TypeOK, TypeOK', NEW w \in Workers, RoleStep(w),
           balance > CreditFloor \/ Shut \/ Gated(roles, creditsRemaining, balance)
    PROVE  balance' > CreditFloor \/ Shut' \/ Gated(roles', creditsRemaining', balance')
<1>1. PICK f : f = roles
    OBVIOUS
<1>2. PICK g : g = roles'
    OBVIOUS
<1>3. \A v \in Workers \ {w} : g[v] = f[v]
    BY <1>1, <1>2 DEF RoleStep
<1>4. PICK c \in Nat \cup {Unknown}, left \in Nat : c = creditsRemaining /\ left = balance
    BY DEF TypeOK
<1>5. CreditFloor \in Nat
    BY ConstantsAssumption
<1>6. SUFFICES ASSUME balance' <= CreditFloor PROVE Shut' \/ Gated(g, creditsRemaining', balance')
    <2>1. balance' \in Nat
        BY DEF TypeOK
    <2> QED
        BY <1>2, <1>5, <1>6, <2>1
<1>7. ASSUME left > CreditFloor PROVE Gated(g, creditsRemaining', balance')
    <2>1. IsCharged(w) /\ balance' = CreditFloor
        BY <1>4, <1>5, <1>6, <1>7 DEF RoleStep, Keeps, Passes, IsCharged, GivesUp, TakesHeader, TypeOK
    <2>2. g[w] = "shuts" /\ creditsRemaining' = c
        BY <2>1, <1>2, <1>4, <1>5 DEF IsCharged
    <2>3. PICK x, r, q : x = Cardinality(Free(g)) /\ r = Cardinality(Those(g, "spends")) /\ q = Cardinality(Those(g, "asks"))
        OBVIOUS
    <2>4. x \in Nat /\ r \in Nat /\ q \in Nat /\ r + q + 1 <= x
        BY <2>2, <2>3, FreeCounts
    <2>5. Gate(x, r, q, c, CreditFloor)
        BY <2>4, GateReached
    <2> QED
        BY <2>1, <2>2, <2>3, <2>5 DEF Gated
<1>8. ASSUME Shut PROVE Shut'
    <2>1. \A v \in Workers : f[v] # "opens" /\ ~reserved[v]
        BY <1>1, <1>8 DEF Shut
    <2>2. c <= CreditFloor
        BY <1>4, <1>8 DEF Shut
    <2>3. \A v \in Workers : ~reserved'[v]
        BY <2>1, <2>2, <1>4, <1>5 DEF RoleStep, Unknown
    <2>4. creditsRemaining' <= CreditFloor /\ g[w] # "opens"
        BY <2>1, <2>2, <1>1, <1>2, <1>4, <1>5, <1>6
           DEF RoleStep, Keeps, Passes, IsCharged, GivesUp, TakesHeader, Unknown
    <2>5. \A v \in Workers : g[v] # "opens"
        BY <2>1, <2>4, <1>3
    <2> QED
        BY <2>3, <2>4, <2>5, <1>2 DEF Shut
<1>9. ASSUME Gated(f, c, left), left <= CreditFloor PROVE Gated(g, creditsRemaining', balance')
    <2>0. left \in Int
        OBVIOUS
    <2>1. AccountStands(f, g, w, c, left)
        BY <2>0, <1>3, <1>9, GatedMoves
    <2>2. ASSUME Keeps PROVE Gated(g, creditsRemaining', balance')
        BY <2>1, <2>2, <1>1, <1>2, <1>4 DEF Keeps, AccountStands
    <2>3. ASSUME IsCharged(w) PROVE Gated(g, creditsRemaining', balance')
        BY <2>1, <2>3, <1>1, <1>2, <1>4, <1>5, <1>9 DEF IsCharged, AccountStands
    <2>4. ASSUME GivesUp(w) PROVE Gated(g, creditsRemaining', balance')
        BY <2>1, <2>4, <1>1, <1>2, <1>4 DEF GivesUp, AccountStands
    <2>5. ASSUME TakesHeader(w) PROVE Gated(g, creditsRemaining', balance')
        BY <2>1, <2>5, <1>1, <1>2, <1>4 DEF TakesHeader, AccountStands
    <2>6. ASSUME Passes(w) PROVE Gated(g, creditsRemaining', balance')
        BY <2>1, <2>6, <1>1, <1>2, <1>4 DEF Passes, AccountStands
    <2> QED
        BY <2>2, <2>3, <2>4, <2>5, <2>6 DEF RoleStep
<1> QED
    BY <1>1, <1>4, <1>5, <1>7, <1>8, <1>9

\* Worker w is at another stage, with another reply; nobody else is.
Reaches(w, label, r) ==
    /\ \A v \in Workers \ {w} : roles'[v] = roles[v]
    /\ roles[w] = Role(pc[w], reply[w])
    /\ roles'[w] = Role(label, r)
    /\ HeadersWhole /\ (label = "reply" => r.kind # "cut" /\ (Is200(r) => r.remaining # Unknown)) => HeadersWhole'

LEMMA RolesFrame ==
    ASSUME TypeOK, NEW w \in Workers, NEW label, NEW r,
           pc' = [pc EXCEPT ![w] = label], reply' = [reply EXCEPT ![w] = r]
    PROVE  Reaches(w, label, r)
<1>1. /\ \A v \in Workers \ {w} : pc'[v] = pc[v] /\ reply'[v] = reply[v]
      /\ pc'[w] = label /\ reply'[w] = r
    BY DEF TypeOK, LocalsOK
<1> QED
    BY <1>1 DEF roles, HeadersWhole, Reaches

\* Every step of a run that nobody has interrupted is one of these.
LEMMA RoleSteps ==
    ASSUME UnitCosts, HeadersRead, TypeOK, HeadersWhole, ~cancelled, ~cancelled', Next
    PROVE  Restart \/ Finished \/ (HeadersWhole' /\ \E w \in Workers : RoleStep(w))
<1> DEFINE Stepped(w) == HeadersWhole' /\ RoleStep(w)
<1>0. /\ \A w \in Workers : reply[w] \in Replies /\ [reply EXCEPT ![w] = reply[w]] = reply /\ [pc EXCEPT ![w] = pc[w]] = pc
      /\ \A w \in Workers : pc[w] # "idle" => call[w] \in Calls /\ Cost[call[w]] = 1
      /\ balance \in Nat /\ creditsRemaining \in Nat \cup {Unknown} /\ CreditFloor \in Nat
      /\ reserved \in [Workers -> BOOLEAN]
    BY ConstantsAssumption DEF TypeOK, LocalsOK, UnitCosts
<1>q. ASSUME NEW w \in Workers, pc' = pc, reply' = reply, creditsRemaining' = creditsRemaining, balance' = balance, reserved' = reserved
      PROVE  Stepped(w)
    BY <1>q DEF RoleStep, Keeps, roles, HeadersWhole
<1>r. ASSUME NEW w \in Workers, NEW label, NEW r, pc' = [pc EXCEPT ![w] = label], reply' = [reply EXCEPT ![w] = r],
             label # "reply", Role(label, r) = Role(pc[w], reply[w]),
             creditsRemaining' = creditsRemaining, balance' = balance, \A v \in Workers : reserved'[v] => reserved[v]
      PROVE  Stepped(w)
    <2>0. Reaches(w, label, r)
        BY <1>r, RolesFrame
    <2>1. HeadersWhole' /\ \A v \in Workers : roles'[v] = roles[v]
        BY <1>r, <2>0 DEF Reaches
    <2>2. roles' = roles
        BY <2>1 DEF roles
    <2> QED
        BY <1>r, <2>1, <2>2 DEF RoleStep, Keeps
<1>1. ASSUME NEW w \in Workers, NEW c \in Calls, CacheHit(w, c) \/ RefuseOffline(w, c) \/ RefuseExpensive(w, c)
      PROVE  Stepped(w)
    BY <1>1, <1>q DEF CacheHit, RefuseOffline, RefuseExpensive, Refused, local, server
<1>2. ASSUME NEW w \in Workers, NEW c \in Calls, Miss(w, c) PROVE Stepped(w)
    <2>1. /\ pc[w] = "idle" /\ pc' = [pc EXCEPT ![w] = "guard"] /\ reply' = [reply EXCEPT ![w] = reply[w]]
          /\ creditsRemaining' = creditsRemaining /\ balance' = balance /\ reserved' = reserved
        BY <1>2, <1>0 DEF Miss, MayAsk, Goto, process, server
    <2>2. Role("guard", reply[w]) = Role(pc[w], reply[w])
        BY <2>1 DEF Role
    <2> QED
        BY <2>1, <2>2, <1>r
<1>3. ASSUME NEW w \in Workers, ReserveBlind(w) \/ ReserveCredits(w) PROVE Stepped(w)
    <2>1. /\ pc[w] = "guard" /\ pc' = [pc EXCEPT ![w] = "attempt"] /\ reply' = [reply EXCEPT ![w] = reply[w]]
          /\ balance' = balance
        BY <1>3, <1>0 DEF ReserveBlind, ReserveCredits, Goto, server
    <2>2. /\ HeadersWhole' /\ \A v \in Workers \ {w} : roles'[v] = roles[v]
          /\ roles[w] = "asks" /\ roles'[w] = "spends"
        BY <2>1, RolesFrame DEF Reaches, Role
    <2>3. \/ creditsRemaining = Unknown /\ creditsRemaining' = Unknown /\ reserved' = reserved
          \/ /\ creditsRemaining # Unknown /\ creditsRemaining - 1 >= CreditFloor
             /\ creditsRemaining' = creditsRemaining - 1
        BY <1>3, <1>0, <2>1 DEF ReserveBlind, ReserveCredits, WithinFloor, Deducted, process
    <2>4. creditsRemaining # Unknown /\ creditsRemaining - 1 >= CreditFloor => creditsRemaining > CreditFloor
        BY <1>0
    <2> QED
        BY <2>1, <2>2, <2>3, <2>4 DEF RoleStep, Passes
<1>4. ASSUME NEW w \in Workers, RefuseFloor(w) PROVE Stepped(w)
    <2>1. /\ pc[w] = "guard" /\ pc' = [pc EXCEPT ![w] = "idle"] /\ reply' = [reply EXCEPT ![w] = NoReply]
          /\ creditsRemaining' = creditsRemaining /\ balance' = balance /\ reserved' = [reserved EXCEPT ![w] = FALSE]
        BY <1>4 DEF RefuseFloor, Return, Goto, server
    <2>2. Role("idle", NoReply) = Role(pc[w], reply[w])
        BY <2>1 DEF Role
    <2> QED
        BY <2>1, <2>2, <1>0, <1>r
<1>5. ASSUME NEW w \in Workers, Send(w) \/ Abandon(w) PROVE Stepped(w)
    <2>1. PICK label \in {"wire", "failed"} : pc' = [pc EXCEPT ![w] = label]
        BY <1>5 DEF Send, Abandon, Goto
    <2>2. /\ pc[w] = "attempt" /\ reply' = [reply EXCEPT ![w] = reply[w]]
          /\ creditsRemaining' = creditsRemaining /\ balance' = balance /\ reserved' = reserved
        BY <1>5, <1>0 DEF Send, Abandon, process, server
    <2>3. Role(label, reply[w]) = Role(pc[w], reply[w]) /\ label # "reply"
        BY <2>1, <2>2 DEF Role
    <2> QED
        BY <2>1, <2>2, <2>3, <1>r
<1>6. ASSUME NEW w \in Workers, Charge(w) PROVE Stepped(w)
    <2>1. pc[w] = "wire" /\ balance' = balance - 1 /\ balance' \in Nat /\ balance' # Unknown
        BY <1>6, <1>0 DEF Charge, Unknown
    <2>2. PICK r \in {Reply("ok", balance'), Reply("garbled", balance')} : Answer(w, r)
        BY <1>6 DEF Charge, Possible, HeadersRead
    <2>3. /\ pc' = [pc EXCEPT ![w] = "reply"] /\ reply' = [reply EXCEPT ![w] = r]
          /\ creditsRemaining' = creditsRemaining /\ reserved' = reserved
        BY <2>2 DEF Answer, Goto, process
    <2>4. r.kind # "cut" /\ Is200(r) /\ r.remaining = balance'
        BY <2>2 DEF Reply, Is200
    <2>5. /\ HeadersWhole' /\ \A v \in Workers \ {w} : roles'[v] = roles[v]
          /\ roles[w] = Role(pc[w], reply[w]) /\ roles'[w] = Role("reply", r)
        <3>1. Reaches(w, "reply", r)
            BY <2>1, <2>3, <2>4, RolesFrame
        <3> QED
            BY <3>1, <2>1, <2>3, <2>4 DEF Reaches
    <2>6. IsCharged(w)
        BY <2>1, <2>3, <2>4, <2>5 DEF Role, IsCharged
    <2> QED
        BY <2>3, <2>5, <2>6 DEF RoleStep
<1>7. ASSUME NEW w \in Workers, Reject(w) \/ NetFail(w) PROVE Stepped(w)
    <2>1. pc[w] = "wire" /\ balance' = balance
        BY <1>7 DEF Reject, NetFail
    <2>2. PICK kind \in {"429", "5xx", "4xx", "neterr"} : Answer(w, Reply(kind, Unknown))
        BY <1>7 DEF Reject, NetFail
    <2>3. PICK r : r = Reply(kind, Unknown)
        OBVIOUS
    <2>4. /\ pc' = [pc EXCEPT ![w] = "reply"] /\ reply' = [reply EXCEPT ![w] = r]
          /\ creditsRemaining' = creditsRemaining /\ reserved' = reserved
        BY <2>2, <2>3 DEF Answer, Goto, process
    <2>5. r.kind # "cut" /\ ~Is200(r)
        BY <2>2, <2>3 DEF Reply, Is200
    <2>6. /\ HeadersWhole' /\ \A v \in Workers \ {w} : roles'[v] = roles[v]
          /\ roles[w] = Role(pc[w], reply[w]) /\ roles'[w] = Role("reply", r)
        <3>1. Reaches(w, "reply", r)
            BY <2>4, <2>5, RolesFrame
        <3> QED
            BY <3>1, <2>4, <2>5 DEF Reaches
    <2>7. roles'[w] = roles[w]
        BY <2>1, <2>5, <2>6 DEF Role
    <2>8. roles' = roles
        BY <2>6, <2>7 DEF roles
    <2> QED
        BY <2>1, <2>4, <2>6, <2>8 DEF RoleStep, Keeps
<1>8. ASSUME NEW w \in Workers, HandleResponse(w) PROVE Stepped(w)
    <2>1. /\ pc[w] = "reply" /\ balance' = balance /\ reserved' = reserved
          /\ creditsRemaining' = Credited(creditsRemaining, reply[w])
        BY <1>8 DEF HandleResponse, server
    <2>2. reply[w] \in Replies /\ reply[w].kind # "cut" /\ (Is200(reply[w]) => reply[w].remaining # Unknown)
        BY <1>0, <2>1 DEF HeadersWhole
    <2>3. reply[w].remaining \in Nat \cup {Unknown}
        BY <2>2 DEF Replies
    <2>4. PICK label \in {"attempt", "complete", "failed"}, r \in {NoReply, reply[w]} :
            /\ pc' = [pc EXCEPT ![w] = label] /\ reply' = [reply EXCEPT ![w] = r]
            /\ IF Is200(reply[w]) THEN label = "complete" ELSE label \in {"attempt", "failed"}
        BY <1>8, <1>0, <2>2 DEF HandleResponse, Goto, Is200, Retryable
    <2>5. /\ HeadersWhole' /\ \A v \in Workers \ {w} : roles'[v] = roles[v]
          /\ roles[w] = Role(pc[w], reply[w]) /\ roles'[w] = Role(label, r)
        <3>1. Reaches(w, label, r)
            BY <2>4, RolesFrame
        <3> QED
            BY <3>1, <2>4 DEF Reaches
    <2>6. ASSUME Is200(reply[w]) PROVE TakesHeader(w)
        BY <2>1, <2>2, <2>3, <2>4, <2>5, <2>6, <1>0 DEF TakesHeader, Role, Credited
    <2>7. ASSUME ~Is200(reply[w]) PROVE Keeps
        <3>1. roles'[w] = roles[w]
            BY <2>1, <2>4, <2>5, <2>7 DEF Role
        <3>2. roles' = roles
            BY <3>1, <2>5 DEF roles
        <3> QED
            BY <3>2, <2>1, <2>7 DEF Keeps, Credited
    <2> QED
        BY <2>1, <2>5, <2>6, <2>7 DEF RoleStep
<1>9. ASSUME NEW w \in Workers, WriteReceipt(w) PROVE Stepped(w)
    <2>1. /\ pc[w] = "complete" /\ pc' = [pc EXCEPT ![w] = "store"] /\ reply' = [reply EXCEPT ![w] = reply[w]]
          /\ creditsRemaining' = creditsRemaining /\ balance' = balance /\ reserved' = reserved
        BY <1>9, <1>0 DEF WriteReceipt, Goto, process, server
    <2>2. Role("store", reply[w]) = Role(pc[w], reply[w])
        BY <2>1 DEF Role
    <2> QED
        BY <2>1, <2>2, <1>r
<1>10. ASSUME NEW w \in Workers, Store(w) PROVE Stepped(w)
    <2>1. /\ pc[w] = "store" /\ pc' = [pc EXCEPT ![w] = "idle"] /\ reply' = [reply EXCEPT ![w] = NoReply]
          /\ creditsRemaining' = creditsRemaining /\ balance' = balance /\ reserved' = [reserved EXCEPT ![w] = FALSE]
        BY <1>10 DEF Store, Return, Goto, server
    <2>2. Role("idle", NoReply) = Role(pc[w], reply[w])
        BY <2>1 DEF Role
    <2> QED
        BY <2>1, <2>2, <1>0, <1>r
<1>11. ASSUME NEW w \in Workers, FailDo(w) PROVE Stepped(w)
    <2>1. /\ pc[w] = "failed" /\ pc' = [pc EXCEPT ![w] = "idle"] /\ reply' = [reply EXCEPT ![w] = NoReply]
          /\ balance' = balance /\ reserved' = [reserved EXCEPT ![w] = FALSE]
          /\ creditsRemaining' = Released(creditsRemaining, reserved[w], Cost[call[w]])
        BY <1>11 DEF FailDo, Return, Goto, server
    <2>2. /\ HeadersWhole' /\ \A v \in Workers \ {w} : roles'[v] = roles[v]
          /\ roles[w] = "spends" /\ roles'[w] = "asks"
        BY <2>1, RolesFrame DEF Reaches, Role
    <2>3. GivesUp(w)
        BY <2>1, <2>2, <1>0 DEF GivesUp, Released
    <2> QED
        BY <2>1, <2>2, <2>3, <1>0 DEF RoleStep
<1>12. ~Interrupt
    BY DEF Interrupt
<1> HIDE DEF Stepped
<1>13. Restart \/ Finished \/ \E w \in Workers : Stepped(w)
    BY <1>1, <1>2, <1>3, <1>4, <1>5, <1>6, <1>7, <1>8, <1>9, <1>10, <1>11, <1>12, NextCases
<1> QED
    BY <1>13 DEF Stepped

LEMMA OvershootInit == Init => OvershootInv
<1> SUFFICES ASSUME Init PROVE OvershootInv
    OBVIOUS
<1>1. CreditFloor \in Nat /\ Account \in Nat
    BY ConstantsAssumption
<1>2. \A w \in Workers : pc[w] = "idle" /\ ~reserved[w] /\ roles[w] = "asks"
    BY DEF Init, roles, Role
<1>3. HeadersWhole
    BY <1>2 DEF HeadersWhole
<1>4. balance > CreditFloor \/ Shut
    BY <1>1, <1>2 DEF Init, Shut, StartingCredits, Unknown
<1> QED
    BY <1>3, <1>4 DEF OvershootInv, Init

\* A started run has nothing reserved, and knows no more than there is.
LEMMA OvershootRestart ==
    ASSUME TypeOK, Restart
    PROVE  OvershootInv'
<1>1. CreditFloor \in Nat /\ balance \in Nat
    BY ConstantsAssumption DEF TypeOK
<1>2. \A w \in Workers : pc'[w] = "idle" /\ ~reserved'[w] /\ roles'[w] = "asks"
    BY DEF Restart, IdleLocals, roles, Role
<1>3. HeadersWhole'
    BY <1>2 DEF HeadersWhole
<1>4. (balance > CreditFloor \/ Shut)'
    BY <1>1, <1>2 DEF Restart, server, Shut, StartingCredits, Unknown
<1> QED
    BY <1>3, <1>4 DEF OvershootInv, Restart

\* What is on the wire when a run is interrupted was in the gate's account.
LEMMA OvershootInterrupt ==
    ASSUME TypeOK, OvershootInv, Interrupt
    PROVE  OvershootInv'
<1>1. PICK n, f, r, q, x :
        /\ n = Cardinality(Workers) /\ f = Cardinality(Free(roles)) /\ r = Cardinality(Those(roles, "spends"))
        /\ q = Cardinality(Those(roles, "asks")) /\ x = Cardinality(OnTheWire)
    OBVIOUS
<1>2. n \in Nat /\ f \in Nat /\ r \in Nat /\ q \in Nat /\ f <= n /\ r + q <= f
    BY <1>1, FreeCounts, FS_CardinalityType, SlotsAssumption
<1>3. x \in Nat /\ x <= r
    <2>1. OnTheWire \subseteq Those(roles, "spends") /\ Those(roles, "spends") \subseteq Workers
        BY DEF OnTheWire, Those, roles, Role
    <2>2. IsFiniteSet(Those(roles, "spends")) /\ IsFiniteSet(OnTheWire)
        BY <2>1, SlotsAssumption, FS_Subset
    <2> QED
        BY <2>1, <2>2, <1>1, FS_Subset, FS_CardinalityType
<1>4. Triangle(f) <= Triangle(n) /\ Triangle(f) \in Nat /\ Triangle(n) \in Nat /\ Triangle(n) >= n
    BY <1>2, TriangleGrows, TriangleMonotone
<1>5. PICK c \in Nat \cup {Unknown}, left \in Nat : c = creditsRemaining /\ left = balance
    BY DEF TypeOK
<1>6. CreditFloor \in Nat
    BY ConstantsAssumption
<1>7. LastCharges
    <2>1. ASSUME Shut PROVE LastCharges
        BY <2>1 DEF Shut, LastCharges, OnTheWire
    <2>2. ASSUME balance > CreditFloor PROVE LastCharges
        <3>1. Triangle(n) + left >= CreditFloor + 1 + x
            BY <2>2, <1>2, <1>3, <1>4, <1>5, <1>6
        <3> QED
            BY <3>1, <1>1, <1>5 DEF LastCharges
    <2>3. ASSUME Gated(roles, creditsRemaining, balance) PROVE LastCharges
        <3>1. Gate(f, r, q, c, left)
            BY <2>3, <1>1, <1>5 DEF Gated
        <3>2. left \in Int
            OBVIOUS
        <3>3. Triangle(f) + left >= CreditFloor + 1 + r
            BY <3>1, <3>2, <1>2, GateMoves
        <3>4. Triangle(n) + left >= CreditFloor + 1 + x
            BY <3>3, <1>2, <1>3, <1>4, <1>5, <1>6
        <3> QED
            BY <3>4, <1>1, <1>5 DEF LastCharges
    <2> QED
        BY <2>1, <2>2, <2>3 DEF OvershootInv, Interrupt
<1>8. LastCharges'
    BY <1>7 DEF LastCharges, OnTheWire, Interrupt, local, server
<1> QED
    BY <1>8 DEF OvershootInv, Interrupt

\* After an interrupt a charge takes its worker off the wire, and nobody goes on it.
LEMMA OvershootLast ==
    ASSUME UnitCosts, TypeOK, TypeOK', LastCharges, cancelled, cancelled', Next
    PROVE  Restart \/ LastCharges'
<1> SUFFICES ASSUME ~Restart PROVE LastCharges'
    OBVIOUS
<1>1. PICK t : t = Triangle(Cardinality(Workers))
    OBVIOUS
<1>t. t \in Nat
    <2>1. PICK n \in Nat : n = Cardinality(Workers)
        BY FS_CardinalityType, SlotsAssumption
    <2> QED
        BY <2>1, <1>1, TriangleGrows
<1>2. PICK A : A = OnTheWire
    OBVIOUS
<1>3. PICK B : B = OnTheWire'
    OBVIOUS
<1>4. IsFiniteSet(A) /\ Cardinality(A) \in Nat /\ A \subseteq Workers
    BY <1>2, FS_Subset, FS_CardinalityType, SlotsAssumption DEF OnTheWire
<1>5. balance \in Nat /\ CreditFloor \in Nat /\ reserved \in [Workers -> BOOLEAN]
    BY ConstantsAssumption DEF TypeOK, LocalsOK
<1>6. /\ B \subseteq A
      /\ \A v \in B : reserved'[v] => reserved[v]
      /\ \/ balance' = balance
         \/ \E w \in A : w \notin B /\ balance' = balance - 1
    <2>1. ASSUME NEW w \in Workers, Charge(w)
          PROVE  /\ B = A \ {w} /\ w \in A /\ reserved' = reserved /\ balance' = balance - 1
        <3>1. pc[w] = "wire" /\ pc' = [pc EXCEPT ![w] = "reply"] /\ reserved' = reserved /\ balance' = balance - Cost[call[w]]
            BY <2>1 DEF Charge, Answer, Goto
        <3>2. call[w] \in Calls
            BY <3>1 DEF TypeOK, LocalsOK
        <3> QED
            BY <3>1, <3>2, <1>2, <1>3 DEF UnitCosts, OnTheWire, TypeOK, LocalsOK
    <2>2. ASSUME NEW w \in Workers, NEW label \in Labels \ {"wire"}, pc' = pc \/ pc' = [pc EXCEPT ![w] = label],
                 balance' = balance, reserved' = reserved \/ reserved' = [reserved EXCEPT ![w] = FALSE]
          PROVE  /\ B \subseteq A /\ \A v \in B : reserved'[v] => reserved[v]
                 /\ balance' = balance
        BY <2>2, <1>2, <1>3 DEF OnTheWire, TypeOK, LocalsOK
    <2>3. ASSUME NEW w \in Workers, ReserveCredits(w)
          PROVE  /\ B \subseteq A /\ \A v \in B : reserved'[v] => reserved[v]
                 /\ balance' = balance
        <3>1. pc[w] = "guard" /\ pc' = [pc EXCEPT ![w] = "attempt"] /\ reserved' = [reserved EXCEPT ![w] = TRUE] /\ balance' = balance
            BY <2>3 DEF ReserveCredits, Goto, server
        <3> QED
            BY <3>1, <1>2, <1>3 DEF OnTheWire, TypeOK, LocalsOK
    <2>4. ASSUME NEW w \in Workers, NEW c \in Calls, CacheHit(w, c) \/ RefuseOffline(w, c) \/ RefuseExpensive(w, c)
          PROVE  pc' = pc /\ balance' = balance /\ reserved' = reserved
        BY <2>4 DEF CacheHit, RefuseOffline, RefuseExpensive, Refused, local, server
    <2>5. ASSUME NEW w \in Workers, NEW c \in Calls, Miss(w, c)
          PROVE  pc' = [pc EXCEPT ![w] = "guard"] /\ balance' = balance /\ reserved' = reserved
        BY <2>5 DEF Miss, Goto, server
    <2>6. ASSUME NEW w \in Workers, ReserveBlind(w) \/ RefuseFloor(w) \/ Abandon(w) \/ Reject(w) \/ NetFail(w)
                                      \/ WriteReceipt(w) \/ Store(w) \/ FailDo(w) \/ HandleResponse(w)
          PROVE  \E label \in Labels \ {"wire"} :
                    /\ pc' = [pc EXCEPT ![w] = label] /\ balance' = balance
                    /\ reserved' = reserved \/ reserved' = [reserved EXCEPT ![w] = FALSE]
        BY <2>6 DEF ReserveBlind, RefuseFloor, Abandon, Reject, NetFail, WriteReceipt, Store, FailDo, HandleResponse,
                    Answer, Return, Goto, server, Labels
    <2>7. ASSUME Finished PROVE pc' = pc /\ balance' = balance /\ reserved' = reserved
        BY <2>7 DEF Finished, vars, local, server
    <2>8. ~Interrupt /\ \A w \in Workers : ~Send(w)
        BY DEF Interrupt, Send
    <2>9. "guard" \in Labels \ {"wire"}
        BY DEF Labels
    <2>10. CASE Finished
        BY <2>7, <2>10, <1>2, <1>3 DEF OnTheWire
    <2>11. CASE \E w \in Workers : Charge(w)
        BY <2>1, <2>11
    <2>12. CASE \E w \in Workers : ReserveCredits(w)
        BY <2>3, <2>12
    <2> QED
        BY <2>2, <2>4, <2>5, <2>6, <2>8, <2>9, <2>10, <2>11, <2>12, NextCases
<1>7. ASSUME \A w \in A : ~reserved[w] PROVE LastCharges'
    BY <1>6, <1>7, <1>3 DEF LastCharges
<1>8. ASSUME t + balance >= CreditFloor + 1 + Cardinality(A) PROVE LastCharges'
    <2>1. Cardinality(B) \in Nat /\ Cardinality(B) <= Cardinality(A)
        BY <1>4, <1>6, FS_Subset, FS_CardinalityType
    <2>2. ASSUME NEW w \in A, w \notin B PROVE Cardinality(B) <= Cardinality(A) - 1
        <3>1. B \subseteq A \ {w} /\ IsFiniteSet(A \ {w}) /\ Cardinality(A \ {w}) = Cardinality(A) - 1
            BY <2>2, <1>4, <1>6, FS_RemoveElement
        <3>2. Cardinality(B) <= Cardinality(A \ {w})
            BY <3>1, FS_Subset
        <3> QED
            BY <3>1, <3>2
    <2>3. t + balance' >= CreditFloor + 1 + Cardinality(B)
        <3>1. PICK a, b \in Nat : a = Cardinality(A) /\ b = Cardinality(B)
            BY <1>4, <2>1
        <3>2. a \in Nat /\ b \in Nat /\ b <= a
            BY <3>1, <2>1, <1>4
        <3>3. balance' = balance \/ (b <= a - 1 /\ balance' = balance - 1)
            BY <3>1, <1>6, <2>2
        <3>4. t + balance >= CreditFloor + 1 + a
            BY <1>8, <3>1
        <3>5. t + balance' >= CreditFloor + 1 + b
            BY <3>2, <3>3, <3>4, <1>5, <1>t
        <3> QED
            BY <3>5, <3>1
    <2> QED
        BY <2>3, <1>1, <1>3 DEF LastCharges
<1> QED
    BY <1>7, <1>8, <1>1, <1>2 DEF LastCharges

LEMMA OvershootNext == UnitCosts /\ HeadersRead /\ TypeOK /\ OvershootInv /\ [Next]_vars => OvershootInv'
<1> SUFFICES ASSUME UnitCosts, HeadersRead, TypeOK, OvershootInv, [Next]_vars PROVE OvershootInv'
    OBVIOUS
<1>t. TypeOK'
    BY TypeNext
<1>1. ASSUME UNCHANGED vars PROVE OvershootInv'
    BY <1>1 DEF OvershootInv, HeadersWhole, Shut, LastCharges, OnTheWire, roles, vars, process, local, server
<1>2. ASSUME Next, ~cancelled, ~cancelled' PROVE OvershootInv'
    <2>1. HeadersWhole /\ (balance > CreditFloor \/ Shut \/ Gated(roles, creditsRemaining, balance))
        BY <1>2 DEF OvershootInv
    <2>2. Restart \/ Finished \/ (HeadersWhole' /\ \E w \in Workers : RoleStep(w))
        BY <1>2, <2>1, RoleSteps
    <2>3. ASSUME HeadersWhole', NEW w \in Workers, RoleStep(w) PROVE OvershootInv'
        <3>1. balance' > CreditFloor \/ Shut' \/ Gated(roles', creditsRemaining', balance')
            BY <1>t, <2>1, <2>3, GateSteps
        <3> QED
            BY <3>1, <2>3, <1>2 DEF OvershootInv, Gated
    <2> QED
        BY <2>2, <2>3, <1>1, OvershootRestart DEF Finished
<1>3. ASSUME Next, ~cancelled, cancelled' PROVE OvershootInv'
    <2>1. ASSUME ~Interrupt PROVE FALSE
        BY <1>3, <2>1, NextCases DEF CacheHit, RefuseOffline, RefuseExpensive, Refused, Miss, ReserveBlind, ReserveCredits,
           RefuseFloor, Send, Abandon, Charge, Reject, NetFail, Answer, HandleResponse, WriteReceipt, Store, FailDo,
           Restart, Finished, vars, process
    <2> QED
        BY <2>1, OvershootInterrupt
<1>4. ASSUME Next, cancelled PROVE OvershootInv'
    <2>1. LastCharges
        BY <1>4 DEF OvershootInv
    <2>2. ASSUME ~Restart PROVE cancelled'
        BY <1>4, <2>2, NextCases DEF CacheHit, RefuseOffline, RefuseExpensive, Refused, Miss, ReserveBlind, ReserveCredits,
           RefuseFloor, Send, Abandon, Charge, Reject, NetFail, Answer, HandleResponse, WriteReceipt, Store, FailDo,
           Interrupt, Finished, vars, process
    <2>3. ASSUME ~Restart PROVE OvershootInv'
        <3>1. cancelled'
            BY <2>2, <2>3
        <3>2. LastCharges'
            BY <1>4, <1>t, <2>1, <2>3, <3>1, OvershootLast
        <3> QED
            BY <3>1, <3>2 DEF OvershootInv
    <2> QED
        BY <2>3, OvershootRestart
<1> QED
    BY <1>1, <1>2, <1>3, <1>4 

\* OvershootBounded, whatever calls are made of one credit, by however many
\* workers, as long as every 200 is read with its header: n workers racing
\* through reserveCredits and setCreditsRemaining miss the floor by n(n+1)/2 - 1
\* credits at most, over interrupts, kills and restarts.
THEOREM RacersOvershootLittle ==
    ASSUME UnitCosts, HeadersRead
    PROVE  Spec => []OvershootBounded
<1>1. TypeOK /\ OvershootInv => OvershootBounded
    <2> SUFFICES ASSUME TypeOK, OvershootInv, NEW w \in Workers, pc[w] = "wire", reserved[w]
                 PROVE  balance - Cost[call[w]] >= CreditFloor - ((Cardinality(Workers) * (Cardinality(Workers) + 1)) \div 2 - 1)
        BY DEF OvershootBounded
    <2>1. Cost[call[w]] = 1
        BY DEF UnitCosts, TypeOK, LocalsOK
    <2>2. PICK n, f, r, q, x :
            /\ n = Cardinality(Workers) /\ f = Cardinality(Free(roles)) /\ r = Cardinality(Those(roles, "spends"))
            /\ q = Cardinality(Those(roles, "asks")) /\ x = Cardinality(OnTheWire)
        OBVIOUS
    <2>3. n \in Nat /\ f \in Nat /\ r \in Nat /\ q \in Nat /\ f <= n /\ r + q <= f
        BY <2>2, FreeCounts, FS_CardinalityType, SlotsAssumption
    <2>4. n >= 1
        <3>1. n # 0
            BY <2>2, SlotsAssumption, FS_EmptySet
        <3> QED
            BY <3>1, <2>3
    <2>5. Triangle(f) <= Triangle(n) /\ Triangle(f) \in Nat /\ Triangle(n) \in Nat /\ Triangle(n) >= n
        BY <2>3, TriangleGrows, TriangleMonotone
    <2>6. PICK c \in Nat \cup {Unknown}, left \in Nat : c = creditsRemaining /\ left = balance
        BY DEF TypeOK
    <2>7. CreditFloor \in Nat /\ left \in Int
        BY ConstantsAssumption
    <2>8. Triangle(n) + left >= CreditFloor + 1 + 1 \/ left > CreditFloor
        <3>1. ASSUME cancelled PROVE Triangle(n) + left >= CreditFloor + 1 + 1
            <4>1. w \in OnTheWire
                BY DEF OnTheWire
            <4>2. Triangle(n) + left >= CreditFloor + 1 + x
                BY <3>1, <4>1, <2>2, <2>6 DEF OvershootInv, LastCharges
            <4>3. x \in Nat /\ x # 0
                BY <4>1, <2>2, SlotsAssumption, FS_Subset, FS_EmptySet, FS_CardinalityType DEF OnTheWire
            <4> QED
                BY <4>2, <4>3, <2>5, <2>7
        <3>2. ASSUME ~cancelled, left <= CreditFloor PROVE Triangle(n) + left >= CreditFloor + 1 + 1
            <4>1. Gated(roles, creditsRemaining, balance)
                BY <3>2, <2>6, <2>7 DEF OvershootInv, Shut
            <4>2. Gate(f, r, q, c, left)
                BY <4>1, <2>2, <2>6 DEF Gated
            <4>3. Triangle(f) + left >= CreditFloor + 1 + r
                BY <4>2, <2>3, <2>7, GateMoves
            <4>4. w \in Those(roles, "spends")
                BY DEF Those, roles, Role
            <4>5. r # 0
                BY <4>4, <2>2, SlotsAssumption, FS_Subset, FS_EmptySet DEF Those
            <4> QED
                BY <4>3, <4>5, <2>3, <2>5, <2>7
        <3> QED
            BY <3>1, <3>2, <2>7
    <2>9. left - 1 >= CreditFloor - (Triangle(n) - 1)
        BY <2>3, <2>4, <2>5, <2>7, <2>8
    <2> QED
        BY <2>1, <2>2, <2>6, <2>9 DEF Triangle
<1> QED
    BY <1>1, OvershootInit, OvershootNext, TypeInit, TypeNext, PTL DEF Spec

-----------------------------------------------------------------------------
(* What runPool keeps, for any plan, any number of slots and any cost of   *)
(* the calls: it is a client run like any other, it implements ForEach,    *)
(* and its serial start lets no two calls pass the budget guard blind.     *)

PoolTypeOK ==
    /\ stage \in {"serial", "dispatch", "wait", "returned"}
    /\ taken \in 0..Len(Plan)
    /\ item \in [Workers -> 0..taken]
    /\ asked \in [Workers -> Nat]

\* What a step does: to the client, or to the pool and nothing else.
LEMMA PoolCases ==
    ASSUME PoolNext
    PROVE  \/ \E w \in Workers : (RunSerially(w) \/ Dispatch(w)) /\ Take(w)
           \/ \E w \in Workers : Ask(w)
           \/ \E w \in Workers : FinishItem(w)
           \/ \E w \in Workers : InDo(w) \/ OnWire(w)
           \/ LeaveSerial \/ StopDispatch \/ WaitDone \/ Cancel
           \/ UNCHANGED allVars
BY DEF PoolNext, RunSerially, Dispatch, Returned

\* The next call of an item is one of the program's calls.
LEMMA AskedCall ==
    ASSUME PoolTypeOK, NEW w \in Workers, Ask(w)
    PROVE  \E c \in Calls : CacheHit(w, c) \/ RefuseOffline(w, c) \/ RefuseExpensive(w, c) \/ Miss(w, c)
<1>1. item[w] \in 1..Len(Plan) /\ asked[w] + 1 \in 1..Len(Plan[item[w]])
    <2>1. item[w] \in 0..taken /\ item[w] # 0 /\ taken \in 0..Len(Plan) /\ Len(Plan) \in Nat
        BY PlanAssumption DEF PoolTypeOK, Ask
    <2>2. item[w] \in 1..Len(Plan)
        BY <2>1
    <2>3. Plan[item[w]] \in Seq(Calls)
        BY <2>2, PlanAssumption
    <2>4. asked[w] \in Nat /\ asked[w] < Len(Plan[item[w]]) /\ Len(Plan[item[w]]) \in Nat
        BY <2>3 DEF PoolTypeOK, Ask
    <2> QED
        BY <2>2, <2>4
<1>2. Plan[item[w]][asked[w] + 1] \in Calls
    BY <1>1, PlanAssumption
<1> QED
    BY <1>2 DEF Ask

LEMMA PoolTypeNext == PoolTypeOK /\ [PoolNext]_allVars => PoolTypeOK'
<1> SUFFICES ASSUME PoolTypeOK, [PoolNext]_allVars PROVE PoolTypeOK'
    OBVIOUS
<1>0. taken \in Nat /\ Len(Plan) \in Nat
    BY PlanAssumption DEF PoolTypeOK
<1>1. ASSUME NEW w \in Workers, RunSerially(w) \/ Dispatch(w), Take(w) PROVE PoolTypeOK'
    <2>1. taken' \in 0..Len(Plan) /\ taken + 1 \in 0..taken' /\ 0..taken \subseteq 0..taken'
        BY <1>0, <1>1 DEF Take
    <2>2. item' \in [Workers -> 0..taken'] /\ asked' \in [Workers -> Nat]
        BY <1>1, <2>1 DEF Take, PoolTypeOK
    <2> QED
        BY <1>1, <2>1, <2>2 DEF Take, PoolTypeOK
<1>2. ASSUME NEW w \in Workers, Ask(w) PROVE PoolTypeOK'
    BY <1>2 DEF Ask, PoolTypeOK
<1>3. ASSUME NEW w \in Workers, FinishItem(w) PROVE PoolTypeOK'
    BY <1>0, <1>3 DEF FinishItem, PoolTypeOK
<1>4. ASSUME NEW w \in Workers, InDo(w) \/ OnWire(w) PROVE PoolTypeOK'
    BY <1>4 DEF InDo, OnWire, pool, PoolTypeOK
<1>5. CASE LeaveSerial \/ StopDispatch \/ WaitDone \/ Cancel
    BY <1>5 DEF LeaveSerial, StopDispatch, WaitDone, Cancel, pool, PoolTypeOK
<1>6. CASE UNCHANGED allVars
    BY <1>6 DEF allVars, pool, PoolTypeOK
<1> QED
    BY PoolCases, <1>1, <1>2, <1>3, <1>4, <1>5, <1>6

LEMMA PoolTypeInit == PoolInit => PoolTypeOK
BY PlanAssumption DEF PoolInit, PoolTypeOK

\* A pool step is a step of the client, or none.
LEMMA PoolStepOfClient == PoolTypeOK /\ [PoolNext]_allVars => [Next]_vars
<1> SUFFICES ASSUME PoolTypeOK, [PoolNext]_allVars PROVE [Next]_vars
    OBVIOUS
<1>1. ASSUME NEW w \in Workers, Ask(w) PROVE Next
    BY <1>1, AskedCall DEF Next, Begin
<1>2. ASSUME NEW w \in Workers, InDo(w) \/ OnWire(w) PROVE Next
    BY <1>2 DEF InDo, OnWire, Next
<1>3. Cancel => Next
    BY DEF Cancel, Next
<1> QED
    BY PoolCases, <1>1, <1>2, <1>3 DEF Take, FinishItem, LeaveSerial, StopDispatch, WaitDone, allVars

\* Whatever holds of the client however its goroutines drive it holds under
\* runPool: the pool's behaviours are behaviours of Client.
THEOREM PoolRunsClient == PoolSpec => Spec
<1>1. PoolInit => Init
    BY DEF PoolInit
<1> QED
    BY <1>1, PoolTypeInit, PoolTypeNext, PoolStepOfClient, PTL DEF PoolSpec, Spec

-----------------------------------------------------------------------------
(***************************************************************************)
(* runPool implements ForEach.  The inductive invariant is about who runs  *)
(* what: no two workers are on one item, a worker inside a Do is on some   *)
(* item, and the two ways to the end have left nothing out or were         *)
(* cancelled.                                                              *)
(***************************************************************************)

PoolInv ==
    /\ \A v, w \in Running : v # w => item[v] # item[w]
    /\ Busy \subseteq Running
    /\ stage = "serial" => \A v, w \in Running : v = w
    /\ stage = "wait" => taken = Len(Plan) \/ cancelled
    /\ stage = "returned" => Running = {} /\ (taken = Len(Plan) \/ cancelled)

\* What a worker does in its fn, as the pool sees it.
LEMMA WorkerStep ==
    ASSUME PoolTypeOK, TypeOK, NEW w \in Workers, Ask(w) \/ InDo(w) \/ OnWire(w)
    PROVE  /\ UNCHANGED <<stage, taken, item, cancelled>>
           /\ \A v \in Workers \ {w} : pc'[v] = pc[v]
           /\ w \in Running \/ pc[w] # "idle"
<1>1. CASE Ask(w)
    <2>1. PICK c \in Calls : CacheHit(w, c) \/ RefuseOffline(w, c) \/ RefuseExpensive(w, c) \/ Miss(w, c)
        BY <1>1, AskedCall
    <2>2. cancelled' = cancelled /\ \A v \in Workers \ {w} : pc'[v] = pc[v]
        BY <2>1 DEF CacheHit, RefuseOffline, RefuseExpensive, Refused, Miss, Goto, process, local, TypeOK, LocalsOK
    <2> QED
        BY <1>1, <2>2 DEF Ask, Running
<1>2. CASE InDo(w)
    BY <1>2 DEF InDo, Continue, ReserveBlind, ReserveCredits, RefuseFloor, Send, Abandon, HandleResponse,
       WriteReceipt, Store, FailDo, Return, Goto, pool, process, TypeOK, LocalsOK
<1>3. CASE OnWire(w)
    BY <1>3 DEF OnWire, Serve, Charge, Reject, NetFail, Answer, Goto, pool, process, TypeOK, LocalsOK
<1> QED
    BY <1>1, <1>2, <1>3

LEMMA TakeRuns ==
    ASSUME PoolTypeOK, NEW w \in Workers, w \notin Running, Take(w)
    PROVE  /\ Running' = Running \cup {w} /\ item'[w] = taken + 1 /\ taken + 1 \in 1..Len(Plan)
           /\ \A v \in Running : item'[v] = item[v] /\ item[v] \in 1..taken
<1>1. taken \in Nat /\ Len(Plan) \in Nat
    BY PlanAssumption DEF PoolTypeOK
<1>2. item'[w] = taken + 1 /\ \A v \in Workers \ {w} : item'[v] = item[v]
    BY <1>1 DEF Take, PoolTypeOK
<1>3. Running' = Running \cup {w}
    BY <1>1, <1>2 DEF Running
<1>4. \A v \in Running : v # w /\ item[v] \in 1..taken
    BY <1>1 DEF Running, PoolTypeOK
<1> QED
    BY <1>1, <1>2, <1>3, <1>4 DEF Take

LEMMA FinishRuns ==
    ASSUME PoolTypeOK, NEW w \in Workers, FinishItem(w)
    PROVE  Running' = Running \ {w} /\ w \in Running /\ \A v \in Running' : item'[v] = item[v]
BY DEF FinishItem, Running, PoolTypeOK

LEMMA PoolInvNext == PoolTypeOK /\ TypeOK /\ PoolInv /\ [PoolNext]_allVars => PoolInv'
<1> SUFFICES ASSUME PoolTypeOK, TypeOK, PoolInv, [PoolNext]_allVars PROVE PoolInv'
    OBVIOUS
<1>0. taken \in Nat /\ Len(Plan) \in Nat
    BY PlanAssumption DEF PoolTypeOK
<1>1. ASSUME NEW w \in Workers, RunSerially(w) \/ Dispatch(w), Take(w) PROVE PoolInv'
    <2>1. w \notin Running /\ (stage = "serial" => Running = {}) /\ stage \in {"serial", "dispatch"}
        BY <1>1 DEF RunSerially, Dispatch, FreeSlot, Running
    <2>2. /\ Running' = Running \cup {w} /\ item'[w] = taken + 1
          /\ \A v \in Running : item'[v] = item[v] /\ item[v] \in 1..taken
        BY <1>1, <2>1, TakeRuns
    <2>3. \A u, v \in Running' : u # v => item'[u] # item'[v]
        BY <1>0, <2>2 DEF PoolInv
    <2>4. Busy' = Busy /\ stage' = stage
        BY <1>1 DEF Take, Busy, vars, local
    <2> QED
        BY <2>1, <2>2, <2>3, <2>4 DEF PoolInv
<1>2. ASSUME NEW w \in Workers, Ask(w) \/ InDo(w) \/ OnWire(w) PROVE PoolInv'
    <2>1. /\ UNCHANGED <<stage, taken, item, cancelled>>
          /\ \A v \in Workers \ {w} : pc'[v] = pc[v]
          /\ w \in Running \/ pc[w] # "idle"
        BY <1>2, WorkerStep
    <2>2. Running' = Running /\ w \in Running /\ Busy' \subseteq Busy \cup {w}
        BY <2>1 DEF Running, Busy, PoolInv
    <2> QED
        BY <2>1, <2>2 DEF PoolInv
<1>3. ASSUME NEW w \in Workers, FinishItem(w) PROVE PoolInv'
    <2>1. Running' = Running \ {w} /\ \A v \in Running' : item'[v] = item[v]
        BY <1>3, FinishRuns
    <2>2. Busy' = Busy /\ w \notin Busy /\ UNCHANGED <<stage, taken, cancelled>>
        BY <1>3 DEF FinishItem, FnReturned, Busy, vars, local, process
    <2> QED
        BY <2>1, <2>2 DEF PoolInv
<1>4. CASE LeaveSerial \/ StopDispatch \/ WaitDone
    <2>1. UNCHANGED <<pc, cancelled, taken, item>>
        BY <1>4 DEF LeaveSerial, StopDispatch, WaitDone, vars, local, process
    <2>2. Running' = Running /\ Busy' = Busy
        BY <2>1 DEF Running, Busy
    <2>3. /\ stage' # "serial"
          /\ stage' = "wait" => taken = Len(Plan) \/ cancelled
          /\ stage' = "returned" => Running = {} /\ (taken = Len(Plan) \/ cancelled)
        BY <1>4 DEF LeaveSerial, StopDispatch, WaitDone, MayReturn, PoolInv
    <2> QED
        BY <2>1, <2>2, <2>3 DEF PoolInv
<1>5. CASE Cancel
    <2>1. UNCHANGED <<pc, stage, taken, item>> /\ cancelled'
        BY <1>5 DEF Cancel, Interrupt, pool, local
    <2>2. Running' = Running /\ Busy' = Busy
        BY <2>1 DEF Running, Busy
    <2> QED
        BY <2>1, <2>2 DEF PoolInv
<1>6. CASE UNCHANGED allVars
    <2>1. UNCHANGED <<pc, cancelled, stage, taken, item>>
        BY <1>6 DEF allVars, vars, local, process, pool
    <2>2. Running' = Running /\ Busy' = Busy
        BY <2>1 DEF Running, Busy
    <2> QED
        BY <2>1, <2>2 DEF PoolInv
<1> QED
    BY PoolCases, <1>1, <1>2, <1>3, <1>4, <1>5, <1>6

LEMMA PoolInvInit == PoolInit => PoolInv
BY DEF PoolInit, Init, PoolInv, Running, Busy

\* Fewer items run than there are slots as long as a slot is free.
LEMMA SlotLeft ==
    ASSUME NEW w \in Workers, w \notin Running
    PROVE  Cardinality({item[v] : v \in Running}) < Cardinality(Workers)
<1>1. IsFiniteSet(Running) /\ Cardinality(Running) <= Cardinality(Workers) /\ Running # Workers
    BY SlotsAssumption, FS_Subset DEF Running
<1>2. Cardinality(Running) # Cardinality(Workers)
    BY <1>1, SlotsAssumption, FS_Subset DEF Running
<1>3. IsFiniteSet({item[v] : v \in Running}) /\ Cardinality({item[v] : v \in Running}) <= Cardinality(Running)
    <2> DEFINE T == {item[v] : v \in Running}
               f == [v \in Running |-> item[v]]
    <2>1. f \in Surjection(Running, T)
        BY DEF Surjection
    <2> QED
        BY <1>1, <2>1, FS_Surjection
<1>4. /\ Cardinality(Workers) \in Nat /\ Cardinality(Running) \in Nat
      /\ Cardinality({item[v] : v \in Running}) \in Nat
    BY <1>1, <1>3, SlotsAssumption, FS_CardinalityType
<1> QED
    BY <1>1, <1>2, <1>3, <1>4

LEMMA SameCardinality == \A S : Promise!Cardinality(S) = Cardinality(S)
BY DEF Promise!Cardinality, Cardinality

LEMMA PoolStepOfForEach ==
    PoolTypeOK /\ TypeOK /\ PoolInv /\ PoolInv' /\ [PoolNext]_allVars => [Promise!Next]_(Promise!vars)
<1> SUFFICES ASSUME PoolTypeOK, TypeOK, PoolInv, PoolInv', [PoolNext]_allVars
             PROVE  [Promise!Next]_(Promise!vars)
    OBVIOUS
<1>0. taken \in Nat /\ Len(Plan) \in Nat
    BY PlanAssumption DEF PoolTypeOK
<1> DEFINE items == {item[v] : v \in Running}
<1>1. ASSUME NEW w \in Workers, RunSerially(w) \/ Dispatch(w), Take(w) PROVE Promise!Next
    <2>1. w \notin Running
        BY <1>1 DEF RunSerially, Dispatch, FreeSlot, Running
    <2>2. /\ Running' = Running \cup {w} /\ item'[w] = taken + 1 /\ taken + 1 \in 1..Len(Plan)
          /\ \A v \in Running : item'[v] = item[v]
        BY <1>1, <2>1, TakeRuns
    <2>3. items' = items \cup {taken + 1}
        BY <2>2
    <2>4. /\ taken + 1 \in (taken + 1)..Len(Plan)
          /\ (taken' + 1)..Len(Plan) = ((taken + 1)..Len(Plan)) \ {taken + 1}
        BY <1>0, <1>1, <2>2 DEF Take
    <2>5. stage # "returned" /\ stage' = stage /\ cancelled' = cancelled
        BY <1>1 DEF RunSerially, Dispatch, Take, vars, process
    <2>6. Cardinality(items) < Cardinality(Workers)
        BY <2>1, SlotLeft
    <2>7. PICK i \in 1..Len(Plan) : i = taken + 1
        BY <2>2
    <2>8. Promise!Start(i)
        BY <2>3, <2>4, <2>5, <2>6, <2>7, SameCardinality DEF Promise!Start
    <2> QED
        BY <2>8 DEF Promise!Next
<1>2. ASSUME NEW w \in Workers, FinishItem(w) PROVE Promise!Next
    <2>1. Running' = Running \ {w} /\ w \in Running /\ \A v \in Running' : item'[v] = item[v]
        BY <1>2, FinishRuns
    <2>2. items' = items \ {item[w]}
        BY <2>1 DEF PoolInv
    <2>3. UNCHANGED <<stage, taken, cancelled>>
        BY <1>2 DEF FinishItem, vars, process
    <2>4. item[w] \in 1..Len(Plan)
        BY <1>0, <2>1 DEF Running, PoolTypeOK
    <2>5. PICK i \in 1..Len(Plan) : i = item[w]
        BY <2>4
    <2>6. Promise!Finish(i)
        BY <2>1, <2>2, <2>3, <2>5 DEF Promise!Finish
    <2> QED
        BY <2>6 DEF Promise!Next
<1>3. CASE LeaveSerial \/ StopDispatch \/ WaitDone
    <2>1. UNCHANGED <<item, taken, cancelled>>
        BY <1>3 DEF LeaveSerial, StopDispatch, WaitDone, vars, process
    <2>2. items' = items
        BY <2>1 DEF Running
    <2>3. CASE stage' = "returned"
        <3>1. Running = {} /\ (taken = Len(Plan) \/ cancelled)
            BY <2>1, <2>3 DEF PoolInv, Running
        <3>2. items = {} /\ ((taken + 1)..Len(Plan) = {} \/ cancelled)
            BY <1>0, <3>1
        <3>3. Promise!Return
            BY <2>1, <2>2, <2>3, <3>2 DEF Promise!Return
        <3> QED
            BY <3>3 DEF Promise!Next
    <2>4. CASE stage' # "returned"
        <3>1. stage # "returned"
            BY <1>3 DEF LeaveSerial, StopDispatch, WaitDone
        <3> QED
            BY <2>1, <2>2, <2>4, <3>1 DEF Promise!vars
    <2> QED
        BY <2>3, <2>4
<1>4. CASE Cancel
    <2>1. UNCHANGED <<item, taken, stage>> /\ cancelled' = TRUE
        BY <1>4 DEF Cancel, Interrupt, pool
    <2>2. items' = items
        BY <2>1 DEF Running
    <2>3. Promise!Stop
        BY <2>1, <2>2 DEF Promise!Stop
    <2> QED
        BY <2>3 DEF Promise!Next
<1>5. ASSUME UNCHANGED <<stage, taken, item, cancelled>> PROVE UNCHANGED Promise!vars
    BY <1>5 DEF Promise!vars, Running
<1>6. ASSUME NEW w \in Workers, Ask(w) \/ InDo(w) \/ OnWire(w) PROVE UNCHANGED Promise!vars
    BY <1>5, <1>6, WorkerStep
<1>7. UNCHANGED allVars => UNCHANGED Promise!vars
    BY <1>5 DEF allVars, vars, process, pool
<1> HIDE DEF items
<1> QED
    BY PoolCases, <1>1, <1>2, <1>3, <1>4, <1>6, <1>7

\* runPool runs every item at most once, no more at a time than it has slots,
\* returns with nothing running, and leaves an item out only when cancelled.
THEOREM PoolIsForEach == PoolSpec => ImplementsForEach
<1>1. PoolInit => Promise!Init
    BY DEF PoolInit, Init, Promise!Init, Running
<1>2. PoolInit => Init
    BY DEF PoolInit
<1> QED
    BY <1>1, <1>2, PoolTypeInit, PoolTypeNext, PoolInvInit, PoolInvNext, TypeInit, TypeNext, PoolStepOfClient,
       PoolStepOfForEach, PTL
       DEF PoolSpec, ImplementsForEach, Promise!Spec

-----------------------------------------------------------------------------
(***************************************************************************)
(* The serial start.  A call passes the guard blind only while the client  *)
(* knows no balance; a client that knows one keeps knowing one; and the    *)
(* pool dispatches a second worker only once it does.                      *)
(***************************************************************************)

BlindAt(w) == pc[w] \in {"attempt", "wire", "reply"} /\ ~reserved[w]

BlindInv ==
    stage # "serial" =>
        /\ creditsRemaining # Unknown \/ (Running = {} /\ (stage = "dispatch" => taken = Len(Plan)))
        /\ \A w \in Workers : ~BlindAt(w)

\* A balance once seen is not forgotten, and with it no call passes blind.
LEMMA KnownStays ==
    ASSUME PoolTypeOK, TypeOK, NEW w \in Workers, Ask(w) \/ InDo(w) \/ OnWire(w), creditsRemaining # Unknown
    PROVE  /\ creditsRemaining' # Unknown
           /\ BlindAt(w)' => BlindAt(w)
<1> USE DEF process, local
<1>0. creditsRemaining \in Nat
    BY DEF TypeOK
<1>1. CASE Ask(w)
    <2>1. PICK c \in Calls : CacheHit(w, c) \/ RefuseOffline(w, c) \/ RefuseExpensive(w, c) \/ Miss(w, c)
        BY <1>1, AskedCall
    <2> QED
        BY <2>1 DEF CacheHit, RefuseOffline, RefuseExpensive, Refused, Miss, Goto, BlindAt, TypeOK, LocalsOK
<1>2. CASE ReserveCredits(w)
    <2>1. Cost[call[w]] \in Nat /\ CreditFloor \in Nat
        BY <1>2, ConstantsAssumption DEF ReserveCredits, TypeOK, LocalsOK
    <2> QED
        BY <1>0, <1>2, <2>1 DEF ReserveCredits, WithinFloor, Deducted, Unknown, BlindAt, TypeOK, LocalsOK
<1>3. CASE FailDo(w)
    <2>1. Cost[call[w]] \in Nat
        BY <1>3, ConstantsAssumption DEF FailDo, TypeOK, LocalsOK
    <2>2. creditsRemaining' # Unknown
        BY <1>0, <1>3, <2>1 DEF FailDo, Released, Unknown
    <2>3. ~BlindAt(w)'
        BY <1>3 DEF FailDo, Return, Goto, BlindAt, TypeOK, LocalsOK
    <2> QED
        BY <2>2, <2>3
<1>4. CASE HandleResponse(w)
    BY <1>4 DEF HandleResponse, Credited, Goto, BlindAt, TypeOK, LocalsOK
<1>5. CASE ReserveBlind(w)
    BY <1>5 DEF ReserveBlind
<1>6. CASE RefuseFloor(w) \/ Send(w) \/ Abandon(w) \/ WriteReceipt(w) \/ Store(w)
    BY <1>6 DEF RefuseFloor, Send, Abandon, WriteReceipt, Store, Return, Goto, BlindAt, TypeOK, LocalsOK
<1>7. CASE OnWire(w)
    BY <1>7 DEF OnWire, Serve, Charge, Reject, NetFail, Answer, Goto, BlindAt, TypeOK, LocalsOK
<1> QED
    BY <1>1, <1>2, <1>3, <1>4, <1>5, <1>6, <1>7 DEF InDo, Continue

\* What a worker does is not seen in the locals of another.
LEMMA OthersBlind ==
    ASSUME PoolTypeOK, TypeOK, NEW w \in Workers, Ask(w) \/ InDo(w) \/ OnWire(w), NEW v \in Workers \ {w}
    PROVE  BlindAt(v)' <=> BlindAt(v)
<1>1. pc'[v] = pc[v]
    BY WorkerStep
<1>2. reserved'[v] = reserved[v]
    <2>1. CASE Ask(w)
        <3>1. PICK c \in Calls : CacheHit(w, c) \/ RefuseOffline(w, c) \/ RefuseExpensive(w, c) \/ Miss(w, c)
            BY <2>1, AskedCall
        <3> QED
            BY <3>1 DEF CacheHit, RefuseOffline, RefuseExpensive, Refused, Miss, local
    <2>2. CASE InDo(w) \/ OnWire(w)
        BY <2>2 DEF InDo, Continue, ReserveBlind, ReserveCredits, RefuseFloor, Send, Abandon, HandleResponse,
           WriteReceipt, Store, FailDo, Return, OnWire, Serve, Charge, Reject, NetFail, Answer, TypeOK, LocalsOK
    <2> QED
        BY <2>1, <2>2
<1> QED
    BY <1>1, <1>2 DEF BlindAt

LEMMA BlindInvNext == PoolTypeOK /\ TypeOK /\ PoolInv /\ BlindInv /\ [PoolNext]_allVars => BlindInv'
<1> SUFFICES ASSUME PoolTypeOK, TypeOK, PoolInv, BlindInv, [PoolNext]_allVars PROVE BlindInv'
    OBVIOUS
<1>0. taken \in Nat /\ Len(Plan) \in Nat
    BY PlanAssumption DEF PoolTypeOK
<1> USE DEF vars, process, local
<1>1. ASSUME NEW w \in Workers, RunSerially(w) \/ Dispatch(w), Take(w) PROVE BlindInv'
    <2>1. UNCHANGED <<creditsRemaining, pc, reserved, stage>> /\ taken < Len(Plan)
        BY <1>1 DEF Take
    <2>2. stage # "serial" => creditsRemaining # Unknown
        BY <1>0, <1>1, <2>1 DEF RunSerially, Dispatch, BlindInv
    <2> QED
        BY <2>1, <2>2 DEF BlindInv, BlindAt
<1>2. ASSUME NEW w \in Workers, Ask(w) \/ InDo(w) \/ OnWire(w) PROVE BlindInv'
    <2>1. stage' = stage /\ w \in Running
        BY <1>2, WorkerStep DEF PoolInv, Busy
    <2>2. stage # "serial" => creditsRemaining # Unknown
        BY <2>1 DEF BlindInv
    <2> QED
        BY <1>2, <2>1, <2>2, KnownStays, OthersBlind DEF BlindInv
<1>3. ASSUME NEW w \in Workers, FinishItem(w) PROVE BlindInv'
    <2>1. UNCHANGED <<creditsRemaining, pc, reserved, stage, taken>> /\ w \in Running
        BY <1>3, FinishRuns DEF FinishItem
    <2> QED
        BY <2>1 DEF BlindInv, BlindAt
<1>4. CASE LeaveSerial \/ StopDispatch \/ WaitDone
    <2>1. UNCHANGED <<creditsRemaining, pc, reserved, taken, item>>
        BY <1>4 DEF LeaveSerial, StopDispatch, WaitDone
    <2>2. Running' = Running
        BY <2>1 DEF Running
    <2>3. CASE LeaveSerial
        <3>1. Running = {} /\ Busy = {}
            BY <2>3 DEF LeaveSerial, PoolInv
        <3>2. stage' = "dispatch" => creditsRemaining # Unknown \/ taken = Len(Plan)
            BY <1>0, <2>3 DEF LeaveSerial, Blind, PoolTypeOK
        <3> QED
            BY <2>1, <2>2, <3>1, <3>2 DEF BlindInv, BlindAt, Busy
    <2>4. CASE StopDispatch \/ WaitDone
        BY <2>1, <2>2, <2>4 DEF StopDispatch, WaitDone, BlindInv, BlindAt
    <2> QED
        BY <1>4, <2>3, <2>4
<1>5. CASE Cancel \/ UNCHANGED allVars
    <2>1. UNCHANGED <<creditsRemaining, pc, reserved, taken, item, stage>>
        BY <1>5 DEF Cancel, Interrupt, pool, allVars
    <2> QED
        BY <2>1 DEF BlindInv, BlindAt, Running
<1> QED
    BY PoolCases, <1>1, <1>2, <1>3, <1>4, <1>5

LEMMA AtMostOne ==
    ASSUME NEW S, \A x, y \in S : x = y
    PROVE  Cardinality(S) <= 1
<1>1. CASE S = {}
    BY <1>1, FS_EmptySet
<1>2. CASE S # {}
    <2>1. PICK x \in S : TRUE
        BY <1>2
    <2>2. S = {x}
        BY <2>1
    <2> QED
        BY <2>2, FS_Singleton
<1> QED
    BY <1>1, <1>2

\* However many slots there are, at most one call that passed the budget guard
\* without a balance is in flight.
THEOREM SerialStartIsSerial == PoolSpec => []OneBlindInFlight
<1>1. PoolInit => BlindInv
    BY DEF PoolInit, BlindInv
<1>2. PoolInv /\ BlindInv => OneBlindInFlight
    <2> SUFFICES ASSUME PoolInv, BlindInv PROVE OneBlindInFlight
        OBVIOUS
    <2>1. ASSUME NEW v \in Workers, NEW w \in Workers, BlindAt(v), BlindAt(w) PROVE v = w
        BY <2>1 DEF PoolInv, BlindInv, BlindAt, Busy
    <2> QED
        BY <2>1, AtMostOne DEF OneBlindInFlight, BlindAt
<1>3. PoolInit => Init
    BY DEF PoolInit
<1> QED
    BY <1>1, <1>2, <1>3, PoolTypeInit, PoolTypeNext, PoolInvInit, PoolInvNext, TypeInit, TypeNext,
       PoolStepOfClient, BlindInvNext, PTL DEF PoolSpec

-----------------------------------------------------------------------------
(***************************************************************************)
(* What the serial start is for: as long as the header of a charged call   *)
(* arrives, the first charge is the last that the client makes blind.  Its *)
(* answer brings the balance, or the run was cancelled and sends no more.  *)
(***************************************************************************)

HeadersArrive == Faults \cap {"noheader", "lost"} = {}

OneCharged == \A c, d \in Calls : charges[c] > 0 /\ charges[d] > 0 => c = d

BringsBalance(w) == pc[w] = "reply" /\ Is200(reply[w]) /\ reply[w].remaining # Unknown

SpendInv ==
    creditsRemaining = Unknown =>
        \/ \A c \in Calls : charges[c] = 0
        \/ /\ OneCharged
           /\ \A w \in Workers : pc[w] # "wire"
           /\ cancelled \/ \E w \in Workers : BringsBalance(w)

LEMMA SpendCharge ==
    ASSUME HeadersArrive, PoolTypeOK, TypeOK, TypeOK', PoolInv, NEW w \in Workers, Charge(w), stage = "serial",
           \A c \in Calls : charges[c] = 0
    PROVE  /\ OneCharged'
           /\ \A v \in Workers : pc'[v] # "wire"
           /\ cancelled' \/ \E v \in Workers : BringsBalance(v)'
<1>1. pc[w] = "wire" /\ charges' = [charges EXCEPT ![call[w]] = @ + 1] /\ call[w] \in Calls /\ balance' \in Nat
    BY DEF Charge, TypeOK, LocalsOK
<1>2. PICK r : Answer(w, r) /\ (cancelled \/ (Is200(r) /\ r.remaining # Unknown))
    BY <1>1 DEF Charge, Possible, HeadersArrive, Reply, Is200, Unknown
<1>3. pc' = [pc EXCEPT ![w] = "reply"] /\ reply' = [reply EXCEPT ![w] = r] /\ cancelled' = cancelled
    BY <1>2 DEF Answer, Goto, process
<1>4. OneCharged'
    BY <1>1 DEF OneCharged, TypeOK
<1>5. \A v \in Workers : pc'[v] # "wire"
    <2>1. \A v \in Workers \ {w} : pc[v] = "idle"
        BY <1>1 DEF PoolInv, Busy
    <2> QED
        BY <1>3, <2>1 DEF TypeOK, LocalsOK
<1>6. cancelled' \/ BringsBalance(w)'
    BY <1>2, <1>3 DEF BringsBalance, TypeOK, LocalsOK
<1> QED
    BY <1>4, <1>5, <1>6

LEMMA SpendNext ==
    HeadersArrive /\ PoolTypeOK /\ TypeOK /\ TypeOK' /\ PoolInv /\ BlindInv /\ SpendInv /\ [PoolNext]_allVars
        => SpendInv'
<1> SUFFICES ASSUME HeadersArrive, PoolTypeOK, TypeOK, TypeOK', PoolInv, BlindInv, SpendInv,
                    [PoolNext]_allVars, creditsRemaining' = Unknown
             PROVE  SpendInv'
    BY DEF SpendInv
<1> USE DEF vars, process, local, server
<1>1. ASSUME UNCHANGED <<creditsRemaining, charges, pc, reply>>, cancelled => cancelled' PROVE SpendInv'
    BY <1>1 DEF SpendInv, OneCharged, BringsBalance
<1>2. ASSUME NEW w \in Workers, Ask(w) \/ InDo(w) \/ OnWire(w) PROVE SpendInv'
    <2>1. creditsRemaining = Unknown
        BY <1>2, KnownStays
    <2>2. w \in Running /\ cancelled' = cancelled /\ \A v \in Workers \ {w} : pc'[v] = pc[v]
        BY <1>2, WorkerStep DEF PoolInv, Busy
    <2>3. stage = "serial"
        BY <2>1, <2>2 DEF BlindInv
    \* The worker is the only one inside a Do.
    <2>4. \A v \in Workers \ {w} : pc[v] = "idle" /\ pc'[v] = "idle"
        BY <2>2, <2>3 DEF PoolInv, Busy
    <2>5. CASE Charge(w)
        <3>1. \A c \in Calls : charges[c] = 0
            BY <2>1, <2>5 DEF SpendInv, Charge
        <3> QED
            BY <2>3, <2>5, <3>1, SpendCharge DEF SpendInv
    <2>6. CASE ~Charge(w)
        <3>1. charges' = charges
            <4>1. CASE Ask(w)
                <5>1. PICK c \in Calls : CacheHit(w, c) \/ RefuseOffline(w, c) \/ RefuseExpensive(w, c) \/ Miss(w, c)
                    BY <4>1, AskedCall
                <5> QED
                    BY <5>1 DEF CacheHit, RefuseOffline, RefuseExpensive, Refused, Miss
            <4>2. CASE InDo(w) \/ OnWire(w)
                BY <2>6, <4>2 DEF InDo, Continue, ReserveBlind, ReserveCredits, RefuseFloor, Send, Abandon, HandleResponse,
                   WriteReceipt, Store, FailDo, OnWire, Serve, Reject, NetFail
            <4> QED
                BY <1>2, <4>1, <4>2
        <3>2. CASE \A c \in Calls : charges[c] = 0
            BY <3>1, <3>2 DEF SpendInv
        <3>3. CASE ~\A c \in Calls : charges[c] = 0
            <4>1. OneCharged /\ (\A v \in Workers : pc[v] # "wire") /\ (cancelled \/ BringsBalance(w))
                BY <2>1, <2>4, <3>3 DEF SpendInv, BringsBalance
            \* Its answer would end the blindness.
            <4>2. ~BringsBalance(w)
                <5>1. SUFFICES ASSUME BringsBalance(w) PROVE FALSE
                    OBVIOUS
                <5>2. HandleResponse(w)
                    <6>1. pc[w] = "reply"
                        BY <5>1 DEF BringsBalance
                    <6>2. ~Ask(w)
                        BY <6>1, AskedCall DEF CacheHit, RefuseOffline, RefuseExpensive, Miss, MayAsk
                    <6> QED
                        BY <1>2, <6>1, <6>2 DEF InDo, Continue, ReserveBlind, ReserveCredits, RefuseFloor, Send, Abandon,
                           WriteReceipt, Store, FailDo, OnWire, Serve, Charge, Reject, NetFail
                <5> QED
                    BY <5>1, <5>2 DEF HandleResponse, Credited, BringsBalance
            <4>3. cancelled /\ pc[w] # "wire"
                BY <4>1, <4>2
            <4>4. pc'[w] # "wire"
                <5>1. CASE Ask(w)
                    <6>1. PICK c \in Calls : CacheHit(w, c) \/ RefuseOffline(w, c) \/ RefuseExpensive(w, c) \/ Miss(w, c)
                        BY <5>1, AskedCall
                    <6> QED
                        BY <4>3, <6>1 DEF CacheHit, RefuseOffline, RefuseExpensive, Refused, Miss, Goto, TypeOK, LocalsOK
                <5>2. CASE InDo(w) \/ OnWire(w)
                    BY <4>3, <5>2 DEF InDo, Continue, ReserveBlind, ReserveCredits, RefuseFloor, Send, Abandon, HandleResponse,
                       WriteReceipt, Store, FailDo, Return, OnWire, Serve, Charge, Reject, NetFail, Goto, TypeOK, LocalsOK
                <5> QED
                    BY <1>2, <5>1, <5>2
            <4>5. OneCharged'
                BY <3>1, <4>1 DEF OneCharged
            <4>6. \A v \in Workers : pc'[v] # "wire"
                BY <2>4, <4>4
            <4> QED
                BY <2>2, <4>3, <4>5, <4>6 DEF SpendInv
        <3> QED
            BY <3>2, <3>3
    <2> QED
        BY <2>5, <2>6
<1>3. CASE Cancel
    BY <1>1, <1>3 DEF Cancel, Interrupt
<1>4. CASE UNCHANGED vars
    BY <1>1, <1>4
<1> QED
    BY PoolCases, <1>2, <1>3, <1>4 DEF Take, FinishItem, LeaveSerial, StopDispatch, WaitDone, allVars

\* While the client knows no balance, at most one call has been charged: with
\* any number of slots, retries, failed and undecodable responses, and whenever
\* the run is cancelled.
THEOREM BlindSpendIsOneCall ==
    ASSUME HeadersArrive
    PROVE  PoolSpec => []BlindSpendsOnce
<1>1. PoolInit => BlindInv /\ SpendInv
    BY DEF PoolInit, Init, BlindInv, SpendInv
<1>2. TypeOK /\ SpendInv => BlindSpendsOnce
    <2> SUFFICES ASSUME TypeOK, SpendInv, creditsRemaining = Unknown
                 PROVE  Cardinality({c \in Calls : charges[c] > 0}) <= 1
        BY DEF BlindSpendsOnce
    <2>1. \A c, d \in {b \in Calls : charges[b] > 0} : c = d
        BY DEF SpendInv, OneCharged, TypeOK
    <2> QED
        BY <2>1, AtMostOne
<1>3. PoolInit => Init
    BY DEF PoolInit
<1>4. HeadersArrive
    OBVIOUS
<1> QED
    BY <1>1, <1>2, <1>3, <1>4, PoolTypeInit, PoolTypeNext, PoolInvInit, PoolInvNext, TypeInit, TypeNext,
       PoolStepOfClient, BlindInvNext, SpendNext, PTL DEF PoolSpec
=============================================================================
