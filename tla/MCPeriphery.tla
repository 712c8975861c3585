----------------------------- MODULE MCPeriphery -----------------------------
(***************************************************************************)
(* The three parts around the client that share no state with each other:  *)
(* the rate limiter, the cache directory and the plan against the run.     *)
(* Each behaviour is one of one part; the others keep their initial state. *)
(***************************************************************************)
EXTENDS MCCallPlan, MCDiskCache, RateLimiter

VARIABLE part \* the one that runs

allVars == <<planVars, cacheVars, limiterVars, part>>

MCInit ==
    /\ PlanInit /\ CacheInit /\ LimiterInit
    /\ part \in {"plan", "cache", "limiter"}

PlanStep    == part = "plan"    /\ PlanNext    /\ UNCHANGED <<cacheVars, limiterVars, part>>
CacheStep   == part = "cache"   /\ CacheNext   /\ UNCHANGED <<planVars, limiterVars, part>>
LimiterStep == part = "limiter" /\ LimiterNext /\ UNCHANGED <<planVars, cacheVars, part>>

MCNext == PlanStep \/ CacheStep \/ LimiterStep

MCSpec == MCInit /\ [][MCNext]_allVars
=============================================================================
