---------------------------- MODULE MCRateLimiter ----------------------------
(* The limiter at its default rates, beside the limits they are to keep.   *)
EXTENDS RateLimiter

CONSTANTS TierPerSec \* requests a second that the Free tier allows

\* "Kept under the Free tier's 15 / 300" (README.md, --rate-per-sec): no window
\* shorter than a second sees more requests than the tier allows in one.
UnderTier ==
    \A i, j \in 0..now : i <= j /\ j - i < Second => Granted(i, j) <= TierPerSec
=============================================================================
