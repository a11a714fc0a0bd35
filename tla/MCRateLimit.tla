---------------------------- MODULE MCRateLimit -----------------------------
(* Two buckets in one map: a token bucket and a fixed window, of different *)
(* lengths.                                                                *)
EXTENDS RateLimit, TLC
CONSTANTS tokens, fixed,
  MaxTime,   \* bound: ticks
  MaxCalls   \* bound: calls admitted, in all

MCBuckets == {tokens, fixed}
MCStrategy == tokens :> "tokenBucket" @@ fixed :> "fixedWindow"
MCMax == tokens :> 2 @@ fixed :> 2
MCWindow == tokens :> 5 @@ fixed :> 3

Admissions == Len(admitted[tokens]) + Len(admitted[fixed])
MCNext ==
  \/ now < MaxTime /\ Tick
  \/ Purge
  \/ \E b \in Buckets : Check(b) /\ Admissions <= MaxCalls
MCBound == Admissions <= MaxCalls
MCSpec == LimiterInit /\ [][MCNext /\ MCBound']_limiterVars
=============================================================================
