----------------------------- MODULE RateLimit ------------------------------
(***************************************************************************)
(* The action rate limiter of rate-limit.ts: one map of buckets for every  *)
(* action and caller, filled in as calls come and purged as they go.  Time *)
(* counts ticks, of which there are Ms to a millisecond, and tokens count  *)
(* units of which a call takes Window[b]: both as fine as needed for every *)
(* division of the code to be exact, but for the two roundings of          *)
(* retryAfterMs, which are modelled.                                       *)
(***************************************************************************)
EXTENDS Integers, Sequences, FiniteSets

CONSTANTS
  Buckets, Strategy, Max, Window, Never,  \* as in RateBudget
  Ms         \* ticks of a millisecond

ASSUME RateAssumption ==
  /\ Strategy \in [Buckets -> {"fixedWindow", "tokenBucket"}]
  /\ Max \in [Buckets -> Nat \ {0}]
  /\ Window \in [Buckets -> Nat \ {0}]
  /\ Never \notin Nat
  /\ Ms \in Nat \ {0}

VARIABLES
  now,
  bucket,    \* bucket[b]: the entry of the map, or NoBucket
  lastPurge, \* of the whole map
  admitted,  \* admitted[b]: when calls were admitted, in order
  refused    \* refused[b]: when a call was last refused

limiterVars == <<now, bucket, lastPurge, admitted, refused>>

AtMost(x, y) == IF x <= y THEN x ELSE y
Capacity(b) == Max[b] * Window[b]
NoBucket == [used |-> 0, at |-> Never]
CeilDiv(n, d) == (n + d - 1) \div d

-----------------------------------------------------------------------------
(* A fixed window's entry holds the window's start and the calls counted;  *)
(* a token bucket's, when it was refilled last and the units then missing. *)
Entries == [used : Nat, at : Nat]
Start(b, t) == (t \div Window[b]) * Window[b]

(* refilledTokens: what is still missing after `elapsed`.                  *)
MissingAfter(b, used, elapsed) ==
  LET back == elapsed * Max[b] IN IF back >= used THEN 0 ELSE used - back

SinceEver(b, entry, t) ==  \* mutant: a window's count outlives the window
  IF entry.at = Never THEN 0
  ELSE IF Strategy[b] = "tokenBucket" THEN MissingAfter(b, entry.used, t - entry.at)
  ELSE entry.used
(* What is spent of the budget when a call is checked at time t.           *)
Spent(b, entry, t) ==
  IF entry.at = Never THEN 0
  ELSE IF Strategy[b] = "tokenBucket" THEN MissingAfter(b, entry.used, t - entry.at)
  ELSE IF entry.at = Start(b, t) THEN entry.used
  ELSE 0

(* Room for one more call: tokens >= 1, or count < max.                    *)
Room(b, entry, t) == Spent(b, entry, t) + Window[b] <= Capacity(b)

(* The entry a check at t leaves behind, with or without the call.         *)
Checked(b, entry, t) ==
  [used |-> Spent(b, entry, t) + (IF Room(b, entry, t) THEN Window[b] ELSE 0),
   at |-> IF Strategy[b] = "tokenBucket" THEN t ELSE Start(b, t)]

FlooredRetry(b, entry, t) ==  \* mutant: rounded down, a retry comes early
  IF Strategy[b] = "tokenBucket"
  THEN (Spent(b, entry, t) + Window[b] - Capacity(b)) \div (Max[b] * Ms)
  ELSE (Start(b, t) + Window[b] - t) \div Ms
(* retryAfterMs of a refusal: rounded up for a token bucket, down for a    *)
(* fixed window.                                                           *)
RetryAfterMs(b, entry, t) ==
  IF Strategy[b] = "tokenBucket"
  THEN CeilDiv(Spent(b, entry, t) + Window[b] - Capacity(b), Max[b] * Ms)
  ELSE (Start(b, t) + Window[b] - t) \div Ms

IdleTooSoon(b, entry, t) ==  \* mutant: a token bucket is purged when it holds one token
  IF Strategy[b] = "tokenBucket"
  THEN MissingAfter(b, entry.used, t - entry.at) + Window[b] <= Capacity(b)
  ELSE entry.at + Window[b] <= t
(* idleAt(entry) <= t: the entry holds nothing a fresh one would not.      *)
Idle(b, entry, t) ==
  IF Strategy[b] = "tokenBucket" THEN entry.used <= (t - entry.at) * Max[b]
  ELSE entry.at + Window[b] <= t

-----------------------------------------------------------------------------
Purged == [b \in Buckets |->
             IF bucket[b].at # Never /\ Idle(b, bucket[b], now) THEN NoBucket
             ELSE bucket[b]]

(* The opportunistic cleanup: at most once per window of the action called.*)
PurgeDue(b) == lastPurge = Never \/ now - lastPurge >= Window[b]

LimiterInit ==
  /\ now = 0
  /\ bucket = [b \in Buckets |-> NoBucket]
  /\ lastPurge = Never
  /\ admitted = [b \in Buckets |-> <<>>]
  /\ refused = [b \in Buckets |-> Never]

Check(b) ==
  LET kept == IF PurgeDue(b) THEN Purged ELSE bucket IN
  /\ lastPurge' = IF PurgeDue(b) THEN now ELSE lastPurge
  /\ bucket' = [kept EXCEPT ![b] = Checked(b, @, now)]
  /\ IF Room(b, kept[b], now)
     THEN admitted' = [admitted EXCEPT ![b] = Append(@, now)] /\ UNCHANGED refused
     ELSE refused' = [refused EXCEPT ![b] = now] /\ UNCHANGED admitted
  /\ UNCHANGED now

(* registry.purgeRateLimits: everyone's, whenever it is called.            *)
Purge == bucket' = Purged /\ UNCHANGED <<now, lastPurge, admitted, refused>>

Tick == now' = now + 1 /\ UNCHANGED <<bucket, lastPurge, admitted, refused>>

LimiterNext == Tick \/ Purge \/ \E b \in Buckets : Check(b)
LimiterSpec == LimiterInit /\ [][LimiterNext]_limiterVars

-----------------------------------------------------------------------------
(* The budget the entries stand for, refilled up to now.                   *)
Budget == INSTANCE RateBudget WITH
  level <- [b \in Buckets |-> Capacity(b) - Spent(b, bucket[b], now)]

LimiterTypeOK ==
  /\ now \in Nat
  /\ lastPurge \in Nat \cup {Never}
  /\ bucket \in [Buckets -> Entries \cup {NoBucket}]
  /\ admitted \in [Buckets -> Seq(Nat)]
  /\ refused \in [Buckets -> Nat \cup {Never}]

(* Whatever is stored lazily, purged on the way or forgotten, each caller  *)
(* has the budget of RateBudget and no other: no call is admitted or       *)
(* refused that it would not, and a purge is invisible                     *)
(* (rate-limit.ts:40-43, 57-62, 120-158).                                  *)
BudgetSpec == Budget!Spec

(* A caller refused now had max calls admitted in the window that just     *)
(* passed: one that keeps to max calls in any windowMs is never refused    *)
(* (rate-limit.ts:70-83, 110-117; actions.md says it of both strategies).  *)
ConformingIsAdmitted ==
  \A b \in Buckets : refused[b] # Never =>
    Cardinality({i \in 1 .. Len(admitted[b]) :
                   refused[b] - Window[b] < admitted[b][i] /\ admitted[b][i] <= refused[b]})
      >= Max[b]

(* A token bucket's retryAfterMs is when a token is there, and no          *)
(* millisecond later; a fixed window's may come up to a millisecond early, *)
(* never late (rate-limit.ts:81, 88-91, 116).                              *)
RetryAfterSuffices ==
  \A b \in Buckets : ~Room(b, bucket[b], now) =>
    LET at(ms) == Room(b, bucket[b], now + ms * Ms)
        ms == RetryAfterMs(b, bucket[b], now) IN
    /\ at(ms + 1)
    /\ IF Strategy[b] = "tokenBucket" THEN at(ms) /\ ~at(ms - 1)
       ELSE \A early \in 0 .. ms * Ms - 1 : ~Room(b, bucket[b], now + early)
=============================================================================
