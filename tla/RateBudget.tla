----------------------------- MODULE RateBudget -----------------------------
(***************************************************************************)
(* What a rate limit of max calls per window promises each caller: a       *)
(* budget that comes back by itself as time passes, whatever the limiter   *)
(* stores, forgets and purges in between.  A call costs Window units of a  *)
(* budget of Max * Window, so that one tick gives back Max units.          *)
(***************************************************************************)
EXTENDS Integers, Sequences, FiniteSets

CONSTANTS
  Buckets,   \* pairs of an action and a caller's key
  Strategy,  \* Strategy[b]: "fixedWindow" or "tokenBucket"
  Max,       \* Max[b]: calls per window
  Window,    \* Window[b]: windowMs, in ticks
  Never      \* a time that is no time

VARIABLES
  now,
  level,     \* level[b]: the budget left
  admitted,  \* admitted[b]: when calls were admitted, in order
  refused    \* refused[b]: when a call was last refused

vars == <<now, level, admitted, refused>>

Capacity(b) == Max[b] * Window[b]
AtMost(x, y) == IF x <= y THEN x ELSE y

Init ==
  /\ now = 0
  /\ level = [b \in Buckets |-> Capacity(b)]
  /\ admitted = [b \in Buckets |-> <<>>]
  /\ refused = [b \in Buckets |-> Never]

(* A token bucket refills evenly; a fixed window all at once, at its end.  *)
Refilled(b) ==
  IF Strategy[b] = "tokenBucket" THEN AtMost(Capacity(b), level[b] + Max[b])
  ELSE IF (now + 1) % Window[b] = 0 THEN Capacity(b)
  ELSE level[b]

Tick ==
  /\ now' = now + 1
  /\ level' = [b \in Buckets |-> Refilled(b)]
  /\ UNCHANGED <<admitted, refused>>

Admit(b) ==
  /\ level[b] >= Window[b]
  /\ level' = [level EXCEPT ![b] = @ - Window[b]]
  /\ admitted' = [admitted EXCEPT ![b] = Append(@, now)]
  /\ UNCHANGED <<now, refused>>

Refuse(b) ==
  /\ level[b] < Window[b]
  /\ refused' = [refused EXCEPT ![b] = now]
  /\ UNCHANGED <<now, level, admitted>>

Next == Tick \/ \E b \in Buckets : Admit(b) \/ Refuse(b)
Spec == Init /\ [][Next]_vars

-----------------------------------------------------------------------------
TypeOK ==
  /\ now \in Nat
  /\ level \in [Buckets -> Nat]
  /\ admitted \in [Buckets -> Seq(Nat)]
  /\ refused \in [Buckets -> Nat \cup {Never}]
=============================================================================
