---------------------------- MODULE ActionCalls -----------------------------
(***************************************************************************)
(* Action calls end to end: the client's invoker, with its request timeout *)
(* and cancellation (roblox.ts, `invokerOver`), and its retries            *)
(* (client-runtime.ts, `withRetry`), over the server of ActionDispatch.    *)
(* The n-th attempt of call c is the request <<c, n>>.                     *)
(***************************************************************************)
EXTENDS Integers, Sequences, FiniteSets

CONSTANTS
  Players, Calls,
  CallerOf,     \* CallerOf[c]: the player who makes it
  Keys, NoKey,
  KeyFor,       \* KeyFor[c]: its idempotency key, or NoKey
  MaxRetries,   \* MaxRetries[c]: the client's retry policy
  Idempotent,   \* calls of an action declared `idempotent`
  OneWayCalls,  \* calls of a fire-and-forget action
  PricedCalls,  \* calls of an action with a rate limit
  Burst, MaxInFlight, MaxEntries

Requests == UNION {{<<c, n>> : n \in 1 .. MaxRetries[c] + 1} : c \in Calls}
PlayerOf == [r \in Requests |-> CallerOf[r[1]]]
KeyOf == [r \in Requests |-> KeyFor[r[1]]]
Priced == {r \in Requests : r[1] \in PricedCalls}
OneWay == {r \in Requests : r[1] \in OneWayCalls}

(* A call that may be retried has a key: withRetry mints one.  A one-way   *)
(* call is never retried, and goes out without one.                        *)
ASSUME CallsAssumption ==
  /\ CallerOf \in [Calls -> Players]
  /\ MaxRetries \in [Calls -> Nat]
  /\ KeyFor \in [Calls -> Keys \cup {NoKey}]
  /\ \A c \in Calls : MaxRetries[c] > 0 => KeyFor[c] # NoKey
  /\ \A c \in OneWayCalls : MaxRetries[c] = 0 /\ KeyFor[c] = NoKey
  /\ Idempotent \subseteq Calls /\ OneWayCalls \subseteq Calls /\ PricedCalls \subseteq Calls
  /\ NoKey \notin Keys /\ NoKey \notin Requests
  /\ Burst \in Nat \ {0} /\ MaxInFlight \in Nat \ {0} /\ MaxEntries \in Nat \ {0}

VARIABLES
  up, down, departed, budget, entries, order, stale, stage, result, ran, sharers, forgotten,
  status,    \* status[c]: where the call is on the client
  attempt,   \* attempt[c]: attempts made
  outcome,   \* outcome[c]: what the caller was told
  cancelled  \* calls whose CancelToken was cancelled

Server == INSTANCE ActionDispatch

clientVars == <<status, attempt, outcome, cancelled>>
vars == <<Server!serverVars, clientVars>>

serverRest == <<budget, entries, order, stale, stage, result, ran, sharers, forgotten, departed>>
Connected(c) == CallerOf[c] \notin departed

Init ==
  /\ Server!Init
  /\ status = [c \in Calls |-> "idle"]
  /\ attempt = [c \in Calls |-> 0]
  /\ outcome = [c \in Calls |-> "none"]
  /\ cancelled = {}

-----------------------------------------------------------------------------
Ended(c, how) ==
  /\ status' = [status EXCEPT ![c] = "done"]
  /\ outcome' = [outcome EXCEPT ![c] = how]

(* One attempt goes out.                                                   *)
Send(c) ==
  /\ attempt' = [attempt EXCEPT ![c] = @ + 1]
  /\ status' = [status EXCEPT ![c] = IF c \in OneWayCalls THEN "done" ELSE "pending"]
  /\ outcome' = [outcome EXCEPT ![c] = IF c \in OneWayCalls THEN "sent" ELSE @]
  /\ up' = [up EXCEPT ![CallerOf[c]] = Append(@, <<c, attempt[c] + 1>>)]
  /\ UNCHANGED <<down, serverRest, cancelled>>

(* The invoker: a call already cancelled is rejected before it is sent.    *)
Attempt(c) ==
  IF c \in cancelled /\ c \notin OneWayCalls
  THEN Ended(c, "cancelled") /\ UNCHANGED <<up, down, serverRest, attempt, cancelled>>
  ELSE Send(c)

Invoke(c) == status[c] = "idle" /\ Connected(c) /\ Attempt(c)

RetryableTimeouts(c, why) ==  \* mutant: a timeout is retried whatever the action
  why \in {"limited", "busy", "timeout"}
(* The default retry rule.                                                 *)
Retryable(c, why) ==
  \/ why \in {"limited", "busy"}
  \/ why = "timeout" /\ c \in Idempotent

(* An attempt was rejected: wait and try again, or tell the caller.        *)
Rejected(c, why) ==
  /\ IF attempt[c] <= MaxRetries[c] /\ c \notin cancelled /\ Retryable(c, why)
     THEN status' = [status EXCEPT ![c] = "asleep"] /\ UNCHANGED outcome
     ELSE Ended(c, why)
  /\ UNCHANGED <<attempt, cancelled>>

(* The response settles the attempt that is pending, and only that one.    *)
Answers(c, n) == status[c] = "pending" /\ n = attempt[c]

Hear(p) ==
  /\ down[p] # <<>> /\ p \notin departed
  /\ down' = [down EXCEPT ![p] = Tail(@)]
  /\ LET c == Head(down[p]).of[1]  n == Head(down[p]).of[2]  res == Head(down[p]).result IN
     IF ~Answers(c, n) THEN UNCHANGED clientVars
     ELSE IF res = "ok" THEN Ended(c, "ok") /\ UNCHANGED <<attempt, cancelled>>
     ELSE Rejected(c, res)
  /\ UNCHANGED <<up, serverRest>>

TimeOut(c) ==
  /\ status[c] = "pending" /\ Connected(c)
  /\ Rejected(c, "timeout")
  /\ UNCHANGED <<up, down, serverRest>>

(* The sleep before a retry is over.                                       *)
Wake(c) == status[c] = "asleep" /\ Connected(c) /\ Attempt(c)

(* CancelToken: cancelled once, and for good.                              *)
Trigger(c) == c \notin cancelled /\ cancelled' = cancelled \cup {c}

(* A pending attempt is given up at once; a sleeping one at its wake.      *)
Cancel(c) ==
  /\ c \notin OneWayCalls /\ Connected(c) /\ status[c] # "done"
  /\ Trigger(c)
  /\ IF status[c] = "pending" THEN Ended(c, "cancelled") ELSE UNCHANGED <<status, outcome>>
  /\ UNCHANGED <<up, down, serverRest, attempt>>

ClientStep ==
  \/ \E c \in Calls : Invoke(c) \/ TimeOut(c) \/ Wake(c) \/ Cancel(c)
  \/ \E p \in Players : Hear(p)

Next == ClientStep \/ (Server!ServerStep /\ UNCHANGED clientVars)
Spec == Init /\ [][Next]_vars

(* The client's own timers run, one or another of them; nothing is asked   *)
(* of the server.                                                          *)
ClientFairness == WF_vars(\E c \in Calls : TimeOut(c) \/ Wake(c))

-----------------------------------------------------------------------------
TypeOK ==
  /\ Server!ServerTypeOK
  /\ status \in [Calls -> {"idle", "pending", "asleep", "done"}]
  /\ attempt \in [Calls -> Nat] /\ \A c \in Calls : attempt[c] <= MaxRetries[c] + 1
  /\ outcome \in [Calls -> {"none", "sent", "timeout", "cancelled"} \cup Server!Results]
  /\ cancelled \subseteq Calls

(* A key's handler runs once for as long as its entry is kept, and a call  *)
(* of an action not declared idempotent runs at most once even if the      *)
(* server forgot all about its first attempt: the client only sends it     *)
(* again when it was refused before it ran (idempotency.ts:3-7, 83-131;    *)
(* client-runtime.ts:277-297).                                             *)
RunsOnce ==
  /\ Server!RunsOnce
  /\ \A c \in Calls \ Idempotent : Cardinality({r \in ran : r[1] = c}) <= 1

(* The in-flight count is exact for the players who are here, and nothing  *)
(* is kept for those who left, nor comes back when their dispatches settle *)
(* (request-guard.ts:45-50, 204, 223-241).                                 *)
InFlightExact == Server!InFlightExact /\ Server!NothingForTheGone

(* A request the server let in is settled, with whoever shares its result, *)
(* once handlers return (server-runtime.ts:641-668; idempotency.ts:92-96). *)
AdmittedIsSettled ==
  []<>(\A r \in Requests : stage[r] \notin {"shares", "checking", "running"})
=============================================================================
