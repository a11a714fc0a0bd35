--------------------------- MODULE ActionDispatch ---------------------------
(***************************************************************************)
(* The server's side of an action call: the request guard that charges and *)
(* caps a player's calls (request-guard.ts), the idempotency cache that    *)
(* runs a key once (idempotency.ts), and the dispatch between them         *)
(* (server-runtime.ts), as the transport drives them (roblox.ts,           *)
(* `bindRemoteActions`).                                                   *)
(*                                                                         *)
(* A request is one envelope: an attempt of a call.  Its action may have a *)
(* rate limit (RateLimit models it; here it admits or refuses), may refuse *)
(* by validation or `authorize`, and may run for as long as it likes: the  *)
(* server has no timeout of its own.                                       *)
(***************************************************************************)
EXTENDS Integers, Sequences, FiniteSets

CONSTANTS
  Players, Requests,
  PlayerOf,     \* PlayerOf[r]: who sent it
  Keys, KeyOf,  \* KeyOf[r]: the action and idempotency key, or NoKey
  NoKey,
  Priced,       \* requests to an action with a rate limit
  OneWay,       \* requests to a fire-and-forget action
  Burst,        \* requestBudget.burst
  MaxInFlight,  \* requestBudget.maxInFlight
  MaxEntries    \* IDEMPOTENCY_MAX_ENTRIES_PER_PLAYER

Refusals == {"busy", "limited", "invalid", "forbidden"}
Results == {"ok", "failed"} \cup Refusals
NoResult == "none"

VARIABLES
  up,        \* up[p]: calls on their way, in order
  down,      \* down[p]: responses on their way, in order
  departed,  \* players who left
  budget,    \* budget[p]: the guard's state of p, if it has one
  entries,   \* entries[p][k]: the request that runs, or ran, the key; or NoKey
  order,     \* order[p]: the keys with an entry, oldest first
  stale,     \* requests whose settled result is past its time to live
  stage,     \* stage[r]: how far r is
  result,    \* result[r]: what it settled to
  ran,       \* requests that reached their handler
  sharers,   \* sharers[r]: later requests that wait for r's result
  forgotten  \* requests whose entry was dropped for room, for age or on leave

guardVars == <<departed, budget>>
memoryVars == <<entries, order, forgotten>>
callVars == <<stage, result, ran, sharers>>
serverVars == <<up, down, guardVars, memoryVars, stale, callVars>>

NoState == [tokens |-> 0, inFlight |-> -1]

Init ==
  /\ up = [p \in Players |-> <<>>]
  /\ down = [p \in Players |-> <<>>]
  /\ departed = {}
  /\ budget = [p \in Players |-> NoState]
  /\ entries = [p \in Players |-> [k \in Keys |-> NoKey]]
  /\ order = [p \in Players |-> <<>>]
  /\ stale = {}
  /\ stage = [r \in Requests |-> "new"]
  /\ result = [r \in Requests |-> NoResult]
  /\ ran = {}
  /\ sharers = [r \in Requests |-> <<>>]
  /\ forgotten = {}

-----------------------------------------------------------------------------
(* The request guard.                                                      *)

(* stateFor(p): a player's state starts with a full budget.                *)
StateFor(p) == IF budget[p] = NoState THEN [tokens |-> Burst, inFlight |-> 0] ELSE budget[p]

Admits(p) == p \notin departed /\ StateFor(p).tokens >= 1

Charged(p) == [StateFor(p) EXCEPT !.tokens = @ - 1]

Begins(p) == StateFor(p).inFlight < MaxInFlight

(* One token more, up to the burst.                                        *)
WithToken(state) == [state EXCEPT !.tokens = IF @ < Burst THEN @ + 1 ELSE @]

(* refund: a call its action's own rate limit admitted.                    *)
Refunded(r, state) == IF r \in Priced /\ state # NoState THEN WithToken(state) ELSE state

Unfinished(state) == state  \* mutant: a slot is not given back
Finished(state) ==
  IF state # NoState /\ state.inFlight > 0 THEN [state EXCEPT !.inFlight = @ - 1] ELSE state

(* Time gives tokens back.                                                 *)
Refill(p) ==
  /\ budget[p] # NoState /\ budget[p].tokens < Burst
  /\ budget' = [budget EXCEPT ![p] = WithToken(@)]
  /\ UNCHANGED <<up, down, departed, memoryVars, stale, callVars>>

-----------------------------------------------------------------------------
(* The idempotency cache.                                                  *)

KeyIn(k, s) == \E i \in 1 .. Len(s) : s[i] = k
Without(s, k) ==
  IF ~KeyIn(k, s) THEN s
  ELSE LET at == CHOOSE i \in 1 .. Len(s) : s[i] = k IN
       SubSeq(s, 1, at - 1) \o SubSeq(s, at + 1, Len(s))

(* The entry a request finds: still running, or settled and not too old.   *)
Remembers(r) ==
  /\ KeyOf[r] # NoKey
  /\ entries[PlayerOf[r]][KeyOf[r]] \in Requests \ stale

(* An old entry of the key goes; then the oldest, until there is room.     *)
Kept(r) == Without(order[PlayerOf[r]], KeyOf[r])
KeptForRoom(r) ==
  IF Len(Kept(r)) >= MaxEntries
  THEN SubSeq(Kept(r), Len(Kept(r)) - MaxEntries + 2, Len(Kept(r)))
  ELSE Kept(r)

(* The cache after run(r) made room; `added`: r's own entry stays.         *)
MakeRoom(r, added) ==
  LET p == PlayerOf[r] IN
  IF KeyOf[r] = NoKey THEN UNCHANGED memoryVars
  ELSE
    /\ entries' = [entries EXCEPT ![p] = [k \in Keys |->
         IF k = KeyOf[r] THEN IF added THEN r ELSE NoKey
         ELSE IF KeyIn(k, KeptForRoom(r)) THEN entries[p][k] ELSE NoKey]]
    /\ order' = [order EXCEPT ![p] = IF added THEN Append(KeptForRoom(r), KeyOf[r])
                                     ELSE KeptForRoom(r)]
    /\ forgotten' = forgotten \cup
         {q \in Requests : \E k \in Keys :
            entries[p][k] = q /\ ~KeyIn(k, KeptForRoom(r)) /\ (k # KeyOf[r] \/ q \in stale)}

(* settle of a request that was refused: its entry goes, if it is still it.*)
ForgetRefusal(r) ==
  LET p == PlayerOf[r] IN
  IF KeyOf[r] # NoKey /\ entries[p][KeyOf[r]] = r
  THEN /\ entries' = [entries EXCEPT ![p][KeyOf[r]] = NoKey]
       /\ order' = [order EXCEPT ![p] = Without(@, KeyOf[r])]
       /\ UNCHANGED forgotten
  ELSE UNCHANGED memoryVars

(* A settled result grows older than IDEMPOTENCY_TTL_MS.                   *)
Lapse(r) ==
  /\ stage[r] = "done" /\ KeyOf[r] # NoKey /\ entries[PlayerOf[r]][KeyOf[r]] = r
  /\ r \notin stale
  /\ stale' = stale \cup {r}
  /\ UNCHANGED <<up, down, guardVars, memoryVars, callVars>>

-----------------------------------------------------------------------------
(* Dispatch.                                                               *)

Response(r, res) == [of |-> r, result |-> res]

(* The responses of requests of one action that settled, unless it is      *)
(* fire-and-forget; to a player who left, the fire fails and is dropped.   *)
Responses(rs, res) ==
  IF rs[1] \in OneWay THEN <<>> ELSE [i \in 1 .. Len(rs) |-> Response(rs[i], res)]
Respond(p, rs, res) ==
  down' = IF p \in departed THEN down ELSE [down EXCEPT ![p] = @ \o Responses(rs, res)]

(* Dropped without a response: late, or over the budget.  (Malformed       *)
(* envelopes and unknown actions are charged and dropped the same way.)    *)
Drop(r) ==
  LET p == PlayerOf[r] IN
  /\ ~Admits(p)
  /\ stage' = [stage EXCEPT ![r] = "dropped"]
  /\ budget' = IF p \in departed THEN budget ELSE [budget EXCEPT ![p] = StateFor(p)]
  /\ UNCHANGED <<down, departed, memoryVars, stale, result, ran, sharers>>

(* The key has an entry: its outcome is this request's too.                *)
Share(r) ==
  LET p == PlayerOf[r]  first == entries[p][KeyOf[r]] IN
  /\ Admits(p) /\ Remembers(r)
  /\ budget' = [budget EXCEPT ![p] = Charged(p)]
  /\ IF stage[first] = "done"
     THEN /\ stage' = [stage EXCEPT ![r] = "done"]
          /\ result' = [result EXCEPT ![r] = result[first]]
          /\ Respond(p, <<r>>, result[first])
          /\ UNCHANGED sharers
     ELSE /\ stage' = [stage EXCEPT ![r] = "shares"]
          /\ sharers' = [sharers EXCEPT ![first] = Append(@, r)]
          /\ UNCHANGED <<result, down>>
  /\ UNCHANGED <<departed, memoryVars, stale, ran>>

(* At the cap: refused before any parsing, and not remembered, though room *)
(* was made for it.                                                        *)
TurnAway(r) ==
  LET p == PlayerOf[r] IN
  /\ Admits(p) /\ ~Remembers(r) /\ ~Begins(p)
  /\ budget' = [budget EXCEPT ![p] = Charged(p)]
  /\ MakeRoom(r, FALSE)
  /\ stage' = [stage EXCEPT ![r] = "done"]
  /\ result' = [result EXCEPT ![r] = "busy"]
  /\ Respond(p, <<r>>, "busy")
  /\ UNCHANGED <<departed, stale, ran, sharers>>

(* Takes a slot and an entry; validation, the rate limit and `authorize`   *)
(* follow, which may run the game's code and so yield.                     *)
Start(r) ==
  LET p == PlayerOf[r] IN
  /\ Admits(p) /\ ~Remembers(r) /\ Begins(p)
  /\ budget' = [budget EXCEPT ![p] = [Charged(p) EXCEPT !.inFlight = @ + 1]]
  /\ MakeRoom(r, TRUE)
  /\ stage' = [stage EXCEPT ![r] = "checking"]
  /\ UNCHANGED <<down, departed, stale, result, ran, sharers>>

(* The next call of p's stream is read.                                    *)
Receive(p) ==
  /\ up[p] # <<>>
  /\ up' = [up EXCEPT ![p] = Tail(@)]
  /\ LET r == Head(up[p]) IN Drop(r) \/ Share(r) \/ TurnAway(r) \/ Start(r)

(* r and whoever shared its outcome are answered, in order of arrival.     *)
Settle(r, res) ==
  /\ stage' = [q \in Requests |->
       IF q = r \/ KeyIn(q, sharers[r]) THEN "done" ELSE stage[q]]
  /\ result' = [q \in Requests |->
       IF q = r \/ KeyIn(q, sharers[r]) THEN res ELSE result[q]]
  /\ Respond(PlayerOf[r], <<r>> \o sharers[r], res)
  /\ sharers' = [sharers EXCEPT ![r] = <<>>]

(* Refused before the handler: the slot and the entry are given up.  Only  *)
(* a call its rate limit let through is refunded.                          *)
Refuse(r, why) ==
  LET p == PlayerOf[r] IN
  /\ stage[r] = "checking"
  /\ why = "limited" => r \in Priced
  /\ Settle(r, why)
  /\ budget' = [budget EXCEPT ![p] =
                  Finished(IF why = "forbidden" THEN Refunded(r, @) ELSE @)]
  /\ ForgetRefusal(r)
  /\ UNCHANGED <<up, departed, stale, ran>>

(* Past every check: progress.ran is set and the handler entered.          *)
Run(r) ==
  /\ stage[r] = "checking"
  /\ stage' = [stage EXCEPT ![r] = "running"]
  /\ ran' = ran \cup {r}
  /\ budget' = [budget EXCEPT ![PlayerOf[r]] = Refunded(r, @)]
  /\ UNCHANGED <<up, down, departed, memoryVars, stale, result, sharers>>

FinishIfPresent(r, res) ==  \* mutant: the dispatch of a player who left is dropped
  /\ stage[r] = "running" /\ PlayerOf[r] \notin departed
  /\ Settle(r, res)
  /\ budget' = [budget EXCEPT ![PlayerOf[r]] = Finished(@)]
  /\ UNCHANGED <<up, departed, memoryVars, stale, ran>>
(* The handler returns, throws, or returns what does not validate.         *)
Finish(r, res) ==
  /\ stage[r] = "running"
  /\ Settle(r, res)
  /\ budget' = [budget EXCEPT ![PlayerOf[r]] = Finished(@)]
  /\ UNCHANGED <<up, departed, memoryVars, stale, ran>>

Forget(p) ==
  /\ budget' = [budget EXCEPT ![p] = NoState]
  /\ entries' = [entries EXCEPT ![p] = [k \in Keys |-> NoKey]]
  /\ order' = [order EXCEPT ![p] = <<>>]
  /\ forgotten' = forgotten \cup {entries[p][k] : k \in {j \in Keys : entries[p][j] # NoKey}}

(* forgetPlayer, on leave.  The DepartedPlayers entry lapses after 30 s,   *)
(* by when no envelope of the player is left.                              *)
Leave(p) ==
  /\ p \notin departed
  /\ departed' = departed \cup {p}
  /\ Forget(p)
  /\ down' = [down EXCEPT ![p] = <<>>]
  /\ UNCHANGED <<up, stale, callVars>>

Checks(r) == Run(r) \/ \E why \in {"limited", "invalid", "forbidden"} : Refuse(r, why)
Returns(r) == \E res \in {"ok", "failed"} : Finish(r, res)

ServerStep ==
  \/ \E p \in Players : Receive(p) \/ Refill(p)
  \/ \E r \in Requests : Lapse(r) \/ Checks(r) \/ Returns(r)
  \/ \E p \in Players : Leave(p)

(* The handlers and what runs before them return, and a stream is read.    *)
ServerFairness ==
  /\ WF_serverVars(\E p \in Players : Receive(p))
  /\ WF_serverVars(\E r \in Requests : Checks(r))
  /\ WF_serverVars(\E r \in Requests : Returns(r))

-----------------------------------------------------------------------------
ServerTypeOK ==
  /\ up \in [Players -> Seq(Requests)]
  /\ down \in [Players -> Seq([of : Requests, result : Results])]
  /\ departed \subseteq Players
  /\ budget \in [Players -> [tokens : 0 .. Burst, inFlight : Nat] \cup {NoState}]
  /\ entries \in [Players -> [Keys -> Requests \cup {NoKey}]]
  /\ order \in [Players -> Seq(Keys)]
  /\ stage \in [Requests -> {"new", "dropped", "shares", "checking", "running", "done"}]
  /\ result \in [Requests -> Results \cup {NoResult}]
  /\ sharers \in [Requests -> Seq(Requests)]
  /\ stale \subseteq Requests /\ ran \subseteq Requests /\ forgotten \subseteq Requests

(* A key's handler runs once per player, however many requests carry it,   *)
(* for as long as the cache has not dropped the entry for room, for age or *)
(* because the player left (idempotency.ts:3-7, 83-131).                   *)
RunsOnce ==
  \A r, q \in ran :
    r # q /\ PlayerOf[r] = PlayerOf[q] /\ KeyOf[r] = KeyOf[q] /\ KeyOf[r] # NoKey
      => r \in forgotten \/ q \in forgotten

(* The in-flight count is the player's dispatches that are running, never  *)
(* over the cap, whatever they settle to and whoever left meanwhile        *)
(* (request-guard.ts:223-241; server-runtime.ts:641-668).                  *)
InFlightExact ==
  \A p \in Players : budget[p] # NoState =>
    /\ budget[p].inFlight =
         Cardinality({r \in Requests : PlayerOf[r] = p /\ stage[r] \in {"checking", "running"}})
    /\ budget[p].inFlight <= MaxInFlight

(* Nothing is kept for a player who left, and nothing comes back for them: *)
(* not for a late envelope, nor for a dispatch that settles after the      *)
(* leave (request-guard.ts:45-50, 204, 235-240; idempotency.ts:67-69).     *)
NothingForTheGone ==
  \A p \in departed : budget[p] = NoState /\ order[p] = <<>> /\ \A k \in Keys : entries[p][k] = NoKey
=============================================================================
