--------------------------- MODULE ResourceClient ---------------------------
(***************************************************************************)
(* The client side of a resource: `createResourceClient` of resource.ts,   *)
(* its overlay of optimistic updates, and the records of optimistic calls  *)
(* (optimistic.ts, the invoker of roblox.ts).                              *)
(*                                                                         *)
(* All local subscriptions of a client share one wire subscription; the    *)
(* model keeps whether there is one.  What an optimistic subscription shows*)
(* is value[p] with updates[p] applied over it.                            *)
(***************************************************************************)
EXTENDS ResourceItems

VARIABLES
  active,   \* active[p]: p's client holds the resource
  status,   \* LocalResource.status
  value,    \* LocalResource.value, NoValue before the first
  floor,    \* floors: the highest revision seen
  updates,  \* updates[p]: p's calls with an update pending
  called,   \* called[c]: the record of call c on its client
  up        \* up[p]: what p sent and the server has not handled

clientVars == <<active, status, value, floor, updates, called, up>>

Subscribing == [o |-> "subscribe"]
Unsubscribing == [o |-> "unsubscribe"]
Calling(c) == [o |-> "call", i |-> c]
Requests == {Subscribing, Unsubscribing} \cup {Calling(c) : c \in Calls}

ClientInit ==
  /\ active = [p \in Players |-> FALSE]
  /\ status = [p \in Players |-> "loading"]
  /\ value = [p \in Players |-> NoValue]
  /\ floor = [p \in Players |-> 0]
  /\ updates = [p \in Players |-> {}]
  /\ called = [c \in Calls |-> "new"]
  /\ up = [p \in Players |-> << >>]

Request(p, item) == up' = [up EXCEPT ![p] = Append(@, item)]

(* The first local subscription.                                           *)
ClientSubscribe(p) ==
  /\ ~active[p]
  /\ active' = [active EXCEPT ![p] = TRUE]
  /\ Request(p, Subscribing)
  /\ UNCHANGED <<status, value, floor, updates, called>>

(* refresh() or resync().                                                  *)
Refresh(p) ==
  /\ active[p]
  /\ Request(p, Subscribing)
  /\ UNCHANGED <<active, status, value, floor, updates, called>>

Shed(p) ==
  /\ active' = [active EXCEPT ![p] = FALSE]
  /\ status' = [status EXCEPT ![p] = "loading"]
  /\ value' = [value EXCEPT ![p] = NoValue]
  /\ updates' = [updates EXCEPT ![p] = {}]

(* The last local subscription ends, and the updates shown on it.          *)
Disconnect(p) ==
  /\ active[p]
  /\ Shed(p)
  /\ Request(p, Unsubscribing)
  /\ UNCHANGED <<floor, called>>

(* The player is gone, and their client with them.                         *)
ClientGone(p) ==
  /\ Shed(p)
  /\ up' = [up EXCEPT ![p] = << >>]
  /\ UNCHANGED <<floor, called>>

-----------------------------------------------------------------------------
(* Optimistic calls.                                                       *)

(* invokeOptimistic: the update shows at once, if the client is subscribed.*)
BeginCall(c) ==
  LET p == Caller[c] IN
  /\ called[c] = "new"
  /\ called' = [called EXCEPT ![c] = "waiting"]
  /\ updates' = [updates EXCEPT ![p] = IF active[p] THEN @ \cup {c} ELSE @]
  /\ Request(p, Calling(c))
  /\ UNCHANGED <<active, status, value, floor>>

Withdraw(c) == updates' = [updates EXCEPT ![Caller[c]] = @ \ {c}]

(* The call's promise rejects without a response: a timeout, a cancel.     *)
RejectCall(c) ==
  /\ called[c] = "waiting"
  /\ called' = [called EXCEPT ![c] = "rejected"]
  /\ Withdraw(c)
  /\ UNCHANGED <<active, status, value, floor, up>>

(* The settle timeout, after the response.                                 *)
SettleTimeout(c) ==
  /\ called[c] = "answered" /\ c \in updates[Caller[c]]
  /\ called' = [called EXCEPT ![c] = "expired"]
  /\ Withdraw(c)
  /\ UNCHANGED <<active, status, value, floor, up>>

-----------------------------------------------------------------------------
(* Items that arrive.                                                      *)

(* The calls an item names leave in the step that handles it, applied or   *)
(* stale.                                                                  *)
Unsettled(p, keys) == updates[p] \ keys

Stale(p, at) == at <= floor[p]

HandleState(p, item) ==
  /\ item.t = "state"
  /\ updates' = [updates EXCEPT ![p] = Unsettled(p, item.k)]
  /\ floor' = [floor EXCEPT ![p] = IF Stale(p, item.v) THEN @ ELSE item.v]
  /\ IF Stale(p, item.v) \/ ~active[p] THEN UNCHANGED <<status, value>>
     ELSE /\ status' = [status EXCEPT ![p] = IF item.e = "none" THEN "ready" ELSE "error"]
          /\ value' = [value EXCEPT ![p] = IF item.e = "none" THEN item.d ELSE @]
  /\ UNCHANGED <<active, called, up>>

(* An update the response does not call pending leaves; the response to a  *)
(* call that was rejected is not looked at.                                *)
HandleResponse(p, item) ==
  LET c == item.i IN
  /\ item.t = "response"
  /\ IF called[c] = "waiting"
     THEN /\ called' = [called EXCEPT ![c] = "answered"]
          /\ updates' = [updates EXCEPT ![p] = IF item.p THEN @ ELSE @ \ {c}]
     ELSE UNCHANGED <<called, updates>>
  /\ UNCHANGED <<active, status, value, floor, up>>

Handle(p, item) == HandleState(p, item) \/ HandleResponse(p, item)

-----------------------------------------------------------------------------
ClientTypeOK ==
  /\ active \in [Players -> BOOLEAN]
  /\ status \in [Players -> {"loading", "ready", "error"}]
  /\ value \in [Players -> Values \cup {NoValue}]
  /\ floor \in [Players -> Nat]
  /\ updates \in [Players -> SUBSET Calls]
  /\ called \in [Calls -> {"new", "waiting", "answered", "rejected", "expired"}]
  /\ up \in [Players -> Seq(Requests)]
=============================================================================
