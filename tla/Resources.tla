----------------------------- MODULE Resources -----------------------------
(***************************************************************************)
(* A resource host and the clients of its players, over channels that keep *)
(* order: requests one way, state items and responses the other, flushed   *)
(* from the host's outbox once a frame.                                    *)
(***************************************************************************)
EXTENDS ResourceHost, ResourceClient

VARIABLE down  \* down[p]: items on their way to p

vars == <<hostVars, clientVars, down>>

Init == HostInit /\ ClientInit /\ down = [p \in Players |-> << >>]

-----------------------------------------------------------------------------
(* What clients do.                                                        *)
ClientStep(p) ==
  /\ \/ ClientSubscribe(p) \/ Refresh(p) \/ Disconnect(p)
     \/ \E c \in Calls : Caller[c] = p /\ BeginCall(c)
  /\ p \in here
  /\ UNCHANGED <<hostVars, down>>

(* What goes wrong with a call, or takes too long.                         *)
CallStep(c) == (RejectCall(c) \/ SettleTimeout(c)) /\ UNCHANGED <<hostVars, down>>

(* The server handles p's next request.  A call is dispatched, and runs    *)
(* when its checks are done.                                               *)
Receive(p) ==
  /\ up[p] # << >>
  /\ LET item == Head(up[p]) IN
     \/ item.o = "subscribe" /\ Subscribe(p)
     \/ item.o = "unsubscribe" /\ Unsubscribe(p)
     \/ /\ item.o = "call"
        /\ ran' = [ran EXCEPT ![item.i] = "received"]
        /\ UNCHANGED <<worldVars, keyVars, wireVars, source, untagged, cutOff>>
  /\ up' = [up EXCEPT ![p] = Tail(@)]
  /\ UNCHANGED <<active, status, value, floor, updates, called, down>>

CallRuns(c) ==
  (RunCall(c) \/ FailCall(c) \/ Respond(c)) /\ UNCHANGED <<clientVars, down>>

HostStep ==
  /\ \/ \E k \in Keys, w \in Pushes : Push(k, w)
     \/ \E k \in Keys : LateRead(k)
     \/ \E p \in Players : Authorize(p)
  /\ UNCHANGED <<clientVars, down>>

LoadEnds(k, ok) ==
  /\ Urgent => load[k].sync
  /\ FinishLoad(k, ok)
  /\ UNCHANGED <<clientVars, down>>

(* A frame: every outbox is sent.                                          *)
Flush ==
  /\ \E p \in Players : outbox[p] # << >>
  /\ outbox' = [p \in Players |-> << >>]
  /\ down' = [p \in Players |-> down[p] \o outbox[p]]
  /\ UNCHANGED <<worldVars, callVars, keyVars, refusedAt, clientVars>>

Deliver(p) ==
  /\ down[p] # << >>
  /\ Handle(p, Head(down[p]))
  /\ down' = [down EXCEPT ![p] = Tail(@)]
  /\ UNCHANGED hostVars

Leave(p) ==
  /\ ForgetPlayer(p)
  /\ ClientGone(p)
  /\ down' = [down EXCEPT ![p] = << >>]

(* What follows from what was decided.                                     *)
Step ==
  \/ \E k \in Keys : LoadEnds(k, TRUE)
  \/ ~Urgent /\ Flush
  \/ ~Urgent /\ \E c \in Calls : CallRuns(c)
  \/ ~Urgent /\ \E p \in Players : Receive(p) \/ Deliver(p)

Next ==
  \/ Step
  \/ \E k \in Keys : LoadEnds(k, FALSE)
  \/ ~Urgent /\ HostStep
  \/ ~Urgent /\ \E p \in Players : ClientStep(p) \/ Leave(p)
  \/ ~Urgent /\ \E c \in Calls : CallStep(c)

Spec == Init /\ [][Next]_vars

(* Requests arrive, frames are sent and delivered, calls run and are       *)
(* answered, loads end (they time out).  Not that a settle timeout runs    *)
(* out.                                                                    *)
Fairness == WF_vars(Step)
FairSpec == Spec /\ Fairness

-----------------------------------------------------------------------------
(* Properties.                                                             *)

(* Types, and that no client has seen a revision its host has not given.   *)
TypeOK ==
  /\ HostTypeOK
  /\ ClientTypeOK
  /\ down \in [Players -> Seq(Items)]
  /\ \A p \in Players : floor[p] <= revision

(* Nothing runs and nothing is on its way.                                 *)
Quiet ==
  /\ \A k \in Keys : ~Running(k)
  /\ \A p \in Players : up[p] = << >> /\ outbox[p] = << >> /\ down[p] = << >>

Current(p) == status[p] = "ready" /\ value[p] = source[KeyOf(p)]

(* resource.ts:660-687: a tag waits for a load that will deliver it: the   *)
(* one running took it, or another follows.                                *)
TagsAreDue ==
  \A k \in Keys : tags[k] # {} =>
    Running(k) /\ (dirty[k] \/ tags[k] \subseteq load[k].covering)

(* A load that nothing follows answers with what there is now, and so does *)
(* the cached value, unless the last result was dropped.                   *)
AnswersAreCurrent ==
  \A k \in LiveKeys :
    /\ Running(k) /\ ~dirty[k] => load[k].read = source[k]
    /\ ~Running(k) /\ last[k] = "ok" /\ cached[k] # NoValue => cached[k] = source[k]

(* docs/resources.md, "No missed change": once nothing is on its way, a    *)
(* subscriber shows what there is, or why not.  Left out are a value the   *)
(* host dropped and a player refused during the load that answers them.    *)
CurrentWhenQuiet ==
  Quiet => \A p \in Players : active[p] =>
    LET k == KeyOf(p) IN
    \/ Subscribed(p) /\ Current(p)
    \/ status[p] = "error" /\ (~Subscribed(p) \/ last[k] = "failed")
    \/ Subscribed(p) /\ (last[k] = "dropped" \/ refusedAt[p] > sent[k])

(* The same without the first of these: a subscriber told of no error      *)
(* shows what there is.                                                    *)
NoMissedChange ==
  Quiet => \A p \in Players : active[p] /\ Subscribed(p) /\ status[p] = "ready" => Current(p)

(* And without the second: a subscriber of a key whose last load succeeded *)
(* is answered by it.                                                      *)
SubscribersAreAnswered ==
  Quiet => \A p \in Players :
    active[p] /\ Subscribed(p) /\ last[KeyOf(p)] = "ok" => status[p] = "ready"

Shown(c) == LET p == Caller[c] IN c \in updates[p] /\ value[p] # NoValue /\ c \in value[p]

(* docs/rfcs/ui-bindings.md, "No double application": a call is never part *)
(* of a value while its update is applied over it, as long as the host     *)
(* could tag it, no refusal dropped the tag (resource.ts:583-591) and loads*)
(* read what was there when they started.                                  *)
NoDoubleApplication ==
  ~late => \A c \in Calls : Shown(c) => c \in untagged \cup cutOff

(* The same without the refusal.                                           *)
NeverShownTwice ==
  ~late => \A c \in Calls : Shown(c) => c \in untagged

(* "No flash back": an update that an item or a response removes leaves    *)
(* behind a value that contains its call, or an error.                     *)
NoFlashBack ==
  [][\A c \in Calls : LET p == Caller[c] IN
       /\ c \in updates[p] \ updates'[p] /\ active'[p]
       /\ called'[c] \notin {"rejected", "expired"}
       /\ c \in source[KeyOf(p)] \ untagged
       => \/ status'[p] = "error"
          \/ value'[p] # NoValue /\ c \in value'[p]]_vars

(* "Convergence": an update leaves without its timeout, or its client is   *)
(* no subscriber any more.                                                 *)
UpdatesLeave ==
  \A c \in Calls :
    <>[](c \in updates[Caller[c]]) => <>[](~Subscribed(Caller[c]))
=============================================================================
