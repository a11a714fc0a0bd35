---------------------------- MODULE ResourceHost ----------------------------
(***************************************************************************)
(* The server side of a resource: `createResourceHost` of resource.ts, with*)
(* the outbox under it and, as far as resources are concerned, the actions *)
(* that invalidate (server-runtime.ts, roblox.ts).                         *)
(*                                                                         *)
(* A key is what one load answers: each player's own value, or Everyone's  *)
(* of a global resource.  A load reads when it starts and answers later; a *)
(* synchronous one answers before anything else happens (Urgent).          *)
(***************************************************************************)
EXTENDS ResourceItems

CONSTANTS
  Everyone,   \* the key of a global resource
  MaxTags     \* MAX_OPTIMISTIC_TAGS_PER_CALLER

ASSUME HostAssumption ==
  /\ Everyone \notin Players
  /\ MaxTags \in Nat

VARIABLES
  scope,        \* the resource's scope, "player" or "global"
  late,         \* whether the game's loads may read after they have yielded
  here,         \* players who have not left
  allowed,      \* players `authorize` lets subscribe
  source,       \* source[k]: what a load of k reads
  revision,     \* the host's counter
  subscribers,  \* KeyState.subscribers
  load,         \* the load running for k, or NoLoad
  dirty,        \* KeyState.dirty
  sent,         \* KeyState.sent
  cached,       \* KeyState.cached, its value
  tags,         \* KeyState.tags
  ran,          \* ran[c]: how far the server is with call c
  outbox,       \* outbox[p]: items queued for p this frame
  last,         \* history: how the last load of k ended
  refusedAt,    \* history: the revision of p's last refusal, until p is served
  untagged,     \* history: calls that wrote and left no tag
  cutOff        \* history: calls whose tag a refusal dropped

worldVars == <<scope, late, here, allowed>>
callVars == <<source, ran, untagged, cutOff>>
keyVars == <<revision, subscribers, load, dirty, sent, cached, tags, last>>
wireVars == <<outbox, refusedAt>>
hostVars == <<worldVars, callVars, keyVars, wireVars>>

Keys == Players \cup {Everyone}
KeyOf(p) == IF scope = "global" THEN Everyone ELSE p
LiveKeys == IF scope = "global" THEN {Everyone} ELSE Players

NoLoad == [at |-> 0, covering |-> {}, read |-> {}, sync |-> FALSE]
Running(k) == load[k].at # 0
Urgent == \E k \in Keys : load[k].sync

TagsOf(k, p) == {c \in tags[k] : Caller[c] = p}

HostInit ==
  /\ scope \in {"player", "global"}
  /\ late \in BOOLEAN
  /\ here = Players
  /\ allowed = Players
  /\ source = [k \in Keys |-> {}]
  /\ revision = 0
  /\ subscribers = [k \in Keys |-> {}]
  /\ load = [k \in Keys |-> NoLoad]
  /\ dirty = [k \in Keys |-> FALSE]
  /\ sent = [k \in Keys |-> 0]
  /\ cached = [k \in Keys |-> NoValue]
  /\ tags = [k \in Keys |-> {}]
  /\ ran = [c \in Calls |-> "no"]
  /\ outbox = [p \in Players |-> << >>]
  /\ last = [k \in Keys |-> "none"]
  /\ refusedAt = [p \in Players |-> 0]
  /\ untagged = {} /\ cutOff = {}

-----------------------------------------------------------------------------
(* Loads.                                                                  *)

StartLoadUntagged(k, covering, data) ==  \* mutant: the load takes no tags
  /\ revision' = revision + 1
  /\ \E sync \in BOOLEAN :
       load' = [load EXCEPT ![k] =
         [at |-> revision + 1, covering |-> {}, read |-> data, sync |-> sync]]
  /\ dirty' = [dirty EXCEPT ![k] = FALSE]
(* A load takes the tags recorded before it starts.                        *)
StartLoad(k, covering, data) ==
  /\ revision' = revision + 1
  /\ \E sync \in BOOLEAN :
       load' = [load EXCEPT ![k] =
         [at |-> revision + 1, covering |-> covering, read |-> data, sync |-> sync]]
  /\ dirty' = [dirty EXCEPT ![k] = FALSE]

(* One load of a key runs at a time; another asked for meanwhile follows.  *)
Load(k, covering, data) ==
  \/ Running(k) /\ dirty' = [dirty EXCEPT ![k] = TRUE] /\ UNCHANGED <<revision, load>>
  \/ ~Running(k) /\ StartLoad(k, covering, data)

(* The item of a finished load: its value, or a load error.                *)
Finished(k, ok) ==
  StateItem(load[k].at, IF ok THEN load[k].read ELSE NoValue, IF ok THEN "none" ELSE "load")
Outcome(ok) == IF ok THEN "ok" ELSE "failed"

(* The item as p gets it: with the keys of p's own calls.                  *)
Tagged(item, covering, p) == [item EXCEPT !.k = {c \in covering : Caller[c] = p}]

(* A failure drops the cached value; a global success replaces it.         *)
CachedAfter(k, ok) ==
  IF ~ok THEN NoValue ELSE IF scope = "global" THEN load[k].read ELSE cached[k]

(* Nobody left to tell: the result is dropped, and a player's key with it. *)
DropResult(k, ok) ==
  /\ Running(k)
  /\ subscribers[k] = {}
  /\ load' = [load EXCEPT ![k] = NoLoad]
  /\ cached' = [cached EXCEPT ![k] = IF ok THEN @ ELSE NoValue]
  /\ \/ scope = "player" /\ dirty' = [dirty EXCEPT ![k] = FALSE] /\ sent' = [sent EXCEPT ![k] = 0]
     \/ scope = "global" /\ UNCHANGED <<dirty, sent>>
  /\ last' = [last EXCEPT ![k] = IF ok THEN "dropped" ELSE "failed"]
  /\ UNCHANGED <<worldVars, callVars, wireVars, revision, subscribers, tags>>

(* The item goes to every subscriber, its tags with it, and a load that was*)
(* asked for meanwhile starts.  Loads of a key do not overlap, so none that*)
(* started later has gone out before (`at > state.sent`).                  *)
SendResult(k, ok) ==
  LET item == Finished(k, ok)
      left == tags[k] \ load[k].covering
  IN
  /\ Running(k)
  /\ subscribers[k] # {}
  /\ sent' = [sent EXCEPT ![k] = load[k].at]
  /\ cached' = [cached EXCEPT ![k] = CachedAfter(k, ok)]
  /\ outbox' = [p \in Players |->
       IF p \in subscribers[k] THEN Replace(outbox[p], Tagged(item, load[k].covering, p))
       ELSE outbox[p]]
  /\ tags' = [tags EXCEPT ![k] = left]
  /\ last' = [last EXCEPT ![k] = Outcome(ok)]
  /\ \/ dirty[k] /\ StartLoad(k, left, source[k])
     \/ ~dirty[k] /\ load' = [load EXCEPT ![k] = NoLoad] /\ UNCHANGED <<revision, dirty>>
  /\ UNCHANGED <<worldVars, callVars, subscribers, refusedAt>>

(* The load's promise settles, its value fails the schema, or it times out.*)
FinishLoad(k, ok) == DropResult(k, ok) \/ SendResult(k, ok)

(* A load that awaits something before it reads.                           *)
LateRead(k) ==
  /\ late /\ Running(k) /\ ~load[k].sync
  /\ load[k].read # source[k]
  /\ load' = [load EXCEPT ![k].read = source[k]]
  /\ UNCHANGED <<worldVars, callVars, wireVars, revision, subscribers, dirty, sent,
                 cached, tags, last>>

-----------------------------------------------------------------------------
(* Subscriptions.                                                          *)

(* p is no subscriber any more: p's tags go, and a player's key with them  *)
(* unless a load still runs for it.                                        *)
Unlink(p) ==
  LET k == KeyOf(p)
      emptied == scope = "player" /\ ~Running(k)
  IN
  /\ subscribers' = [subscribers EXCEPT ![k] = @ \ {p}]
  /\ tags' = [tags EXCEPT ![k] = @ \ TagsOf(k, p)]
  /\ sent' = [sent EXCEPT ![k] = IF emptied THEN 0 ELSE @]
  /\ last' = [last EXCEPT ![k] = IF emptied THEN "none" ELSE @]

Subscribed(p) == p \in subscribers[KeyOf(p)]

Unsubscribe(p) ==
  /\ \/ Subscribed(p) /\ Unlink(p)
     \/ ~Subscribed(p) /\ UNCHANGED <<subscribers, tags, sent, last>>
  /\ UNCHANGED <<worldVars, callVars, wireVars, revision, load, dirty, cached>>

(* authorize says no: a subscription being refreshed ends.                 *)
Refuse(p) ==
  /\ p \notin allowed
  /\ \/ Subscribed(p) /\ Unlink(p)
     \/ ~Subscribed(p) /\ UNCHANGED <<subscribers, tags, sent, last>>
  /\ revision' = revision + 1
  /\ outbox' = [outbox EXCEPT ![p] = Replace(@, StateItem(revision + 1, NoValue, "forbidden"))]
  /\ refusedAt' = [refusedAt EXCEPT ![p] = revision + 1]
  /\ cutOff' = cutOff \cup TagsOf(KeyOf(p), p)
  /\ UNCHANGED <<worldVars, source, ran, untagged, load, dirty, cached>>

Admitted(p) ==
  /\ p \in allowed
  /\ subscribers' = [subscribers EXCEPT ![KeyOf(p)] = @ \cup {p}]

(* A new subscriber is answered by the load already running,               *)
Join(p) ==
  /\ Admitted(p)
  /\ ~Subscribed(p) /\ Running(KeyOf(p))
  /\ UNCHANGED <<worldVars, callVars, wireVars, revision, load, dirty, sent, cached, tags, last>>

OldRevision == revision  \* mutant: the cached value goes out under a revision already used
(* by the value already out, under a new revision: the client may have     *)
(* seen the last one before, or a later refusal,                           *)
FreshRevision == revision + 1
AnswerCached(p) ==
  LET k == KeyOf(p) IN
  /\ Admitted(p)
  /\ ~Subscribed(p) /\ ~Running(k) /\ cached[k] # NoValue
  /\ revision' = FreshRevision
  /\ outbox' = [outbox EXCEPT ![p] = Replace(@, StateItem(FreshRevision, cached[k], "none"))]
  /\ refusedAt' = [refusedAt EXCEPT ![p] = 0]
  /\ UNCHANGED <<worldVars, callVars, load, dirty, sent, cached, tags, last>>

(* or by a load of its own.  A resync always asks for one.                 *)
LoadFor(p) ==
  LET k == KeyOf(p) IN
  /\ Admitted(p)
  /\ \/ Subscribed(p)
     \/ ~Running(k) /\ cached[k] = NoValue
  /\ Load(k, tags[k], source[k])
  /\ UNCHANGED <<worldVars, callVars, wireVars, sent, cached, tags, last>>

Subscribe(p) == Refuse(p) \/ Join(p) \/ AnswerCached(p) \/ LoadFor(p)

(* The player leaves, and everything held for them goes.                   *)
ForgetPlayer(p) ==
  /\ p \in here
  /\ here' = here \ {p}
  /\ subscribers' = [k \in Keys |-> subscribers[k] \ {p}]
  /\ tags' = [k \in Keys |-> tags[k] \ TagsOf(k, p)]
  /\ load' = [load EXCEPT ![p] = NoLoad]
  /\ dirty' = [dirty EXCEPT ![p] = FALSE]
  /\ sent' = [sent EXCEPT ![p] = 0]
  /\ last' = [last EXCEPT ![p] = "none"]
  /\ outbox' = [outbox EXCEPT ![p] = << >>]
  /\ UNCHANGED <<scope, late, allowed, callVars, revision, cached, refusedAt>>

-----------------------------------------------------------------------------
(* Invalidations.                                                          *)

KeepsCached(k, covering, data) ==  \* mutant: nobody to tell, and the value out is kept
  \/ /\ subscribers[k] = {}
     /\ dirty' = [dirty EXCEPT ![k] = @ \/ Running(k)]
     /\ UNCHANGED <<revision, load, cached>>
  \/ subscribers[k] # {} /\ Load(k, covering, data) /\ UNCHANGED cached
(* With nobody to tell, the next subscriber loads; a load already running  *)
(* has read what was there before, so another must follow it.              *)
Invalidate(k, covering, data) ==
  \/ /\ subscribers[k] = {}
     /\ dirty' = [dirty EXCEPT ![k] = @ \/ Running(k)]
     /\ cached' = [cached EXCEPT ![k] = NoValue]
     /\ UNCHANGED <<revision, load>>
  \/ subscribers[k] # {} /\ Load(k, covering, data) /\ UNCHANGED cached

Write(k, w) == source' = [source EXCEPT ![k] = @ \cup {w}]

(* The server changes what k reads, and invalidates.                       *)
Push(k, w) ==
  /\ k \in LiveKeys
  /\ \A j \in Keys : w \notin source[j]
  /\ Write(k, w)
  /\ Invalidate(k, tags[k], source[k] \cup {w})
  /\ UNCHANGED <<worldVars, wireVars, ran, untagged, cutOff, subscribers, sent, tags, last>>

(* invalidateForCall tags the caller's key before it invalidates.          *)
TagsWith(c) ==
  LET k == KeyOf(Caller[c]) IN
  IF Subscribed(Caller[c]) /\ Cardinality(TagsOf(k, Caller[c])) < MaxTags
  THEN tags[k] \cup {c} ELSE tags[k]

Covered(c) == TagsWith(c)

(* The handler of call c writes, and invalidates in the same step.         *)
RunCall(c) ==
  LET k == KeyOf(Caller[c]) IN
  /\ ran[c] = "received"
  /\ Write(k, c)
  /\ tags' = [tags EXCEPT ![k] = TagsWith(c)]
  /\ Invalidate(k, Covered(c), source[k] \cup {c})
  /\ ran' = [ran EXCEPT ![c] = "ran"]
  /\ untagged' = IF c \in TagsWith(c) THEN untagged ELSE untagged \cup {c}
  /\ UNCHANGED <<worldVars, wireVars, cutOff, subscribers, sent, last>>

(* The handler fails and has changed nothing.                              *)
FailCall(c) ==
  /\ ran[c] = "received"
  /\ ran' = [ran EXCEPT ![c] = "failed"]
  /\ UNCHANGED <<worldVars, keyVars, wireVars, source, untagged, cutOff>>

NeverPending(c) == FALSE  \* mutant: the response does not say what is on its way
PendingTag(c) == \E k \in Keys : c \in tags[k]

(* The dispatch settles, and the response joins the outbox.                *)
Respond(c) ==
  LET p == Caller[c] IN
  /\ ran[c] \in {"ran", "failed"}
  /\ ran' = [ran EXCEPT ![c] = "answered"]
  /\ outbox' = IF p \in here
               THEN [outbox EXCEPT ![p] = Append(@, Response(c, PendingTag(c)))] ELSE outbox
  /\ UNCHANGED <<worldVars, keyVars, source, untagged, cutOff, refusedAt>>

-----------------------------------------------------------------------------
(* The game changes its mind about p.                                      *)
Authorize(p) ==
  /\ allowed' = IF p \in allowed THEN allowed \ {p} ELSE allowed \cup {p}
  /\ UNCHANGED <<scope, late, here, callVars, keyVars, wireVars>>

-----------------------------------------------------------------------------
(* Invariants.                                                             *)

Loads == [at: Nat, covering: SUBSET Calls, read: Values, sync: BOOLEAN]

HostTypeOK ==
  /\ scope \in {"player", "global"}
  /\ late \in BOOLEAN
  /\ here \subseteq Players
  /\ allowed \subseteq Players
  /\ source \in [Keys -> Values]
  /\ revision \in Nat
  /\ subscribers \in [Keys -> SUBSET Players]
  /\ load \in [Keys -> Loads]
  /\ dirty \in [Keys -> BOOLEAN]
  /\ sent \in [Keys -> 0 .. revision]
  /\ cached \in [Keys -> Values \cup {NoValue}]
  /\ tags \in [Keys -> SUBSET Calls]
  /\ ran \in [Calls -> {"no", "received", "ran", "failed", "answered"}]
  /\ outbox \in [Players -> Seq(Items)]
  /\ last \in [Keys -> {"none", "ok", "failed", "dropped"}]
  /\ refusedAt \in [Players -> 0 .. revision]
  /\ untagged \subseteq Calls /\ cutOff \subseteq Calls
=============================================================================
