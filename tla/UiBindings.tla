----------------------------- MODULE UiBindings -----------------------------
(***************************************************************************)
(* Screens that read a resource and make calls: ui-core.ts over the client *)
(* of resource.ts, through the React and Vide adapters (ui-react.ts,       *)
(* ui-vide.ts).                                                            *)
(*                                                                         *)
(* `Players' stands for the client apps one process installs one after the *)
(* other.  All readers share the holder of the installed client; the       *)
(* subscription it holds outlives its last reader until the resumption     *)
(* cycle ends, or for that reader's keep-alive.  The server is left open:  *)
(* any item may arrive.                                                    *)
(***************************************************************************)
EXTENDS ResourceClient, ActionState

CONSTANTS
  Readers,
  Rendering,      \* the React components, which render before their effects
  KeepAlive,      \* KeepAlive[r]: keepAliveMs of r's bindings, 0 without
  First,          \* the client app installed first
  None,
  MaxGeneration,  \* bound: how often holds begin and end
  MaxRevision,    \* bound: the revisions the server gives
  MaxEvents       \* bound: what the client, the component and the game do

(* What a screen is shown of a resource: ResourceView.                     *)
Views ==
  [value : Values \cup {NoValue}, serverValue : Values \cup {NoValue},
   status : {"loading", "ready", "error"}, pending : BOOLEAN, revision : Nat]
Holders == [client : Players, view : Views]

ASSUME UiAssumption ==
  /\ Calls \subseteq Started /\ Rendering \subseteq Readers
  /\ KeepAlive \in [Readers -> Nat] /\ First \in Players /\ None \notin Holders

VARIABLES
  installed,   \* activeResourceClient
  retired,     \* the client apps that were replaced
  also,        \* a subscription of the game's own, besides the holder's
  holder,      \* the resource's holder: its client and its view, or None
  generation,  \* bumped by every hold and release, and when a holder goes
  drops,       \* scheduled drops: the generation they saw, the time left
  at,          \* at[r]: where reader r is in its life
  shown,       \* shown[r]: the view r has last rendered
  idle,        \* time since the last reader left, up to a bound
  asked,       \* the keep-alive that reader asked for
  events       \* how much of MaxEvents was used

holdVars == <<holder, generation, drops, at, shown, idle, asked>>
vars == <<clientVars, installed, retired, also, holdVars, stateVars, events>>

Mounted == {r \in Readers : at[r] = "mounted"}
Held(p) == holder # None /\ holder.client = p

LOADING ==
  [value |-> NoValue, serverValue |-> NoValue, status |-> "loading",
   pending |-> FALSE, revision |-> 0]

(* viewOf: an optimistic subscription shows the snapshot with the pending  *)
(* updates over it, once there is one.                                     *)
ViewOf(p) ==
  [value |-> IF value[p] = NoValue THEN NoValue ELSE value[p] \cup updates[p],
   serverValue |-> value[p],
   status |-> status[p],
   pending |-> updates[p] # {},
   revision |-> floor[p]]

Init ==
  /\ ClientInit
  /\ StateInit
  /\ installed = First /\ retired = {} /\ also = FALSE
  /\ holder = None /\ generation = 0 /\ drops = {}
  /\ at = [r \in Readers |-> "away"]
  /\ shown = [r \in Readers |-> LOADING]
  /\ idle = 0 /\ asked = 0 /\ events = 0

-----------------------------------------------------------------------------
(* Readers.                                                                *)

(* peekResource: what a reader starts from while it holds nothing.         *)
Peek ==
  IF Held(installed) THEN holder.view
  ELSE IF value[installed] = NoValue THEN LOADING
  ELSE [LOADING EXCEPT !.value = value[installed],
          !.serverValue = value[installed], !.status = "ready"]

(* React renders before its effects run.                                   *)
Render(r) ==
  /\ r \in Rendering /\ at[r] = "away"
  /\ at' = [at EXCEPT ![r] = "rendered"]
  /\ shown' = [shown EXCEPT ![r] = Peek]
  /\ UNCHANGED <<clientVars, holder, generation, drops, idle, asked>>

(* holderFor: the holder of a replaced client goes, its readers hear       *)
(* nothing more, and the first hold on a client subscribes.                *)
HolderFor(p) ==
  IF Held(p) THEN holder' = holder /\ UNCHANGED clientVars
  ELSE /\ IF active[p] THEN UNCHANGED clientVars ELSE ClientSubscribe(p)
       /\ holder' = [client |-> p, view |-> ViewOf(p)']

(* Of these no more is followed.                                           *)
Stranded(q) == at[q] = "mounted" /\ ~Held(installed)

(* observeResource, in React's effect or as a Vide component is made, and  *)
(* the look at the view that follows it.                                   *)
Mount(r) ==
  /\ at[r] = (IF r \in Rendering THEN "rendered" ELSE "away")
  /\ generation < MaxGeneration
  /\ HolderFor(installed)
  /\ generation' = generation + 1
  /\ at' = [q \in Readers |->
              IF q = r THEN "mounted" ELSE IF Stranded(q) THEN "stranded" ELSE at[q]]
  /\ shown' = [q \in Readers |->
                 IF q = r THEN holder'.view ELSE IF Stranded(q) THEN LOADING ELSE shown[q]]
  /\ idle' = 0 /\ asked' = 0
  /\ UNCHANGED drops

ScheduledEarly(r) == [seen |-> generation, left |-> KeepAlive[r]]  \* mutant: captured before the bump
Scheduled(r) == [seen |-> generation + 1, left |-> KeepAlive[r]]

(* release: the last reader to go schedules the drop.                      *)
Unmount(r) ==
  /\ at[r] # "away"
  /\ at' = [at EXCEPT ![r] = "away"]
  /\ IF Mounted = {r}
     THEN /\ generation' = generation + 1
          /\ drops' = drops \cup {Scheduled(r)}
          /\ idle' = 0 /\ asked' = KeepAlive[r]
     ELSE UNCHANGED <<generation, drops, idle, asked>>
  /\ shown' = [shown EXCEPT ![r] = LOADING]
  /\ UNCHANGED <<clientVars, holder>>

(* dropHolder: the subscription goes, unless the client lost it before or  *)
(* has another.                                                            *)
DropHolder ==
  /\ holder' = None
  /\ generation' = generation + 1
  /\ IF active[holder.client] /\ ~(also /\ holder.client = installed)
     THEN Disconnect(holder.client)
     ELSE UNCHANGED clientVars
  /\ idle' = 0 /\ asked' = 0

Due == {d \in drops : d.left = 0}

OvertakenAny(d) == Mounted # {}  \* mutant: only the readers are looked at
Overtaken(d) == d.seen # generation \/ Mounted # {}

(* The scheduled drops run: at the end of the cycle that deferred them, or *)
(* when their delay is over.                                               *)
RunDrops ==
  /\ Due # {}
  /\ drops' = drops \ Due
  /\ IF holder # None /\ \E d \in Due : ~Overtaken(d)
     THEN DropHolder
     ELSE UNCHANGED <<clientVars, holder, generation, idle, asked>>
  /\ UNCHANGED <<at, shown>>

ScreenStep ==
  /\ UNCHANGED <<installed, retired, also, stateVars>>
  /\ \E r \in Readers : Render(r) \/ Mount(r) \/ Unmount(r)

CycleEnds == RunDrops /\ UNCHANGED <<installed, retired, also, stateVars>>

(* A frame later.                                                          *)
Tick ==
  /\ Due = {} /\ drops # {}
  /\ drops' = {[d EXCEPT !.left = @ - 1] : d \in drops}
  /\ idle' = IF Mounted = {} /\ idle < asked THEN idle + 1 ELSE idle
  /\ UNCHANGED <<clientVars, holder, generation, at, shown, asked>>
  /\ UNCHANGED <<installed, retired, also, stateVars>>

-----------------------------------------------------------------------------
(* The client.                                                             *)

HeardApplied(p) == active[p] /\ floor'[p] # floor[p]  \* mutant: a stale item that settles calls goes unheard
(* Whether a step of p's client runs its optimistic listeners: an applied  *)
(* item does, and a change of the updates once there is a value.           *)
Heard(p) ==
  /\ active[p]
  /\ floor'[p] # floor[p] \/ (updates'[p] # updates[p] /\ value'[p] # NoValue)

(* What its readers do with a new view: React replaces the state, Vide     *)
(* writes what changed to its sources.                                     *)
Rerendered(view) == [r \in Readers |-> IF at[r] = "mounted" THEN view ELSE shown[r]]

(* refresh: the holder's view is replaced, and its listeners run.          *)
Refreshed(p) ==
  /\ IF Held(p) /\ Heard(p)
     THEN /\ holder' = [holder EXCEPT !.view = ViewOf(p)']
          /\ shown' = Rerendered(ViewOf(p)')
     ELSE UNCHANGED <<holder, shown>>
  /\ UNCHANGED <<generation, drops, at, idle, asked>>

(* A state item, of a load that succeeded or failed; it names calls that   *)
(* it is the first to contain.                                             *)
Arrives(p) ==
  /\ \E v \in 1 .. MaxRevision, k \in SUBSET {c \in Calls : called[c] # "new"} :
       \/ \E d \in SUBSET Calls : k \subseteq d /\ HandleState(p, [StateItem(v, d, "none") EXCEPT !.k = k])
       \/ HandleState(p, [StateItem(v, NoValue, "load") EXCEPT !.k = k])
  /\ UNCHANGED stateVars

(* The component calls, optimistically or not.                             *)
Invoke(c) == called[c] = "new" /\ BeginCall(c) /\ Start(c)
InvokePlain(c) == promised[c] = "none" /\ Start(c)

(* Its promise resolves or rejects with the response, or rejects without.  *)
Answered(c) ==
  \/ \E still \in BOOLEAN, outcome \in Outcomes :
       /\ HandleResponse(Caller[c], Response(c, still))
       /\ Settle(c, outcome)
  \/ RejectCall(c) /\ Settle(c, "error")
  \/ SettleTimeout(c) /\ UNCHANGED stateVars

ClientStep(p) ==
  /\ \/ Arrives(p)
     \/ \E c \in Calls : Caller[c] = p /\ (Invoke(c) \/ Answered(c))
  /\ p = installed
  /\ Refreshed(p)
  /\ UNCHANGED <<installed, retired, also>>

(* The game's own subscription, and the requests the server reads.         *)
Subscribes(p) ==
  /\ p = installed /\ ~also
  /\ also' = TRUE
  /\ IF active[p] THEN UNCHANGED clientVars ELSE ClientSubscribe(p)
  /\ UNCHANGED <<installed, retired, holdVars, stateVars>>
Unsubscribes(p) ==
  /\ p = installed /\ also
  /\ also' = FALSE
  /\ IF Held(p) THEN UNCHANGED clientVars ELSE Disconnect(p)
  /\ UNCHANGED <<installed, retired, holdVars, stateVars>>
Served(p) ==
  /\ up[p] # << >>
  /\ up' = [up EXCEPT ![p] = << >>]
  /\ UNCHANGED <<active, status, value, floor, updates, called>>
  /\ UNCHANGED <<installed, retired, also, holdVars, stateVars>>

(* The client app is disposed and another one installed; what is on the    *)
(* screen stays, and reads the new client when it mounts again.            *)
ReplaceApp ==
  /\ installed' \in Players \ (retired \cup {installed})
  /\ retired' = retired \cup {installed}
  /\ also' = FALSE
  /\ Shed(installed)
  /\ up' = [up EXCEPT ![installed] = IF active[installed] THEN Append(@, Unsubscribing) ELSE @]
  /\ floor' = [floor EXCEPT ![installed] = 0]
  /\ UNCHANGED <<called, holdVars, stateVars>>

ActionStep ==
  /\ \/ Reset \/ Dispose
     \/ \E c \in Started \ Calls : InvokePlain(c) \/ \E outcome \in Outcomes : Settle(c, outcome)
  /\ UNCHANGED <<clientVars, installed, retired, also, holdVars>>

(* While a cycle lasts only the screen moves.  Nothing here waits for a    *)
(* request to be read, so one is read before anything else happens.        *)
AllRead == \A p \in Players : up[p] = << >>
Onward ==
  /\ (\E p \in Players : Served(p)) \/ (AllRead /\ (CycleEnds \/ Tick))
  /\ UNCHANGED events
Happens ==
  /\ AllRead /\ Due = {}
  /\ events < MaxEvents /\ events' = events + 1
  /\ \/ ActionStep \/ ReplaceApp
     \/ \E p \in Players : ClientStep(p) \/ Subscribes(p) \/ Unsubscribes(p)

Next == Onward \/ Happens \/ (AllRead /\ ScreenStep /\ UNCHANGED events)

Spec == Init /\ [][Next]_vars

(* Requests are read, cycles end and time passes.                          *)
Fairness == WF_vars(Onward)
FairSpec == Spec /\ Fairness

-----------------------------------------------------------------------------
(* Properties.                                                             *)

TypeOK ==
  /\ ClientTypeOK /\ StateTypeOK
  /\ installed \in Players /\ retired \subseteq Players
  /\ also \in BOOLEAN
  /\ holder \in Holders \cup {None}
  /\ generation \in Nat /\ idle \in Nat /\ asked \in Nat
  /\ drops \subseteq [seen : Nat, left : Nat]
  /\ at \in [Readers -> {"away", "rendered", "mounted", "stranded"}]
  /\ shown \in [Readers -> Views]

(* ui-core.ts:8-9: a mounted reader has rendered what its client shows     *)
(* now, whatever it rendered first and whoever else reads.  Whether updates*)
(* are pending it learns once there is a value to apply them to.           *)
ViewsAreCurrent ==
  \A r \in Mounted : Held(installed) =>
    LET now == ViewOf(installed) IN
    \/ shown[r] = now
    \/ now.value = NoValue /\ [shown[r] EXCEPT !.pending = now.pending] = now

(* ui-core.ts:9-12: the shared subscription goes only when nobody reads,   *)
(* and no sooner after the last reader than that one asked for; so a screen*)
(* that follows another in one cycle takes it over.                        *)
KeptAsAsked ==
  [][holder # None /\ holder' = None => Mounted = {} /\ idle >= asked]_vars

(* A subscription nobody reads ends.                                       *)
HoldsEnd == (holder # None /\ Mounted = {}) ~> (holder = None \/ Mounted # {})

(* A held subscription is kept as long as asked, and no longer than needed.*)
HeldAsAsked == KeptAsAsked /\ HoldsEnd
=============================================================================
