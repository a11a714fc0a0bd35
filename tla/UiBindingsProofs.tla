-------------------------- MODULE UiBindingsProofs --------------------------
(***************************************************************************)
(* What screens are shown, for any readers, keep-alives, calls and client  *)
(* apps, whatever the server sends, and for any number of events.          *)
(***************************************************************************)
EXTENDS UiBindings, SequenceTheorems, TLAPS

-----------------------------------------------------------------------------
(* The state of the component's calls.                                     *)

StateIInv == StateTypeOK /\ LatestWins

ActionMove ==
  \/ Reset \/ Dispose
  \/ \E c \in Started : Start(c) \/ \E outcome \in Outcomes : Settle(c, outcome)

LEMMA StateMoves ==
  ASSUME StateIInv, ActionMove \/ UNCHANGED stateVars
  PROVE  StateIInv'
<1> USE StateAssumption DEF StateIInv, StateTypeOK, LatestWins, Outcomes
<1>1. CASE Reset
  BY <1>1 DEF Reset
<1>2. CASE Dispose
  BY <1>2 DEF Dispose
<1>3. ASSUME NEW c \in Started, Start(c) PROVE StateIInv'
  BY <1>3 DEF Start
<1>4. ASSUME NEW c \in Started, NEW outcome \in Outcomes, Settle(c, outcome)
      PROVE  StateIInv'
  <2>1. StateTypeOK'
    BY <1>4 DEF Settle
  <2>2. CASE latest = c
    BY <1>4, <2>1, <2>2 DEF Settle
  <2>3. CASE latest # c
    BY <1>4, <2>1, <2>3 DEF Settle
  <2> QED BY <2>2, <2>3
<1>5. CASE UNCHANGED stateVars
  BY <1>5 DEF stateVars
<1> QED BY <1>1, <1>2, <1>3, <1>4, <1>5 DEF ActionMove

(* Every step of the screens is one of these, or leaves the calls alone.   *)
LEMMA StateSteps == Next => ActionMove \/ UNCHANGED stateVars
<1>1. ASSUME NEW c \in Calls, Invoke(c) \/ Answered(c) PROVE ActionMove \/ UNCHANGED stateVars
  BY <1>1, UiAssumption DEF Invoke, Answered, ActionMove, Outcomes
<1>2. ASSUME NEW p, ClientStep(p) PROVE ActionMove \/ UNCHANGED stateVars
  BY <1>1, <1>2 DEF ClientStep, Arrives
<1>3. ActionStep => ActionMove
  BY DEF ActionStep, ActionMove, InvokePlain
<1>4. Onward \/ ScreenStep => UNCHANGED stateVars
  BY DEF Onward, Served, CycleEnds, Tick, ScreenStep
<1>5. ReplaceApp => UNCHANGED stateVars
  BY DEF ReplaceApp
<1>6. \A p : Subscribes(p) \/ Unsubscribes(p) => UNCHANGED stateVars
  BY DEF Subscribes, Unsubscribes
<1> QED BY <1>2, <1>3, <1>4, <1>5, <1>6 DEF Next, Happens

LEMMA StateInv == Spec => []StateIInv
<1>1. Init => StateIInv
  BY DEF Init, StateInit, StateIInv, StateTypeOK, LatestWins, Outcomes
<1>2. StateIInv /\ [Next]_vars => StateIInv'
  BY StateMoves, StateSteps DEF vars
<1> QED BY <1>1, <1>2, PTL DEF Spec

(* ui-core.ts:12-14: whatever the overlap of a component's calls and the   *)
(* order in which they settle, it shows the state of the latest one.       *)
THEOREM LatestCallWins == Spec => []LatestWins
<1>1. StateIInv => LatestWins
  BY DEF StateIInv
<1> QED BY StateInv, <1>1, PTL

-----------------------------------------------------------------------------
(* Types.                                                                  *)

LEMMA ViewType ==
  ASSUME ClientTypeOK, NEW p \in Players
  PROVE  ViewOf(p) \in Views
<1>1. value[p] \in Values \cup {NoValue} /\ updates[p] \subseteq Calls
  BY DEF ClientTypeOK
<1>2. value[p] # NoValue => value[p] \cup updates[p] \in Values
  BY <1>1 DEF Values
<1> QED BY <1>1, <1>2 DEF ViewOf, Views, ClientTypeOK

LEMMA NextViewType ==
  ASSUME ClientTypeOK', NEW p \in Players
  PROVE  ViewOf(p)' \in Views
<1>1. value'[p] \in Values \cup {NoValue} /\ updates'[p] \subseteq Calls
  BY DEF ClientTypeOK
<1>2. value'[p] # NoValue => value'[p] \cup updates'[p] \in Values
  BY <1>1 DEF Values
<1> QED BY <1>1, <1>2 DEF ViewOf, Views, ClientTypeOK

LEMMA RequestType ==
  ASSUME ClientTypeOK, NEW p \in Players, NEW item \in Requests, Request(p, item)
  PROVE  up' \in [Players -> Seq(Requests)]
<1>1. Append(up[p], item) \in Seq(Requests)
  BY AppendProperties DEF ClientTypeOK
<1> QED BY <1>1 DEF Request, ClientTypeOK

LEMMA SubscribeType ==
  ASSUME ClientTypeOK, NEW p \in Players, ClientSubscribe(p)
  PROVE  ClientTypeOK'
<1>1. up' \in [Players -> Seq(Requests)]
  BY RequestType DEF ClientSubscribe, Requests
<1> QED BY <1>1 DEF ClientSubscribe, ClientTypeOK

LEMMA ShedType ==
  ASSUME ClientTypeOK, NEW p \in Players, Shed(p)
  PROVE  /\ active' \in [Players -> BOOLEAN]
         /\ status' \in [Players -> {"loading", "ready", "error"}]
         /\ value' \in [Players -> Values \cup {NoValue}]
         /\ updates' \in [Players -> SUBSET Calls]
BY DEF Shed, ClientTypeOK

LEMMA DisconnectType ==
  ASSUME ClientTypeOK, NEW p \in Players, Disconnect(p)
  PROVE  ClientTypeOK'
<1>1. up' \in [Players -> Seq(Requests)]
  BY RequestType DEF Disconnect, Requests
<1> QED BY <1>1, ShedType DEF Disconnect, ClientTypeOK

LEMMA StateItemType ==
  ASSUME ClientTypeOK, NEW p \in Players, NEW item, HandleState(p, item),
         item.v \in Nat, item.e = "none" => item.d \in Values
  PROVE  ClientTypeOK'
<1>1. updates' \in [Players -> SUBSET Calls]
  BY DEF HandleState, Unsettled, ClientTypeOK
<1>2. floor' \in [Players -> Nat]
  BY DEF HandleState, ClientTypeOK
<1>3. /\ status' \in [Players -> {"loading", "ready", "error"}]
      /\ value' \in [Players -> Values \cup {NoValue}]
  BY DEF HandleState, ClientTypeOK
<1> QED BY <1>1, <1>2, <1>3 DEF HandleState, ClientTypeOK

LEMMA CallType ==
  ASSUME ClientTypeOK, NEW c \in Calls, Invoke(c) \/ Answered(c)
  PROVE  ClientTypeOK'
<1>0. Caller[c] \in Players
  BY ItemsAssumption
<1>1. CASE Invoke(c)
  <2>1. up' \in [Players -> Seq(Requests)]
    BY <1>0, <1>1, RequestType DEF Invoke, BeginCall, Requests
  <2> QED BY <1>0, <1>1, <2>1 DEF Invoke, BeginCall, ClientTypeOK
<1>2. ASSUME NEW still \in BOOLEAN, HandleResponse(Caller[c], Response(c, still))
      PROVE  ClientTypeOK'
  <2>1. called' \in [Calls -> {"new", "waiting", "answered", "rejected", "expired"}]
    BY <1>0, <1>2 DEF HandleResponse, Response, ClientTypeOK
  <2>2. updates' \in [Players -> SUBSET Calls]
    BY <1>0, <1>2 DEF HandleResponse, Response, ClientTypeOK
  <2> QED BY <1>2, <2>1, <2>2 DEF HandleResponse, ClientTypeOK
<1>3. CASE RejectCall(c) \/ SettleTimeout(c)
  <2>1. called' \in [Calls -> {"new", "waiting", "answered", "rejected", "expired"}]
    BY <1>3 DEF RejectCall, SettleTimeout, ClientTypeOK
  <2>2. updates' \in [Players -> SUBSET Calls]
    <3>1. Withdraw(c)
      BY <1>3 DEF RejectCall, SettleTimeout
    <3> QED BY <3>1 DEF Withdraw, ClientTypeOK
  <2> QED BY <1>3, <2>1, <2>2 DEF RejectCall, SettleTimeout, ClientTypeOK
<1> QED BY <1>1, <1>2, <1>3 DEF Answered

LEMMA ArrivesType ==
  ASSUME ClientTypeOK, NEW p \in Players, Arrives(p)
  PROVE  ClientTypeOK'
<1>1. PICK v \in 1 .. MaxRevision, k \in SUBSET {c \in Calls : called[c] # "new"} :
        \/ \E d \in SUBSET Calls : k \subseteq d /\ HandleState(p, [StateItem(v, d, "none") EXCEPT !.k = k])
        \/ HandleState(p, [StateItem(v, NoValue, "load") EXCEPT !.k = k])
  BY DEF Arrives
<1>2. ASSUME NEW d \in SUBSET Calls, HandleState(p, [StateItem(v, d, "none") EXCEPT !.k = k])
      PROVE  ClientTypeOK'
  BY <1>2, StateItemType DEF StateItem, Values
<1>3. ASSUME HandleState(p, [StateItem(v, NoValue, "load") EXCEPT !.k = k])
      PROVE  ClientTypeOK'
  BY <1>3, StateItemType DEF StateItem
<1> QED BY <1>1, <1>2, <1>3

LEMMA ClientTypes ==
  ASSUME ClientTypeOK, installed \in Players, holder \in Holders \cup {None}, [Next]_vars
  PROVE  ClientTypeOK'
<1>1. ASSUME UNCHANGED clientVars PROVE ClientTypeOK'
  BY <1>1 DEF clientVars, ClientTypeOK
<1>2. ASSUME NEW p \in Players, Served(p) PROVE ClientTypeOK'
  <2>1. << >> \in Seq(Requests)
    OBVIOUS
  <2> QED BY <1>2, <2>1 DEF Served, ClientTypeOK
<1>3. CASE RunDrops
  BY <1>1, <1>3, DisconnectType DEF RunDrops, DropHolder, Holders
<1>4. ASSUME NEW r \in Readers, Mount(r) PROVE ClientTypeOK'
  BY <1>1, <1>4, SubscribeType DEF Mount, HolderFor
<1>5. CASE ScreenStep
  BY <1>1, <1>4, <1>5 DEF ScreenStep, Render, Unmount
<1>6. CASE ReplaceApp
  <2>1. Append(up[installed], Unsubscribing) \in Seq(Requests)
    BY AppendProperties DEF ClientTypeOK, Requests
  <2>2. up' \in [Players -> Seq(Requests)]
    BY <1>6, <2>1 DEF ReplaceApp, ClientTypeOK
  <2> QED BY <1>6, <2>2, ShedType DEF ReplaceApp, ClientTypeOK
<1>7. ASSUME NEW p \in Players, ClientStep(p) PROVE ClientTypeOK'
  BY <1>7, ArrivesType, CallType DEF ClientStep
<1>8. ASSUME NEW p \in Players, Subscribes(p) \/ Unsubscribes(p) PROVE ClientTypeOK'
  BY <1>1, <1>8, SubscribeType, DisconnectType DEF Subscribes, Unsubscribes
<1>9. CASE Onward
  BY <1>1, <1>2, <1>3, <1>9 DEF Onward, CycleEnds, Tick
<1>10. CASE Happens
  BY <1>1, <1>6, <1>7, <1>8, <1>10 DEF Happens, ActionStep
<1> QED BY <1>1, <1>5, <1>9, <1>10 DEF Next, vars

Drops == [seen : Nat, left : Nat]
Places == {"away", "rendered", "mounted", "stranded"}
HoldTypeOK ==
  /\ installed \in Players /\ retired \subseteq Players
  /\ also \in BOOLEAN
  /\ holder \in Holders \cup {None}
  /\ generation \in Nat /\ idle \in Nat /\ asked \in Nat
  /\ drops \subseteq Drops
  /\ at \in [Readers -> Places]
  /\ shown \in [Readers -> Views]

LEMMA LoadingType == LOADING \in Views
BY DEF LOADING, Views

LEMMA PeekType ==
  ASSUME ClientTypeOK, HoldTypeOK
  PROVE  Peek \in Views
<1>1. CASE Held(installed)
  BY <1>1 DEF Peek, Held, HoldTypeOK, Holders
<1>2. CASE ~Held(installed) /\ value[installed] = NoValue
  BY <1>2, LoadingType DEF Peek
<1>3. CASE ~Held(installed) /\ value[installed] # NoValue
  <2>1. value[installed] \in Values \cup {NoValue}
    BY DEF ClientTypeOK, HoldTypeOK
  <2>2. Peek = [LOADING EXCEPT !.value = value[installed],
                  !.serverValue = value[installed], !.status = "ready"]
    BY <1>3 DEF Peek
  <2> QED BY <2>1, <2>2 DEF LOADING, Views
<1> QED BY <1>1, <1>2, <1>3

(* A holder, as an object, is not the absence of one.                      *)
LEMMA HolderFound ==
  ASSUME HoldTypeOK, installed' = installed, ClientTypeOK', HolderFor(installed)
  PROVE  /\ holder' \in Holders /\ holder' # None
         /\ holder'.client = installed /\ holder'.view \in Views
         /\ Held(installed) => holder' = holder
         /\ ~Held(installed) => holder'.view = ViewOf(installed)'
<1>1. CASE Held(installed)
  BY <1>1 DEF HolderFor, Held, HoldTypeOK, Holders
<1>2. CASE ~Held(installed)
  <2>1. PICK view \in Views : view = ViewOf(installed)'
    BY NextViewType DEF HoldTypeOK
  <2>2. holder' = [client |-> installed, view |-> view]
    BY <1>2, <2>1 DEF HolderFor
  <2>3. holder' \in Holders /\ holder'.client = installed /\ holder'.view = view
    BY <2>2 DEF Holders, HoldTypeOK
  <2> QED BY <1>2, <2>1, <2>3, UiAssumption
<1> QED BY <1>1, <1>2

LEMMA ScreenTypes ==
  ASSUME ClientTypeOK, HoldTypeOK, ClientTypeOK', ScreenStep
  PROVE  HoldTypeOK'
<1>1. UNCHANGED <<installed, retired, also>>
  BY DEF ScreenStep
<1>2. ASSUME NEW r \in Readers, Render(r) PROVE HoldTypeOK'
  BY <1>1, <1>2, PeekType DEF Render, HoldTypeOK, Places
<1>3. ASSUME NEW r \in Readers, Mount(r) PROVE HoldTypeOK'
  <2>1. holder' \in Holders /\ holder'.view \in Views
    BY <1>1, <1>3, HolderFound DEF Mount
  <2>2. PICK view \in Views : view = holder'.view
    BY <2>1
  <2>3. shown' \in [Readers -> Views]
    BY <1>3, <2>2, LoadingType DEF Mount, HoldTypeOK
  <2>4. at' \in [Readers -> Places]
    BY <1>3 DEF Mount, HoldTypeOK, Places
  <2>5. generation' \in Nat /\ idle' \in Nat /\ asked' \in Nat /\ drops' = drops
    BY <1>3 DEF Mount, HoldTypeOK
  <2> QED BY <1>1, <2>1, <2>3, <2>4, <2>5 DEF HoldTypeOK
<1>4. ASSUME NEW r \in Readers, Unmount(r) PROVE HoldTypeOK'
  <2>1. Scheduled(r) \in Drops
    BY UiAssumption DEF Scheduled, Drops, HoldTypeOK
  <2>2. at' \in [Readers -> Places] /\ shown' \in [Readers -> Views] /\ holder' = holder
    BY <1>4, LoadingType DEF Unmount, HoldTypeOK, Places
  <2>3. generation' \in Nat /\ idle' \in Nat /\ asked' \in Nat /\ drops' \subseteq Drops
    <3>1. KeepAlive[r] \in Nat
      BY UiAssumption
    <3>2. CASE Mounted = {r}
      <4>1. drops' = drops \cup {Scheduled(r)} /\ drops \subseteq Drops
        BY <1>4, <3>2 DEF Unmount, HoldTypeOK
      <4>2. generation' = generation + 1 /\ idle' = 0 /\ asked' = KeepAlive[r]
        BY <1>4, <3>2 DEF Unmount
      <4> QED BY <2>1, <3>1, <4>1, <4>2 DEF HoldTypeOK
    <3>3. CASE Mounted # {r}
      BY <1>4, <3>3 DEF Unmount, HoldTypeOK
    <3> QED BY <3>2, <3>3
  <2> QED BY <1>1, <2>2, <2>3 DEF HoldTypeOK
<1> QED BY <1>2, <1>3, <1>4 DEF ScreenStep

LEMMA HoldTypes ==
  ASSUME ClientTypeOK, HoldTypeOK, ClientTypeOK', [Next]_vars
  PROVE  HoldTypeOK'
<1>1. CASE ScreenStep
  BY <1>1, ScreenTypes
<1>2. CASE CycleEnds
  <2>1. UNCHANGED <<installed, retired, also, at, shown>> /\ drops' \subseteq drops
    BY <1>2 DEF CycleEnds, RunDrops
  <2>2. holder' \in {holder, None} /\ generation' \in Nat /\ idle' \in Nat /\ asked' \in Nat
    BY <1>2 DEF CycleEnds, RunDrops, DropHolder, HoldTypeOK
  <2> QED BY <2>1, <2>2 DEF HoldTypeOK
<1>3. CASE Tick
  <2>1. ASSUME NEW d \in drops PROVE [d EXCEPT !.left = @ - 1] \in Drops
    <3>1. d \in Drops /\ d.left # 0
      BY <1>3 DEF Tick, Due, HoldTypeOK
    <3> QED BY <3>1 DEF Drops
  <2>2. drops' \subseteq Drops
    BY <1>3, <2>1 DEF Tick
  <2> QED BY <1>3, <2>2 DEF Tick, HoldTypeOK
<1>4. ASSUME NEW p \in Players, ClientStep(p) PROVE HoldTypeOK'
  <2>1. UNCHANGED <<installed, retired, also, generation, drops, at, idle, asked>>
    BY <1>4 DEF ClientStep, Refreshed
  <2>2. CASE UNCHANGED <<holder, shown>>
    BY <2>1, <2>2 DEF HoldTypeOK
  <2>3. CASE Held(p) /\ holder' = [holder EXCEPT !.view = ViewOf(p)'] /\ shown' = Rerendered(ViewOf(p)')
    <3>1. PICK view \in Views : view = ViewOf(p)'
      BY NextViewType
    <3>2. holder \in Holders /\ holder' = [holder EXCEPT !.view = view]
      BY <2>3, <3>1 DEF Held, HoldTypeOK
    <3>3. holder' \in Holders
      BY <3>2 DEF Holders
    <3>4. shown' \in [Readers -> Views]
      BY <2>3, <3>1 DEF Rerendered, HoldTypeOK
    <3> QED BY <2>1, <3>3, <3>4 DEF HoldTypeOK
  <2> QED BY <1>4, <2>2, <2>3 DEF ClientStep, Refreshed
<1>5. ASSUME NEW p \in Players, Subscribes(p) \/ Unsubscribes(p) \/ Served(p) PROVE HoldTypeOK'
  BY <1>5 DEF Subscribes, Unsubscribes, Served, holdVars, HoldTypeOK
<1>6. CASE ReplaceApp \/ ActionStep \/ UNCHANGED vars
  BY <1>6 DEF ReplaceApp, ActionStep, vars, holdVars, HoldTypeOK
<1> QED BY <1>1, <1>2, <1>3, <1>4, <1>5, <1>6 DEF Next, Onward, Happens

(* The types, of the client's and the component's state too.               *)
THEOREM TypeCorrect == Spec => []TypeOK
<1>1. Init => ClientTypeOK /\ HoldTypeOK
  <2>1. Init => ClientTypeOK
    BY DEF Init, ClientInit, ClientTypeOK
  <2>2. Init => HoldTypeOK
    <3>1. Init => at \in [Readers -> Places] /\ shown \in [Readers -> Views]
      BY LoadingType DEF Init, Places
    <3>2. First \in Players
      BY UiAssumption
    <3>3. Init => also \in BOOLEAN
      BY DEF Init
    <3>4. Init => generation \in Nat /\ idle \in Nat /\ asked \in Nat
      BY DEF Init
    <3>5. Init => installed \in Players /\ retired \subseteq Players
      BY <3>2 DEF Init
    <3>6. Init => holder \in Holders \cup {None} /\ drops \subseteq Drops
      BY DEF Init
    <3> QED BY <3>1, <3>3, <3>4, <3>5, <3>6 DEF HoldTypeOK
  <2> QED BY <2>1, <2>2
<1>2. ClientTypeOK /\ HoldTypeOK /\ [Next]_vars => (ClientTypeOK /\ HoldTypeOK)'
  BY ClientTypes, HoldTypes DEF HoldTypeOK
<1>3. ClientTypeOK /\ HoldTypeOK /\ StateIInv => TypeOK
  BY DEF TypeOK, HoldTypeOK, StateIInv, Drops, Places
<1> QED BY <1>1, <1>2, <1>3, StateInv, PTL DEF Spec

-----------------------------------------------------------------------------
(* Views.  What mounted readers have rendered is their holder's view, and  *)
(* that is what the client shows, or all but whether updates are pending.  *)

UpToPending(view, now) == [view EXCEPT !.pending = now.pending] = now

Fresh ==
  LET now == ViewOf(installed) IN
  \/ holder.view = now
  \/ value[installed] = NoValue /\ UpToPending(holder.view, now)

ViewIInv ==
  /\ holder # None => holder.client \in retired \cup {installed}
  /\ installed \notin retired
  /\ Held(installed) \/ also => active[installed]
  /\ Held(installed) => Fresh /\ \A r \in Mounted : shown[r] = holder.view

LEMMA FreshKept ==
  ASSUME TypeOK, Held(installed), Fresh, UNCHANGED <<installed, holder>>,
         LET p == installed IN
           /\ value'[p] = value[p] /\ status'[p] = status[p] /\ floor'[p] = floor[p]
           /\ updates'[p] = updates[p] \/ value[p] = NoValue
  PROVE  Fresh'
<1> DEFINE p == installed
           now == ViewOf(p)
<1>1. now \in Views /\ holder.view \in Views
  BY ViewType DEF TypeOK, Held, Holders
<1>2. PICK view \in Views : view = holder.view /\ holder'.view = view
  BY <1>1
<1>3. PICK old \in Views : old = now
  BY <1>1
<1>4. CASE updates'[p] = updates[p]
  <2>1. ViewOf(installed)' = old
    BY <1>3, <1>4 DEF ViewOf
  <2> QED BY <1>2, <1>3, <2>1 DEF Fresh
<1>5. CASE value[p] = NoValue
  <2>1. ViewOf(installed)' = [old EXCEPT !.pending = (updates'[p] # {})]
    BY <1>3, <1>5 DEF ViewOf
  <2>2. view = old \/ [view EXCEPT !.pending = old.pending] = old
    BY <1>2, <1>3 DEF Fresh, UpToPending
  <2>3. PICK b \in BOOLEAN : b = (updates'[p] # {})
    OBVIOUS
  <2>4. [view EXCEPT !.pending = b] = [old EXCEPT !.pending = b]
    BY <2>2 DEF Views
  <2>5. UpToPending(holder.view, ViewOf(installed))'
    BY <1>2, <2>1, <2>3, <2>4 DEF UpToPending, Views
  <2> QED BY <1>5, <2>5 DEF Fresh
<1> QED BY <1>4, <1>5

(* A step of the client that its listeners do not hear changes nothing.    *)
LEMMA UnheardKeeps ==
  ASSUME TypeOK, NEW p \in Players, active[p], ~Heard(p),
         Arrives(p) \/ \E c \in Calls : Caller[c] = p /\ (Invoke(c) \/ Answered(c))
  PROVE  /\ value'[p] = value[p] /\ status'[p] = status[p] /\ floor'[p] = floor[p]
         /\ updates'[p] = updates[p] \/ value[p] = NoValue
<1>1. ASSUME NEW item, HandleState(p, item), item.v \in Nat, floor'[p] = floor[p]
      PROVE  value'[p] = value[p] /\ status'[p] = status[p]
  BY <1>1 DEF HandleState, Stale, TypeOK, ClientTypeOK
<1>2. floor'[p] = floor[p] /\ (updates'[p] = updates[p] \/ value'[p] = NoValue)
  BY DEF Heard
<1>3. CASE Arrives(p)
  <2>1. PICK v \in 1 .. MaxRevision, k \in SUBSET {c \in Calls : called[c] # "new"} :
          \/ \E d \in SUBSET Calls : k \subseteq d /\ HandleState(p, [StateItem(v, d, "none") EXCEPT !.k = k])
          \/ HandleState(p, [StateItem(v, NoValue, "load") EXCEPT !.k = k])
    BY <1>3 DEF Arrives
  <2>2. ASSUME NEW d, NEW e, HandleState(p, [StateItem(v, d, e) EXCEPT !.k = k])
        PROVE  value'[p] = value[p] /\ status'[p] = status[p]
    <3> DEFINE item == [StateItem(v, d, e) EXCEPT !.k = k]
    <3>1. HandleState(p, item) /\ item.v \in Nat
      BY <2>2 DEF StateItem
    <3> HIDE DEF item
    <3> QED BY <1>1, <1>2, <3>1
  <2> QED BY <1>2, <2>1, <2>2
<1>4. CASE \E c \in Calls : Caller[c] = p /\ (Invoke(c) \/ Answered(c))
  <2>1. UNCHANGED <<value, status, floor>>
    BY <1>4 DEF Invoke, Answered, BeginCall, HandleResponse, RejectCall, SettleTimeout
  <2> QED BY <1>2, <2>1
<1> QED BY <1>3, <1>4

(* The client reads a request, or is subscribed to: what it shows stays.   *)
LEMMA ViewFrame ==
  ASSUME TypeOK, ViewIInv, UNCHANGED <<installed, retired, holder, at, shown>>,
         UNCHANGED <<status, value, floor, updates>>,
         Held(installed) \/ also' => active'[installed]
  PROVE  ViewIInv'
<1>1. Held(installed)' <=> Held(installed)
  BY DEF Held
<1>2. Held(installed) => Fresh'
  BY FreshKept DEF ViewIInv
<1>3. Mounted' = Mounted
  BY DEF Mounted
<1> QED BY <1>1, <1>2, <1>3 DEF ViewIInv

LEMMA RenderView ==
  ASSUME TypeOK, ViewIInv, NEW r \in Readers, Render(r),
         UNCHANGED <<installed, retired, also, clientVars>>
  PROVE  ViewIInv'
<1>1. Mounted' = Mounted /\ \A q \in Mounted : shown'[q] = shown[q]
  BY DEF Render, Mounted, TypeOK
<1>2. Held(installed)' <=> Held(installed)
  BY DEF Held, Render
<1>3. Held(installed) => Fresh'
  BY FreshKept DEF ViewIInv, Render, clientVars
<1> QED BY <1>1, <1>2, <1>3 DEF ViewIInv, Render, clientVars

LEMMA UnmountView ==
  ASSUME TypeOK, ViewIInv, NEW r \in Readers, Unmount(r),
         UNCHANGED <<installed, retired, also>>
  PROVE  ViewIInv'
<1>1. Mounted' \subseteq Mounted /\ \A q \in Mounted' : shown'[q] = shown[q]
  BY DEF Unmount, Mounted, TypeOK
<1>2. Held(installed)' <=> Held(installed)
  BY DEF Held, Unmount
<1>3. Held(installed) => Fresh'
  BY FreshKept DEF ViewIInv, Unmount, clientVars
<1> QED BY <1>1, <1>2, <1>3 DEF ViewIInv, Unmount, clientVars

(* Who mounts renders the view of the holder there is or comes to be.      *)
LEMMA MountView ==
  ASSUME TypeOK, TypeOK', ViewIInv, NEW r \in Readers, Mount(r),
         UNCHANGED <<installed, retired, also>>
  PROVE  ViewIInv'
<1>0. HoldTypeOK /\ ClientTypeOK'
  BY DEF TypeOK, HoldTypeOK, Drops, Places
<1>1. /\ holder' # None /\ holder'.client = installed
      /\ Held(installed) => holder' = holder
      /\ ~Held(installed) => holder'.view = ViewOf(installed)'
  BY <1>0, HolderFound DEF Mount
<1>2. active'[installed]
  BY DEF Mount, HolderFor, ViewIInv, ClientSubscribe, clientVars, TypeOK, ClientTypeOK
<1>3. \A q \in Mounted' : shown'[q] = holder'.view
  <2>1. ASSUME NEW q \in Mounted', q # r PROVE Held(installed) /\ q \in Mounted /\ shown'[q] = shown[q]
    <3>1. q \in Readers /\ at'[q] = "mounted"
      BY <2>1 DEF Mounted
    <3> QED BY <2>1, <3>1 DEF Mount, Stranded, Mounted
  <2>2. shown'[r] = holder'.view
    BY DEF Mount
  <2> QED BY <1>1, <2>1, <2>2 DEF ViewIInv
<1>4. Fresh'
  <2>1. CASE Held(installed)
    <3>1. UNCHANGED clientVars
      BY <2>1 DEF Mount, HolderFor
    <3> QED BY <1>1, <2>1, <3>1, FreshKept DEF ViewIInv, clientVars
  <2>2. CASE ~Held(installed)
    BY <1>1, <2>2 DEF Fresh
  <2> QED BY <2>1, <2>2
<1> QED BY <1>1, <1>2, <1>3, <1>4 DEF ViewIInv

(* Without a holder nothing is said, and the game's subscription stays.    *)
LEMMA DropsView ==
  ASSUME TypeOK, ViewIInv, CycleEnds
  PROVE  ViewIInv'
<1>1. UNCHANGED <<installed, retired, also, at, shown>>
  BY DEF CycleEnds, RunDrops
<1>2. CASE UNCHANGED <<clientVars, holder>>
  BY <1>1, <1>2, ViewFrame DEF ViewIInv, clientVars
<1>3. CASE holder # None /\ DropHolder
  <2>1. holder' = None /\ (also => active'[installed])
    <3>1. CASE UNCHANGED clientVars
      BY <1>3, <3>1 DEF DropHolder, ViewIInv, clientVars
    <3>2. CASE ~(also /\ holder.client = installed) /\ Disconnect(holder.client)
      <4>1. holder.client # installed => active'[installed] = active[installed]
        BY <3>2 DEF Disconnect, Shed, TypeOK, ClientTypeOK
      <4> QED BY <1>3, <3>2, <4>1 DEF DropHolder, ViewIInv
    <3> QED BY <1>3, <3>1, <3>2 DEF DropHolder
  <2> QED BY <1>1, <2>1 DEF ViewIInv, Held
<1> QED BY <1>2, <1>3 DEF CycleEnds, RunDrops

(* A step the listeners hear replaces the view; any other keeps it fresh.  *)
LEMMA ClientView ==
  ASSUME TypeOK, TypeOK', ViewIInv, NEW p \in Players, ClientStep(p)
  PROVE  ViewIInv'
<1>1. p = installed /\ UNCHANGED <<installed, retired, also, at>>
  BY DEF ClientStep, Refreshed
<1>2. active' = active
  BY ZenonT(30) DEF ClientStep, Arrives, HandleState, Invoke, Answered, BeginCall, HandleResponse,
         RejectCall, SettleTimeout
<1>3. Mounted' = Mounted
  BY <1>1 DEF Mounted
<1>4. CASE Held(p) /\ Heard(p)
  <2>1. PICK view \in Views : view = ViewOf(p)'
    BY NextViewType DEF TypeOK
  <2>2. /\ holder \in Holders /\ holder' = [holder EXCEPT !.view = view]
        /\ shown' = Rerendered(view)
    BY <1>4, <2>1 DEF ClientStep, Refreshed, Held, TypeOK
  <2>3. holder'.client = holder.client /\ holder'.view = view
    BY <2>2 DEF Holders
  <2>4. \A r \in Mounted' : shown'[r] = holder'.view
    BY <1>3, <2>2, <2>3 DEF Rerendered, Mounted
  <2>5. Fresh'
    BY <1>1, <2>1, <2>3 DEF Fresh
  <2> QED BY <1>1, <1>2, <1>4, <2>3, <2>4, <2>5 DEF ViewIInv, Held
<1>5. CASE ~(Held(p) /\ Heard(p))
  <2>1. UNCHANGED <<holder, shown>>
    BY <1>5 DEF ClientStep, Refreshed
  <2>2. Held(installed) => Fresh'
    BY <1>1, <1>5, <2>1, UnheardKeeps, FreshKept DEF ViewIInv, ClientStep
  <2>3. Held(installed)' <=> Held(installed)
    BY <1>1, <2>1 DEF Held
  <2> QED BY <1>1, <1>2, <1>3, <2>1, <2>2, <2>3 DEF ViewIInv
<1> QED BY <1>4, <1>5

LEMMA ViewNext ==
  ASSUME TypeOK, TypeOK', ViewIInv, [Next]_vars
  PROVE  ViewIInv'
<1>1. CASE ScreenStep
  BY <1>1, RenderView, MountView, UnmountView DEF ScreenStep, Render
<1>2. CASE CycleEnds
  BY <1>2, DropsView
<1>3. CASE Tick \/ ActionStep \/ UNCHANGED vars
  BY <1>3, ViewFrame DEF Tick, ActionStep, vars, holdVars, clientVars, ViewIInv
<1>4. ASSUME NEW p \in Players, Served(p) PROVE ViewIInv'
  BY <1>4, ViewFrame DEF Served, holdVars, ViewIInv
<1>5. ASSUME NEW p \in Players, ClientStep(p) PROVE ViewIInv'
  BY <1>5, ClientView
<1>6. ASSUME NEW p \in Players, Subscribes(p) PROVE ViewIInv'
  <2>1. active'[installed]
    BY <1>6 DEF Subscribes, ClientSubscribe, clientVars, TypeOK, ClientTypeOK
  <2> QED BY <1>6, <2>1, ViewFrame DEF Subscribes, ClientSubscribe, clientVars, holdVars
<1>7. ASSUME NEW p \in Players, Unsubscribes(p) PROVE ViewIInv'
  <2>1. CASE Held(p)
    BY <1>7, <2>1, ViewFrame DEF Unsubscribes, clientVars, holdVars, ViewIInv
  <2>2. CASE ~Held(p)
    BY <1>7, <2>2 DEF Unsubscribes, holdVars, ViewIInv, Held
  <2> QED BY <2>1, <2>2
<1>8. CASE ReplaceApp
  BY <1>8 DEF ReplaceApp, holdVars, ViewIInv, Held
<1> QED BY <1>1, <1>2, <1>3, <1>4, <1>5, <1>6, <1>7, <1>8 DEF Next, Onward, Happens

(* ui-core.ts:8-9: a mounted reader has rendered what its client shows now,*)
(* whatever it rendered first, whoever else reads, and whatever arrives.   *)
THEOREM ViewsStayCurrent == Spec => []ViewsAreCurrent
<1>1. Init => ViewIInv
  BY UiAssumption DEF Init, ViewIInv, Held
<1>2. TypeOK /\ TypeOK' /\ ViewIInv /\ [Next]_vars => ViewIInv'
  BY ViewNext
<1>3. TypeOK /\ ViewIInv => ViewsAreCurrent
  <2> SUFFICES ASSUME TypeOK, ViewIInv, NEW r \in Mounted, Held(installed)
               PROVE  LET now == ViewOf(installed) IN
                        \/ shown[r] = now
                        \/ now.value = NoValue /\ [shown[r] EXCEPT !.pending = now.pending] = now
    BY DEF ViewsAreCurrent
  <2>1. value[installed] = NoValue => ViewOf(installed).value = NoValue
    BY DEF ViewOf
  <2> QED BY <2>1 DEF ViewIInv, Fresh, UpToPending
<1> QED BY <1>1, <1>2, <1>3, TypeCorrect, PTL DEF Spec

-----------------------------------------------------------------------------
(* The shared subscription.  A drop that nothing overtook still has left   *)
(* what the last reader asked for, less the time since.                    *)

KeepIInv ==
  /\ Mounted # {} => holder # None
  /\ \A d \in drops :
       /\ d.seen <= generation
       /\ d.seen = generation /\ Mounted = {} => idle + d.left >= asked

(* Whether anyone is mounted, and what a drop is compared with.            *)
LEMMA KeepFrame ==
  ASSUME KeepIInv, UNCHANGED <<holder, generation, drops, at, idle, asked>>
  PROVE  KeepIInv'
BY DEF KeepIInv, Mounted

LEMMA MountKeeps ==
  ASSUME TypeOK, TypeOK', KeepIInv, NEW r \in Readers, Mount(r), installed' = installed
  PROVE  KeepIInv'
<1>1. HoldTypeOK /\ ClientTypeOK'
  BY DEF TypeOK, HoldTypeOK, Drops, Places
<1>2. holder' # None
  BY <1>1, HolderFound DEF Mount
<1>3. r \in Mounted'
  BY DEF Mount, Mounted
<1>4. ASSUME NEW d \in drops' PROVE d.seen <= generation'
  BY <1>4 DEF Mount, KeepIInv, TypeOK
<1> QED BY <1>2, <1>3, <1>4 DEF KeepIInv

LEMMA UnmountKeeps ==
  ASSUME TypeOK, KeepIInv, NEW r \in Readers, Unmount(r)
  PROVE  KeepIInv'
<1>0. KeepAlive[r] \in Nat
  BY UiAssumption
<1>1. Mounted' = Mounted \ {r} /\ holder' = holder
  BY DEF Unmount, Mounted, TypeOK
<1>2. CASE Mounted = {r}
  <2>1. generation' = generation + 1 /\ idle' = 0 /\ asked' = KeepAlive[r]
        /\ drops' = drops \cup {Scheduled(r)}
    BY <1>2 DEF Unmount
  <2>2. ASSUME NEW d \in drops PROVE d.seen <= generation' /\ d.seen # generation'
    BY <2>1, <2>2 DEF KeepIInv, TypeOK
  <2>3. Scheduled(r).seen = generation' /\ Scheduled(r).left = asked'
    BY <2>1 DEF Scheduled
  <2> QED BY <1>0, <1>1, <1>2, <2>1, <2>2, <2>3 DEF KeepIInv, TypeOK
<1>3. CASE Mounted # {r}
  <2>1. UNCHANGED <<generation, drops, idle, asked>> /\ (Mounted' = {} => Mounted = {})
    BY <1>1, <1>3 DEF Unmount
  <2> QED BY <1>1, <2>1 DEF KeepIInv
<1> QED BY <1>2, <1>3

LEMMA DropsKeep ==
  ASSUME TypeOK, KeepIInv, CycleEnds
  PROVE  /\ KeepIInv'
         /\ holder # None /\ holder' = None => Mounted = {} /\ idle >= asked
<1>1. Mounted' = Mounted /\ drops' \subseteq drops
  BY DEF CycleEnds, RunDrops, Mounted
<1>2. CASE UNCHANGED <<holder, generation, idle, asked>>
  BY <1>1, <1>2 DEF KeepIInv
<1>3. CASE (\E d \in Due : ~Overtaken(d)) /\ DropHolder
  <2>1. PICK d \in drops : d.left = 0 /\ d.seen = generation /\ Mounted = {}
    BY <1>3 DEF Due, Overtaken
  <2>2. idle >= asked
    BY <2>1 DEF KeepIInv, TypeOK
  <2>3. generation' = generation + 1
    BY <1>3 DEF DropHolder
  <2>4. ASSUME NEW e \in drops' PROVE e.seen <= generation' /\ e.seen # generation'
    BY <1>1, <2>3, <2>4 DEF KeepIInv, TypeOK
  <2> QED BY <1>1, <2>1, <2>2, <2>4 DEF KeepIInv
<1> QED BY <1>2, <1>3 DEF CycleEnds, RunDrops

LEMMA TickKeeps ==
  ASSUME TypeOK, KeepIInv, Tick
  PROVE  KeepIInv'
<1>1. UNCHANGED <<holder, generation, asked>> /\ Mounted' = Mounted
  BY DEF Tick, Mounted
<1>2. idle' \in Nat /\ idle' >= idle
      /\ (Mounted = {} /\ idle < asked => idle' = idle + 1)
  BY DEF Tick, TypeOK
<1>3. ASSUME NEW e \in drops'
      PROVE  /\ e.seen <= generation
             /\ e.seen = generation /\ Mounted = {} => idle' + e.left >= asked
  <2>1. PICK d \in drops : e = [d EXCEPT !.left = @ - 1]
    BY <1>3 DEF Tick
  <2>2. d.seen \in Nat /\ d.left \in Nat /\ d.left # 0 /\ e.seen = d.seen /\ e.left = d.left - 1
    BY <2>1 DEF Tick, Due, TypeOK
  <2>3. d.seen <= generation /\ (d.seen = generation /\ Mounted = {} => idle + d.left >= asked)
    BY <2>1 DEF KeepIInv
  <2>4. idle \in Nat /\ asked \in Nat /\ generation \in Nat
    BY DEF TypeOK
  <2> QED BY <1>2, <2>2, <2>3, <2>4
<1> QED BY <1>1, <1>3 DEF KeepIInv

LEMMA KeepNext ==
  ASSUME TypeOK, TypeOK', KeepIInv, [Next]_vars
  PROVE  /\ KeepIInv'
         /\ holder # None /\ holder' = None => Mounted = {} /\ idle >= asked
<1>0. ASSUME UNCHANGED <<holder, generation, drops, at, idle, asked>>
      PROVE  KeepIInv' /\ ~(holder # None /\ holder' = None)
  BY <1>0, KeepFrame
<1>1. ASSUME NEW r \in Readers, Render(r) \/ Mount(r) \/ Unmount(r), installed' = installed
      PROVE  KeepIInv' /\ ~(holder # None /\ holder' = None)
  <2>1. CASE Render(r)
    BY <2>1 DEF Render, KeepIInv, Mounted, TypeOK
  <2>2. CASE Mount(r)
    <3>1. HoldTypeOK /\ ClientTypeOK'
      BY DEF TypeOK, HoldTypeOK, Drops, Places
    <3> QED BY <1>1, <2>2, <3>1, MountKeeps, HolderFound DEF Mount
  <2>3. CASE Unmount(r)
    BY <2>3, UnmountKeeps DEF Unmount
  <2> QED BY <1>1, <2>1, <2>2, <2>3
<1>2. CASE ScreenStep
  BY <1>1, <1>2 DEF ScreenStep
<1>3. CASE CycleEnds
  BY <1>3, DropsKeep
<1>4. CASE Tick
  BY <1>4, TickKeeps DEF Tick
<1>5. ASSUME NEW p \in Players, ClientStep(p)
      PROVE  KeepIInv' /\ ~(holder # None /\ holder' = None)
  <2>1. UNCHANGED <<generation, drops, at, idle, asked>>
    BY <1>5 DEF ClientStep, Refreshed
  <2>2. holder # None => holder' # None
    <3>1. CASE holder' = holder
      BY <3>1
    <3>2. CASE Held(p) /\ holder' = [holder EXCEPT !.view = ViewOf(p)']
      <4>1. PICK view \in Views : view = ViewOf(p)'
        BY NextViewType DEF TypeOK
      <4>2. holder \in Holders /\ holder' = [holder EXCEPT !.view = view]
        BY <3>2, <4>1 DEF Held, TypeOK
      <4>3. holder' \in Holders
        BY <4>2 DEF Holders
      <4> QED BY <4>3, UiAssumption
    <3> QED BY <1>5, <3>1, <3>2 DEF ClientStep, Refreshed
  <2> QED BY <2>1, <2>2 DEF KeepIInv, Mounted
<1>6. ASSUME NEW p \in Players, Subscribes(p) \/ Unsubscribes(p) \/ Served(p)
      PROVE  KeepIInv' /\ ~(holder # None /\ holder' = None)
  BY <1>0, <1>6 DEF Subscribes, Unsubscribes, Served, holdVars
<1>7. CASE ReplaceApp \/ ActionStep \/ UNCHANGED vars
  BY <1>0, <1>7 DEF ReplaceApp, ActionStep, vars, holdVars
<1> QED BY <1>2, <1>3, <1>4, <1>5, <1>6, <1>7 DEF Next, Onward, Happens

(* ui-core.ts:9-12: the shared subscription goes only when nobody reads,   *)
(* and no sooner after the last reader than that one asked for.            *)
THEOREM KeptCorrectly == Spec => KeptAsAsked
<1>1. Init => KeepIInv
  BY DEF Init, KeepIInv, Mounted
<1>2. TypeOK /\ TypeOK' /\ KeepIInv /\ [Next]_vars => KeepIInv'
  BY KeepNext
<1>3. TypeOK /\ TypeOK' /\ KeepIInv /\ [Next]_vars
        => [holder # None /\ holder' = None => Mounted = {} /\ idle >= asked]_vars
  BY KeepNext
<1> QED BY <1>1, <1>2, <1>3, TypeCorrect, PTL DEF Spec, KeptAsAsked
=============================================================================
