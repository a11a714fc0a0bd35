---------------------------- MODULE PlayerStore ----------------------------
(***************************************************************************)
(* The player store of player-store.ts (`createPlayerStore`): which player *)
(* of a server has a document on the key, which load or release is still   *)
(* running, and who waits for whom.  The documents themselves, and the     *)
(* record under them, are StoreDocument's.                                 *)
(*                                                                         *)
(* A player who rejoins is a new Player with the same key, so two players  *)
(* of one server may want the key; the record cannot tell them apart, as   *)
(* the lock names the server.  `holders` and `releasing` are what keeps    *)
(* their sessions apart.  StoreDocument assumes that a server never claims *)
(* the key while another of its sessions can still write it; DocumentSpec  *)
(* below says that the maps of this module see to it.                      *)
(*                                                                         *)
(* A promise a load waits on is a reference: a release that follows the    *)
(* load of q is <<"load", q, k>> (the k-th of them), and becomes           *)
(* <<"doc", d>> once the document d it must close is known.                *)
(***************************************************************************)
EXTENDS Integers, Sequences, FiniteSets

CONSTANTS
  Players, Servers, ServerOf,
  Values, Default, Nobody, Outsider, ForeignShapes,
  RetryAttempts, LockTtl, Heartbeat, MaxQueue,
  AcquireAttempts,  \* session.acquireAttempts
  MaxLoads,         \* bound: loads of one player
  NoOne             \* an empty entry of a map

ASSUME PlayersAssumption ==
  /\ ServerOf \in [Players -> Servers]
  /\ AcquireAttempts \in Nat \ {0}
  /\ MaxLoads \in Nat
  /\ NoOne \notin Players \cup (Players \X (1 .. MaxLoads))

VARIABLES
  record, phase, value, persisted, lockAge, timer, queue, request, holder, unsure,
  documents,   \* documents[p]: p's document
  loading,     \* loading[p]: p's load, from its call to its settling
  failures,    \* players whose last load gave up
  released,    \* players whose document was released, for a while
  holders,     \* holders[s]: the player whose session owns the key on s
  releasing,   \* releasing[s]: the departed session's release on s
  after,       \* after[p]: releases of p that wait for p's load to settle
  loads        \* loads[p]: sessions p has started

(* Session <<p, n>> is the document of p's n-th load.                      *)
Sessions == Players \X (1 .. MaxLoads)
Home == [d \in Sessions |-> ServerOf[d[1]]]

(* What StoreDocument assumes of its constants.                            *)
ASSUME DocumentsAssumption ==
  /\ Default \in Values
  /\ Nobody \notin Servers \cup Sessions
  /\ Outsider \notin Servers \cup Sessions
  /\ Nobody # Outsider
  /\ ForeignShapes \subseteq {"readable", "ahead", "unreadable"}
  /\ RetryAttempts \in Nat \ {0}
  /\ Heartbeat \in Nat \ {0}
  /\ LockTtl \in Nat
  /\ LockTtl >= 2 * Heartbeat
  /\ MaxQueue \in Nat

SD == INSTANCE StoreDocument

docVars == <<record, phase, value, persisted, lockAge, timer, queue, request,
             holder, unsure>>
mapVars == <<documents, loading, failures, released, holders, releasing, after, loads>>
vars == <<docVars, mapVars>>

-----------------------------------------------------------------------------
NoRef == <<"none">>
NotLoading == [state |-> "none", on |-> NoRef, tries |-> 0]
Loading(p) == loading[p].state # "none"
Session(p) == <<p, loads[p]>>

(* documents.get(p)?.isActive()                                            *)
Active(p) == documents[p] # NoOne /\ phase[documents[p]] = "open"

(* Something to release: a load in flight, or a document.                  *)
Holding(p) == Loading(p) \/ documents[p] # NoOne

(* The promise release(p) returns; nothing to wait for resolves at once.   *)
ReleaseOf(p) ==
  IF Loading(p) THEN <<"load", p, after[p] + 1>>
  ELSE IF documents[p] # NoOne /\ SD!Live(documents[p]) THEN <<"doc", documents[p]>>
  ELSE NoRef

(* Every waiter of promise r now waits on q instead (NoRef: r resolved).   *)
Follow(Map(_)) ==
  /\ releasing' = [s \in Servers |-> Map(releasing[s])]
  /\ loading' = [p \in Players |-> [loading[p] EXCEPT !.on = Map(@)]]

Init ==
  /\ SD!Init
  /\ documents = [p \in Players |-> NoOne]
  /\ loading = [p \in Players |-> NotLoading]
  /\ failures = {}
  /\ released = {}
  /\ holders = [s \in Servers |-> NoOne]
  /\ releasing = [s \in Servers |-> NoRef]
  /\ after = [p \in Players |-> 0]
  /\ loads = [p \in Players |-> 0]

-----------------------------------------------------------------------------
EndSessionUnreleased(p) ==  \* mutant: the document is dropped, not released
  \/ Loading(p) /\ after' = [after EXCEPT ![p] = @ + 1] /\ UNCHANGED <<docVars, documents>>
  \/ ~Loading(p) /\ documents' = [documents EXCEPT ![p] = NoOne] /\ UNCHANGED <<docVars, after>>
EndSessionIfOpen(p) ==  \* mutant: a load in flight is not released
  \/ Loading(p) /\ UNCHANGED <<docVars, documents, after>>
  \/ /\ ~Loading(p)
     /\ IF documents[p] # NoOne /\ SD!Live(documents[p]) THEN SD!Release(documents[p])
        ELSE UNCHANGED docVars
     /\ documents' = [documents EXCEPT ![p] = NoOne]
     /\ UNCHANGED after
(* release(p): what it does at once.  A load in flight is let finish; a    *)
(* document leaves the map and gets a release at the end of its queue.     *)
EndSession(p) ==
  \/ /\ Loading(p)
     /\ after' = [after EXCEPT ![p] = @ + 1]
     /\ UNCHANGED <<docVars, documents>>
  \/ /\ ~Loading(p)
     /\ IF documents[p] # NoOne /\ SD!Live(documents[p]) THEN SD!Release(documents[p])
        ELSE UNCHANGED docVars
     /\ documents' = [documents EXCEPT ![p] = NoOne]
     /\ UNCHANGED after

Release(p) ==
  LET s == ServerOf[p] IN
  /\ EndSession(p)
  /\ released' = released \cup {p}
  /\ failures' = failures \ {p}
  /\ holders' = IF holders[s] = p THEN [holders EXCEPT ![s] = NoOne] ELSE holders
  /\ releasing' = IF Holding(p) THEN [releasing EXCEPT ![s] = ReleaseOf(p)] ELSE releasing
  /\ UNCHANGED <<loading, loads>>

(* What a load must wait for: the release of the key's previous session on *)
(* this server, or one still writing.                                      *)
Displaces(p) == holders[ServerOf[p]] \notin {NoOne, p}
HandoverIfHeld(p) ==  \* mutant: a release still writing is not waited out
  IF Displaces(p) THEN ReleaseOf(holders[ServerOf[p]]) ELSE NoRef
Handover(p) ==
  IF Displaces(p) THEN ReleaseOf(holders[ServerOf[p]]) ELSE releasing[ServerOf[p]]

(* load(p): the previous session is ended before this one claims.          *)
Load(p) ==
  LET s == ServerOf[p]
      previous == holders[s]
  IN
  /\ ~Active(p) /\ ~Loading(p)
  /\ loads[p] < MaxLoads
  /\ loads' = [loads EXCEPT ![p] = @ + 1]
  /\ holders' = [holders EXCEPT ![s] = p]
  /\ loading' = [loading EXCEPT ![p] = [state |-> "waiting", on |-> Handover(p), tries |-> 1]]
  /\ \/ /\ ~Displaces(p)
        /\ released' = released \ {p}
        /\ failures' = failures \ {p}
        /\ UNCHANGED <<docVars, documents, releasing, after>>
     \/ /\ Displaces(p)
        /\ EndSession(previous)
        /\ released' = (released \ {p}) \cup {previous}
        /\ failures' = failures \ {p, previous}
        /\ releasing' = IF Holding(previous)
                        THEN [releasing EXCEPT ![s] = ReleaseOf(previous)] ELSE releasing

(* status(p): how p and the store stand.                                   *)
Status(p) ==
  CASE Loading(p) -> "loading"
    [] ~Loading(p) /\ Active(p) -> "ready"
    [] ~Loading(p) /\ ~Active(p) /\ p \in released -> "released"
    [] ~Loading(p) /\ ~Active(p) /\ p \in failures \ released -> "failed"
    [] OTHER -> "idle"

(* waitFor(p) with nothing to wait for: it loads, unless p's document was  *)
(* just released or p's last load failed.                                  *)
WaitFor(p) == Status(p) = "idle" /\ Load(p)

(* The departed-player set forgets p (DEPARTED_PLAYER_TTL_MS).             *)
ForgetReleased(p) ==
  /\ p \in released
  /\ released' = released \ {p}
  /\ UNCHANGED <<docVars, documents, loading, failures, holders, releasing, after, loads>>

-----------------------------------------------------------------------------
(* Promise continuations.  They run in the step that settles the promise:  *)
(* see Settled below.                                                      *)

(* The handover is over: the first attempt claims the key.                 *)
Begin(p) ==
  /\ loading[p].state = "waiting"
  /\ loading[p].on = NoRef
  /\ SD!StartAcquire(Session(p))
  /\ loading' = [loading EXCEPT ![p].state = "acquiring"]
  /\ UNCHANGED <<documents, failures, released, holders, releasing, after, loads>>

(* A load settled under releases that waited for it: the first takes the   *)
(* document out of the map and closes it, any other finds none.            *)
ReleaseAfterLoad(p) ==
  LET d == documents[p]
      first == IF d # NoOne /\ SD!Live(d) THEN <<"doc", d>> ELSE NoRef
      settled(ref) == IF ref = <<"load", p, 1>> THEN first
                      ELSE IF ref[1] = "load" /\ ref[2] = p THEN NoRef
                      ELSE ref
  IN
  /\ ~Loading(p) /\ after[p] > 0
  /\ IF first # NoRef THEN SD!Release(d) ELSE UNCHANGED docVars
  /\ documents' = [documents EXCEPT ![p] = NoOne]
  /\ after' = [after EXCEPT ![p] = 0]
  /\ Follow(settled)
  /\ UNCHANGED <<failures, released, holders, loads>>

(* The release of document d has written.                                  *)
Awaited(d) == \/ \E s \in Servers : releasing[s] = <<"doc", d>>
              \/ \E p \in Players : loading[p].on = <<"doc", d>>
Drained(d) == queue[d] = << >> /\ ~SD!InFlight(d)

ReleaseDone(d) ==
  LET settled(ref) == IF ref = <<"doc", d>> THEN NoRef ELSE ref IN
  /\ Drained(d) /\ Awaited(d)
  /\ Follow(settled)
  /\ UNCHANGED <<docVars, documents, failures, released, holders, after, loads>>

Settled ==
  /\ SD!Quiet
  /\ \A p \in Players : /\ ~(loading[p].state = "waiting" /\ loading[p].on = NoRef)
                        /\ ~(~Loading(p) /\ after[p] > 0)
  /\ \A d \in Sessions : ~(Drained(d) /\ Awaited(d))

Continue ==
  \/ \E d \in Sessions : SD!RunWork(d) /\ UNCHANGED mapVars
  \/ SD!Quiet /\ \E p \in Players : Begin(p) \/ ReleaseAfterLoad(p)
  \/ SD!Quiet /\ \E d \in Sessions : ReleaseDone(d)

-----------------------------------------------------------------------------
(* The attempts of a load.                                                 *)

LoadFails(p) ==
  /\ loading' = [loading EXCEPT ![p] = NotLoading]
  /\ failures' = IF p \in released THEN failures ELSE failures \cup {p}
  /\ UNCHANGED <<documents, released, holders, releasing, after, loads>>

LoadOpens(p) ==
  /\ loading[p].state = "acquiring"
  /\ SD!Open(Session(p))
  /\ documents' = [documents EXCEPT ![p] = Session(p)]
  /\ loading' = [loading EXCEPT ![p] = NotLoading]
  /\ UNCHANGED <<failures, released, holders, releasing, after, loads>>

TriesAgain(p) == SD!Decodes /\ loading[p].tries < AcquireAttempts

(* Another server's lock is waited out, acquireAttempts times; a record    *)
(* this code cannot decode fails the load.                                 *)
LoadRefused(p) ==
  /\ loading[p].state = "acquiring"
  /\ SD!ClaimRefused(Session(p))
  /\ \/ /\ TriesAgain(p)
        /\ loading' = [loading EXCEPT ![p].state = "backoff", ![p].tries = @ + 1]
        /\ UNCHANGED <<documents, failures, released, holders, releasing, after, loads>>
     \/ ~TriesAgain(p) /\ LoadFails(p)

LoadRetriesUnheard(p) ==  \* mutant: the retry does not settle the load
  /\ loading[p].state = "backoff"
  /\ SD!StartAcquire(Session(p))
  /\ UNCHANGED mapVars
(* acquireDelayMs has passed.                                              *)
LoadRetries(p) ==
  /\ loading[p].state = "backoff"
  /\ SD!StartAcquire(Session(p))
  /\ loading' = [loading EXCEPT ![p].state = "acquiring"]
  /\ UNCHANGED <<documents, failures, released, holders, releasing, after, loads>>

(* A request error fails the load once the request layer gives up.         *)
RequestFails(d) ==
  /\ SD!AttemptFails(d) \/ SD!RequestUnavailable(d)
  /\ IF phase[d] = "acquiring" /\ phase'[d] = "idle" THEN LoadFails(d[1])
     ELSE UNCHANGED mapVars

(* A step of a document that no map follows.                               *)
RecordStep(d) ==
  \/ SD!ClaimLands(d)
  \/ SD!WriteLands(d) \/ SD!WriteCancelled(d) \/ SD!WriteAnswered(d) \/ SD!WriteRefused(d)
DocumentStep(d) == (RecordStep(d) \/ SD!HeartbeatFires(d)) /\ UNCHANGED mapVars

(* The game writes through a document it was handed.                       *)
DocumentCall(d) ==
  /\ SD!Save(d) \/ \E v \in Values : SD!Stage(d, v)
  /\ UNCHANGED mapVars

(* document.release(), called by the game: the maps are not told.          *)
ReleaseDocument(d) == SD!Release(d) /\ UNCHANGED mapVars

-----------------------------------------------------------------------------
(* A server dies; its players load no more.                                *)
Crash(s) ==
  LET gone == {p \in Players : ServerOf[p] = s}
      without(map, none) == [p \in Players |-> IF p \in gone THEN none ELSE map[p]]
  IN
  /\ SD!Crash(s)
  /\ documents' = without(documents, NoOne)
  /\ loading' = without(loading, NotLoading)
  /\ failures' = failures \ gone
  /\ released' = released \ gone
  /\ holders' = [holders EXCEPT ![s] = NoOne]
  /\ releasing' = [releasing EXCEPT ![s] = NoRef]
  /\ after' = without(after, 0)
  /\ loads' = without(loads, MaxLoads)

Fault ==
  \/ \E d \in Sessions : RequestFails(d)
  \/ \E s \in Servers : Crash(s)
  \/ SD!Remove /\ UNCHANGED mapVars
  \/ \E shape \in ForeignShapes : SD!ClaimByOutsider(shape) /\ UNCHANGED mapVars

Tick == SD!Tick /\ UNCHANGED mapVars

-----------------------------------------------------------------------------
(* What the game keeps to.  It lets a document.release() finish before it  *)
(* loads that player again; and a player whose load is in flight is        *)
(* released once, and a second time (they leave) only when the next player *)
(* of their key is loading.                                                *)
Patient(p) ==
  documents[p] # NoOne /\ phase[documents[p]] = "closed" => ~SD!Live(documents[p])
Once(p) ==
  \/ after[p] = 0
  \/ after[p] = 1 /\ holders[ServerOf[p]] \notin {p, NoOne}

LoadStep(p) == LoadOpens(p) \/ LoadRefused(p) \/ LoadRetries(p)
Progress ==
  \/ \E p \in Players : LoadStep(p) \/ ForgetReleased(p)
  \/ \E d \in Sessions : DocumentStep(d)
Calls == \E d \in Sessions : DocumentCall(d) \/ ReleaseDocument(d)

Next ==
  \/ Continue
  \/ /\ Settled
     /\ \/ Progress
        \/ \E p \in Players : Patient(p) /\ (Load(p) \/ WaitFor(p))
        \/ \E p \in Players : Once(p) /\ Release(p)
        \/ Calls
        \/ Fault
        \/ Tick

(* Every request is answered, an answer or an error; delays elapse; what a *)
(* settled promise continues runs.  Strong fairness, because Continue holds*)
(* everything else for the moment it runs and a heartbeat may let it run   *)
(* again and again.                                                        *)
FairNext ==
  /\ WF_vars(Continue)
  /\ SF_vars(Settled /\ Tick)
  /\ \A p \in Players : SF_vars(Settled /\ LoadStep(p))
RequestStep(d) == RecordStep(d) /\ UNCHANGED mapVars
Fairness ==
  FairNext /\ \A d \in Sessions : SF_vars(Settled /\ (RequestStep(d) \/ RequestFails(d)))

Spec == Init /\ [][Next]_vars
FairSpec == Spec /\ Fairness

-----------------------------------------------------------------------------
(* Properties.                                                             *)

Refs == {NoRef} \cup ({"load"} \X Players \X (1 .. 2)) \cup ({"doc"} \X Sessions)

(* The maps hold what their declarations say.                              *)
TypeOK ==
  /\ documents \in [Players -> Sessions \cup {NoOne}]
  /\ loading \in [Players -> [state: {"none", "waiting", "acquiring", "backoff"},
                             on: Refs, tries: 0 .. AcquireAttempts]]
  /\ failures \subseteq Players
  /\ released \subseteq Players
  /\ holders \in [Servers -> Players \cup {NoOne}]
  /\ releasing \in [Servers -> Refs]
  /\ after \in [Players -> 0 .. 2]
  /\ loads \in [Players -> 0 .. MaxLoads]

(* player-store.ts:356-363: however its players join, leave and rejoin, a  *)
(* server never claims the key while a session of its own can still write  *)
(* it.  Documents opened through the store are thus documents as           *)
(* StoreDocument describes them, and what is shown there holds here.       *)
DocumentSpec == SD!Spec

(* An open document is one its server can still end: p's entry in          *)
(* `documents` is d, so that p's leaving, the next player's load or        *)
(* releaseAll finds it, or a release of it is already queued.              *)
NoOrphan ==
  \A d \in Sessions : phase[d] = "open" =>
    documents[d[1]] = d \/ \E i \in DOMAIN queue[d] : queue[d][i] = "release"

(* StoreDocument's invariant, for the sessions the maps let open.          *)
DocumentInv == SD!LockInv

(* docs/stores.md:168, "nothing the old one held can land on top of the new *)
(* one's saves": what an open session was told is saved stays saved.        *)
SavesStay == SD!AckedIsStored

(* A load settles: no two players of a server wait on each other, and no   *)
(* load waits on a release nobody runs.                                    *)
LoadSettles == \A p \in Players : Loading(p) ~> ~Loading(p)

(* A player who left, mid-load or not, does not keep the lock: it is       *)
(* released, taken, or lapses, unless the player loads again.              *)
DepartedLockGoes ==
  \A d \in Sessions : d[1] \in released /\ holder = d ~>
    holder # d \/ SD!Lapsed \/ loads[d[1]] > d[2]

(* Neither a player who waits nor one who has left keeps others waiting.   *)
NobodyWaitsForever == LoadSettles /\ DepartedLockGoes
=============================================================================
