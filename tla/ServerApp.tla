----------------------------- MODULE ServerApp ------------------------------
(***************************************************************************)
(* The server app of server-app.ts (`createServerApp`): how joins, leaves, *)
(* the boot backfill, shutdown and dispose drive each player's session and *)
(* owned stores.  The game's hooks run on the thread of the handler that   *)
(* calls them and may yield, so handlers overlap.                          *)
(*                                                                         *)
(* A store is what a server app sees of PlayerStore: per player a document *)
(* that loads, is open, and is released; a player who rejoins is another   *)
(* Player.  A release during a load waits for it, and of several only the  *)
(* first has a document to write.                                          *)
(***************************************************************************)
EXTENDS Integers, Sequences, FiniteSets

CONSTANTS Players, Stores

VARIABLES
  there,     \* there[p]: whether p is in the server, as the engine knows
  boot,      \* how far createServerApp is
  backfill,  \* players of the boot snapshot not handled to the end yet
  joining,   \* joining[p]: how far p's join handler is
  leaving,   \* leaving[p]: how far p's leave handler is
  sessions,  \* players with a session
  departed,  \* players the registry remembers as gone
  late,      \* late[p]: what of p's join came after their leave was handled:
             \* nothing, the session alone, or all of it
  doc,       \* doc[s][p]: p's document
  waiting,   \* waiting[s][p]: releases that wait for the load
  writing,   \* writing[s][p]: the release's write is in flight
  reports,   \* reports[p]: calls of onStoresReady for p
  close,     \* how far BindToClose's callback is
  awaited,   \* awaited[s][p]: what the callback waits for: no, load or write
  held       \* held[s][p]: when the callback ran, the document was held, or
             \* had a release under way, or neither

storeVars == <<doc, waiting, writing>>
closeVars == <<close, awaited, held>>
vars == <<there, boot, backfill, joining, leaving, sessions, departed, late, storeVars, reports, closeVars>>

Everywhere(x) == [s \in Stores |-> [p \in Players |-> x]]

Init ==
  /\ there \in [Players -> {"away", "here"}]
  /\ boot = "no" /\ backfill = {}
  /\ joining = [p \in Players |-> "no"] /\ leaving = [p \in Players |-> "no"]
  /\ sessions = {} /\ departed = {} /\ late = [p \in Players |-> "no"]
  /\ doc = Everywhere("none") /\ waiting = Everywhere(0)
  /\ writing = Everywhere(FALSE)
  /\ reports = [p \in Players |-> 0]
  /\ close = "no" /\ awaited = Everywhere("no") /\ held = Everywhere("no")

ConnectedOnceBooted == boot \in {"ready", "failed"}  \* mutant: joins are connected to after the backfill
(* createServerApp has connected to joins and leaves.                      *)
Connected == boot \in {"backfill", "ready", "failed"}
Running == close \notin {"over", "cut"}

-----------------------------------------------------------------------------
(* The stores.                                                             *)

(* load(p) of every store: a document already open or loading is kept, and *)
(* a load that throws at once starts none.                                 *)
LoadAll(p, throwing) ==
  doc' = [s \in Stores |-> [doc[s] EXCEPT ![p] =
            IF @ = "none" /\ s \notin throwing THEN "loading" ELSE @]]

(* release(p) of a set of <<store, player>>.                               *)
ReleaseThe(S) ==
  /\ waiting' = [s \in Stores |-> [p \in Players |->
       IF <<s, p>> \in S /\ doc[s][p] = "loading" THEN waiting[s][p] + 1 ELSE waiting[s][p]]]
  /\ writing' = [s \in Stores |-> [p \in Players |->
       writing[s][p] \/ (<<s, p>> \in S /\ doc[s][p] = "open")]]
  /\ doc' = [s \in Stores |-> [p \in Players |->
       IF <<s, p>> \in S /\ doc[s][p] = "open" THEN "none" ELSE doc[s][p]]]

(* onStoresReady, once every load of the join has settled, one way or the  *)
(* other.                                                                  *)
AllFulfilled(p, settled) == \A s \in Stores \ {settled} : doc[s][p] = "open"  \* mutant: a failed load rejects the others' report
AllSettled(p, settled) == \A s \in Stores \ {settled} : doc[s][p] # "loading"
Report(p, settled) ==
  reports' = IF AllSettled(p, settled) THEN [reports EXCEPT ![p] = @ + 1] ELSE reports

(* A load settles; a release that waited for it takes the document.        *)
LoadEnds(s, p, ok) ==
  /\ Running /\ doc[s][p] = "loading"
  /\ doc' = [doc EXCEPT ![s][p] = IF ok /\ waiting[s][p] = 0 THEN "open" ELSE "none"]
  /\ writing' = [writing EXCEPT ![s][p] = ok /\ waiting[s][p] > 0]
  /\ waiting' = [waiting EXCEPT ![s][p] = 0]
  /\ awaited' = [awaited EXCEPT ![s][p] =
                   IF @ = "load" \/ (~ok /\ waiting[s][p] > 0) THEN "no" ELSE @]
  /\ Report(p, s)
  /\ UNCHANGED <<there, boot, backfill, joining, leaving, sessions, departed, late, close, held>>

WriteEnds(s, p) ==
  /\ Running /\ writing[s][p]
  /\ writing' = [writing EXCEPT ![s][p] = FALSE]
  /\ awaited' = [awaited EXCEPT ![s][p] = IF @ = "write" THEN "no" ELSE @]
  /\ UNCHANGED <<there, boot, backfill, joining, leaving, sessions, departed, late, doc, waiting, reports, close, held>>

-----------------------------------------------------------------------------
(* Joins.                                                                  *)

(* handlePlayerAdded up to the session factory, which may yield: loads are *)
(* started and not waited on.                                              *)
Added(p, throwing) ==
  /\ departed' = departed \ {p}
  /\ LoadAll(p, throwing)
  /\ joining' = [joining EXCEPT ![p] = "factory"]
  /\ late' = [late EXCEPT ![p] = IF leaving[p] = "done" THEN "join" ELSE @]
  /\ reports' = IF Stores \subseteq throwing THEN [reports EXCEPT ![p] = @ + 1] ELSE reports

(* A player joins; PlayerAdded fires, if the app is connected to it.       *)
Join(p, throwing) ==
  /\ Running /\ there[p] = "away"
  /\ there' = [there EXCEPT ![p] = "here"]
  /\ IF Connected THEN Added(p, throwing)
     ELSE UNCHANGED <<departed, doc, joining, late, reports>>
  /\ UNCHANGED <<boot, backfill, leaving, sessions, waiting, writing, closeVars>>

(* The session factory returns, or throws: that ends the handler, and the  *)
(* boot with it if the backfill called it.                                 *)
SessionMade(p, threw) ==
  /\ Running /\ joining[p] = "factory"
  /\ joining' = [joining EXCEPT ![p] = IF threw THEN "over" ELSE "hook"]
  /\ sessions' = IF threw THEN sessions ELSE sessions \cup {p}
  /\ late' = [late EXCEPT ![p] = IF leaving[p] = "done" /\ @ = "no" THEN "session" ELSE @]
  /\ boot' = IF threw /\ p \in backfill THEN "failed" ELSE boot
  /\ UNCHANGED <<there, backfill, leaving, departed, storeVars, reports, closeVars>>

(* onPlayerAdded returns, or throws.                                       *)
JoinHookEnds(p) ==
  /\ Running /\ joining[p] = "hook"
  /\ joining' = [joining EXCEPT ![p] = "over"]
  /\ backfill' = backfill \ {p}
  /\ UNCHANGED <<there, boot, leaving, sessions, departed, late, storeVars, reports, closeVars>>

(* createServerApp connects to joins and leaves, then lists who is here.   *)
Boot ==
  /\ Running
  /\ boot = "no" /\ boot' = "backfill"
  /\ backfill' = {p \in Players : there[p] = "here"}
  /\ UNCHANGED <<there, joining, leaving, sessions, departed, late, storeVars, reports, closeVars>>

(* The backfill calls the handlers one by one; nothing else runs but while *)
(* the game's code in one of them yields.                                  *)
Backfilling == boot = "backfill"
BackfillWaits == \E p \in backfill : joining[p] \in {"factory", "hook"}

(* The next player of the snapshot is handled, here or gone meanwhile.     *)
BackfillNext(p, throwing) ==
  /\ Running /\ Backfilling /\ ~BackfillWaits
  /\ p \in backfill /\ joining[p] = "no"
  /\ Added(p, throwing)
  /\ UNCHANGED <<there, boot, backfill, leaving, sessions, waiting, writing, closeVars>>

Booted ==
  /\ Running /\ Backfilling /\ backfill = {}
  /\ boot' = "ready"
  /\ UNCHANGED <<there, backfill, joining, leaving, sessions, departed, late, storeVars, reports, closeVars>>

-----------------------------------------------------------------------------
(* Leaves.                                                                 *)

(* A player leaves: onPlayerRemoving is called first, if the app is        *)
(* connected.                                                              *)
Leave(p) ==
  /\ Running /\ there[p] = "here"
  /\ there' = [there EXCEPT ![p] = "left"]
  /\ leaving' = IF Connected THEN [leaving EXCEPT ![p] = "hook"] ELSE leaving
  /\ UNCHANGED <<boot, backfill, joining, sessions, departed, late, storeVars, reports, closeVars>>

RemovedIfOpen(p) ==  \* mutant: a document still loading is not released
  /\ Running /\ leaving[p] = "hook"
  /\ leaving' = [leaving EXCEPT ![p] = "done"]
  /\ ReleaseThe({<<s, p>> : s \in {t \in Stores : doc[t][p] = "open"}})
  /\ sessions' = sessions \ {p}
  /\ departed' = departed \cup {p}
  /\ UNCHANGED <<there, boot, backfill, joining, late, reports, closeVars>>
(* onPlayerRemoving returns, or throws: every store releases, and session, *)
(* budget, keys and subscriptions go.                                      *)
Removed(p) ==
  /\ Running /\ leaving[p] = "hook"
  /\ leaving' = [leaving EXCEPT ![p] = "done"]
  /\ ReleaseThe({<<s, p>> : s \in Stores})
  /\ sessions' = sessions \ {p}
  /\ departed' = departed \cup {p}
  /\ UNCHANGED <<there, boot, backfill, joining, late, reports, closeVars>>

-----------------------------------------------------------------------------
(* Shutdown.                                                               *)

Documents(what) == {sp \in Stores \X Players : doc[sp[1]][sp[2]] \in what}

(* releaseAll of the documents found, and what each release promises: the  *)
(* first of a document, its write; a later one, only the load.             *)
CloseWith(found) ==
  /\ Running /\ boot = "ready" /\ close = "no"
  /\ close' = "waiting"
  /\ ReleaseThe(found)
  /\ awaited' = [s \in Stores |-> [p \in Players |->
       IF <<s, p>> \notin found THEN "no" ELSE IF waiting[s][p] > 0 THEN "load" ELSE "write"]]
  /\ held' = [s \in Stores |-> [p \in Players |->
       IF writing[s][p] \/ waiting[s][p] > 0 THEN "released"
       ELSE IF doc[s][p] # "none" THEN "held" ELSE "no"]]
  /\ UNCHANGED <<there, boot, backfill, joining, leaving, sessions, departed, late, reports>>

CloseOpenOnly == CloseWith(Documents({"open"}))  \* mutant: releaseAll looks at open documents only
(* BindToClose.                                                            *)
Close == CloseWith(Documents({"open", "loading"}))

(* The callback returns once all it waits for has settled, and the server  *)
(* ends; what is still in flight then may be lost.                         *)
Closed ==
  /\ close = "waiting" /\ awaited = Everywhere("no")
  /\ close' = "over"
  /\ UNCHANGED <<there, boot, backfill, joining, leaving, sessions, departed, late, storeVars, reports, awaited, held>>

(* 20 seconds went by: the callback returns, and the server ends with      *)
(* documents still locked.                                                 *)
GiveUp ==
  /\ close = "waiting" /\ awaited # Everywhere("no")
  /\ close' = "cut"
  /\ awaited' = Everywhere("no") /\ held' = Everywhere("no")
  /\ UNCHANGED <<there, boot, backfill, joining, leaving, sessions, departed, late, storeVars, reports>>

Step ==
  \/ \E p \in Players, throwing \in SUBSET Stores : BackfillNext(p, throwing)
  \/ Booted
  \/ \E p \in Players : JoinHookEnds(p) \/ \E threw \in BOOLEAN : SessionMade(p, threw)
  \/ /\ Backfilling => BackfillWaits
     /\ \/ \E p \in Players, throwing \in SUBSET Stores : Join(p, throwing)
        \/ \E p \in Players : Leave(p) \/ Removed(p)
        \/ \E s \in Stores, p \in Players : WriteEnds(s, p) \/ \E ok \in BOOLEAN : LoadEnds(s, p, ok)
        \/ Boot \/ Close
  \/ Closed \/ GiveUp
Next == Step
Spec == Init /\ [][Next]_vars

(* The threads of createServerApp and of each handler run on, and a store's *)
(* requests for a player are answered.                                     *)
Fairness ==
  /\ WF_vars(Booted \/ \E p \in Players, throwing \in SUBSET Stores : BackfillNext(p, throwing))
  /\ \A p \in Players :
       /\ WF_vars(JoinHookEnds(p) \/ \E threw \in BOOLEAN : SessionMade(p, threw))
       /\ WF_vars(Removed(p))
  /\ \A s \in Stores, p \in Players :
       WF_vars(WriteEnds(s, p) \/ \E ok \in BOOLEAN : LoadEnds(s, p, ok))
FairSpec == Spec /\ Fairness

-----------------------------------------------------------------------------
TypeOK ==
  /\ there \in [Players -> {"away", "here", "left"}]
  /\ boot \in {"no", "backfill", "ready", "failed"} /\ backfill \subseteq Players
  /\ joining \in [Players -> {"no", "factory", "hook", "over"}]
  /\ leaving \in [Players -> {"no", "hook", "done"}]
  /\ sessions \subseteq Players /\ departed \subseteq Players
  /\ late \in [Players -> {"no", "session", "join"}]
  /\ doc \in [Stores -> [Players -> {"none", "loading", "open"}]]
  /\ waiting \in [Stores -> [Players -> Nat]]
  /\ writing \in [Stores -> [Players -> BOOLEAN]]
  /\ reports \in [Players -> 0 .. 1]
  /\ close \in {"no", "waiting", "over", "cut"}
  /\ awaited \in [Stores -> [Players -> {"no", "load", "write"}]]
  /\ held \in [Stores -> [Players -> {"no", "released", "held"}]]

(* Once a player who left is handled, nothing of theirs is left behind: no *)
(* document is open or will stay so when its load lands, no session is     *)
(* kept, and the registry refuses them (server-app.ts:253-255, 526-576).   *)
(* But a join, or a session, that yielding game code lets come after the   *)
(* leave is never taken back.                                              *)
NothingLeftBehind ==
  \A p \in Players : there[p] = "left" /\ leaving[p] # "hook" =>
    /\ late[p] # "join" =>
         /\ \A s \in Stores : doc[s][p] # "open" /\ (doc[s][p] = "loading" => waiting[s][p] > 0)
         /\ leaving[p] = "done" => p \in departed
    /\ late[p] = "no" => p \notin sessions

(* A booted app has begun to handle the join of everyone in the server,    *)
(* though they came before the boot, while it yielded or after it          *)
(* (server-app.ts:592-626).                                                *)
NobodyMissed ==
  boot = "ready" => \A p \in Players : there[p] = "here" => joining[p] # "no"

(* While onPlayerRemoving runs its player's documents are still there to   *)
(* be written, unless the server shuts down (server-app.ts:559-570).       *)
HookWritesAreFlushed ==
  close = "no" => \A p \in Players : leaving[p] = "hook" =>
    \A s \in Stores : ~writing[s][p] /\ waiting[s][p] = 0

(* When BindToClose's callback returns before its deadline, every document *)
(* the app still held has been released and written, one whose load was in *)
(* flight included (server-app.ts:629-651; player-store.ts:892-908).       *)
FlushedAtClose ==
  close = "over" => \A s \in Stores, p \in Players :
    held[s][p] = "held" => doc[s][p] = "none" /\ ~writing[s][p]

(* As documented, nothing the stores had not stored when the callback ran  *)
(* is still unstored when it returns early (player-store.ts:197-198).      *)
ShutdownWaits ==
  close = "over" => \A s \in Stores, p \in Players :
    held[s][p] # "no" => doc[s][p] = "none" /\ ~writing[s][p]

(* Every join is reported once its loads have settled, be it that they all *)
(* failed, that the session factory threw or that the player has left      *)
(* meanwhile (server-app.ts:533-548).                                      *)
Announced(p) == joining[p] # "no" => reports[p] = 1

(* A player who leaves is released for good, whatever was under way then,  *)
(* but for a join that comes after the leave (server-app.ts:559-576).      *)
LetGo(p) ==
  there[p] = "left" => late[p] = "join" \/ \A s \in Stores : doc[s][p] = "none" /\ ~writing[s][p]

(* Whoever comes is announced and whoever goes is let go, unless the       *)
(* server shuts down first.                                                *)
PlayersAreSeenThrough ==
  \A p \in Players :
    joining[p] # "no" \/ there[p] = "left" ~> ~Running \/ (Announced(p) /\ LetGo(p))
=============================================================================
