----------------------------- MODULE WatchBuild -----------------------------
(***************************************************************************)
(* `aruna build --watch' (cli.ts runWatchSession, watch.ts): a first pass, *)
(* then a watcher of the project whose reports, debounced, start further   *)
(* passes; each pass runs the compiler session, the contract gate, and the *)
(* ledger of generated files (owned-artifacts.ts).  The user edits at any  *)
(* moment, and may end the process at any moment and start it again.       *)
(***************************************************************************)
EXTENDS CompilerSession

CONSTANTS
  Tsconfigs,     \* what tsconfig.json can hold
  Kept,          \* what the upkeep makes of each
  Hasty,         \* what users do that the loop is not ready for, see Edit
  Nothing        \* no value: not written, not built, no ledger

Tsconfig == "tsconfig.json"
Generated == "generated"      \* any path under generatedDir
Artifacts == {"actions", "signal", "resource"}

ASSUME WatchAssumption ==
  /\ Kept \in [Tsconfigs -> Tsconfigs] /\ Nothing \notin Tsconfigs
  /\ \A t \in Tsconfigs : Kept[Kept[t]] = Kept[t]
  /\ Hasty \subseteq {"early", "put back", "revert"}
  /\ {Tsconfig, Generated} \cap (Files \cup Directories) = {}
  /\ \A made \in SUBSET Artifacts : Nothing # made

VARIABLES
  tsconfig,      \* tsconfig.json on disk
  tsconfigWrite, \* what the upkeep last wrote there
  watching,      \* the watcher is up
  reports,       \* changes the operating system has yet to report
  pendingChanges,
  timerArmed, running, rerunQueued,      \* the rebuild scheduler
  pass,          \* where the pass is
  artifacts,     \* generated files on disk
  ledger,        \* what .aruna-build.json lists, or Nothing
  unlisted,      \* history: artifacts on disk that no ledger came to list
  filtered       \* the watcher leaves out the tree that is written

loopVars == <<watching, reports, pendingChanges, timerArmed, running, rerunQueued>>
buildVars == <<artifacts, ledger, unlisted, filtered>>
vars == <<disk, output, sessionVars, tsconfig, tsconfigWrite, loopVars, pass,
          buildVars>>

Init ==
  /\ disk \in [Files -> Contents \cup {Unreadable}] /\ tsconfig \in Tsconfigs
  /\ files = Unwalked /\ updates = {} /\ checking = "no" /\ input = Nothing
  /\ sources = << >> /\ discoveries = << >> /\ resolutions = << >>
  /\ output = Failed /\ tsconfigWrite = Nothing /\ watching = FALSE
  /\ reports = {} /\ pendingChanges = {}
  /\ timerArmed = FALSE /\ running = FALSE /\ rerunQueued = FALSE
  /\ pass = "down" /\ artifacts = {} /\ ledger = Nothing /\ unlisted = {}
  /\ filtered = TRUE

Changed(paths) == reports' = IF watching THEN reports \cup paths ELSE reports

-----------------------------------------------------------------------------
(* The tsconfig upkeep and the session created after it.                   *)
Upkeep ==
  /\ tsconfig' = Kept[tsconfig]
  /\ IF Kept[tsconfig] # tsconfig
     THEN tsconfigWrite' = Kept[tsconfig] /\ Changed({Tsconfig})
     ELSE UNCHANGED <<tsconfigWrite, reports>>
  /\ Created(tsconfig')

Start ==
  /\ pass = "down" /\ pass' = "check"
  /\ Upkeep
  /\ UNCHANGED <<disk, output, watching, pendingChanges, timerArmed, running,
                 rerunQueued, buildVars>>

(* The compiler's part of a pass.  A check that comes to a report writes   *)
(* the generated files, whatever it found.                                 *)
Check ==
  /\ pass = "check"
  /\ \/ (BeginCheck \/ Walk \/ ReadAll) /\ UNCHANGED pass
     \/ (ReadStops \/ ResolveStops) /\ pass' = "end"
  /\ UNCHANGED <<tsconfig, tsconfigWrite, loopVars, buildVars>>
CheckEnds ==
  /\ pass = "check" /\ ResolveAll /\ pass' = "gate"
  /\ artifacts' = artifacts \cup Emitted(output')
  /\ unlisted' = unlisted \cup (Emitted(output') \ artifacts)
  /\ Changed({Generated})
  /\ UNCHANGED <<tsconfig, tsconfigWrite, watching, pendingChanges, timerArmed,
                 running, rerunQueued, ledger, filtered>>

(* A build that failed, by the compiler or by the gate, is over here.      *)
BuildOk(r) == CheckOk(r) /\ ~GateFails(r)
Gate ==
  /\ pass = "gate" /\ pass' = IF BuildOk(output) THEN "prune" ELSE "end"
  /\ UNCHANGED <<disk, output, sessionVars, tsconfig, tsconfigWrite, loopVars,
                 buildVars>>

(* reconcileOwnedArtifacts: the files a previous build owned and this one  *)
(* did not emit go, one by one, and then the ledger is rewritten; while it *)
(* is, it cannot be read.                                                  *)
StaleSwapped ==   \* mutant: the difference taken the wrong way round
  IF ledger = Nothing THEN {} ELSE (Emitted(output) \ ledger) \cap artifacts
Stale == IF ledger = Nothing THEN {} ELSE (ledger \ Emitted(output)) \cap artifacts
Prune ==
  /\ pass = "prune"
  /\ IF Stale = {} THEN /\ pass' = "ledger" /\ ledger' = Nothing
                        /\ UNCHANGED <<artifacts, unlisted, reports>>
     ELSE \E a \in Stale : /\ artifacts' = artifacts \ {a}
                           /\ unlisted' = unlisted \ {a}
                           /\ Changed({Generated}) /\ UNCHANGED <<pass, ledger>>
  /\ UNCHANGED <<disk, output, sessionVars, tsconfig, tsconfigWrite, watching,
                 pendingChanges, timerArmed, running, rerunQueued, filtered>>
WriteLedger ==
  /\ pass = "ledger" /\ pass' = "end"
  /\ ledger' = Emitted(output) /\ unlisted' = unlisted \ Emitted(output)
  /\ Changed({Generated})
  /\ UNCHANGED <<disk, output, sessionVars, tsconfig, tsconfigWrite, watching,
                 pendingChanges, timerArmed, running, rerunQueued, artifacts,
                 filtered>>

(* Where the output goes is read off the first one; an internal error has  *)
(* no files, and the default is taken, whatever is configured.             *)
MayFilter(r) == IF r.failed THEN BOOLEAN ELSE {TRUE}

(* The end of a pass: the first one brings up the watcher, the others are  *)
(* the scheduler's, which starts the queued one.                           *)
EndOfPass ==
  /\ pass = "end"
  /\ IF watching
     THEN /\ running' = rerunQueued /\ rerunQueued' = FALSE
          /\ pass' = IF rerunQueued THEN "changed" ELSE "idle"
          /\ UNCHANGED filtered
     ELSE /\ pass' = "idle" /\ UNCHANGED <<running, rerunQueued>>
          /\ filtered' \in MayFilter(output)
  /\ watching' = TRUE
  /\ UNCHANGED <<disk, output, sessionVars, tsconfig, tsconfigWrite, reports,
                 pendingChanges, timerArmed, artifacts, ledger, unlisted>>

-----------------------------------------------------------------------------
(* The watcher: a report of a change outside the generated tree, and that  *)
(* is not the upkeep's own write of tsconfig.json, asks for a rebuild.     *)
AnyChangeRebuilds(p) == TRUE   \* mutant: the build's own writes count
ShouldRebuild(p) == p # Generated \/ ~filtered
IsOwnWrite(p) == p = Tsconfig /\ tsconfig = tsconfigWrite
Notified == timerArmed' = (timerArmed \/ ~rerunQueued)

Reported(p) ==
  /\ watching /\ pass # "changed" /\ p \in reports /\ reports' = reports \ {p}
  /\ IF ShouldRebuild(p) /\ ~IsOwnWrite(p)
     THEN pendingChanges' = pendingChanges \cup {p} /\ Notified
     ELSE UNCHANGED <<pendingChanges, timerArmed>>
  /\ UNCHANGED <<disk, output, sessionVars, tsconfig, tsconfigWrite, watching,
                 running, rerunQueued, pass, buildVars>>

(* The debounce timer: a rebuild, or one more after the one under way.     *)
Debounced ==
  /\ timerArmed /\ timerArmed' = FALSE /\ pass # "changed"
  /\ IF running THEN rerunQueued' = TRUE /\ UNCHANGED <<running, pass>>
     ELSE running' = TRUE /\ pass' = "changed" /\ UNCHANGED rerunQueued
  /\ UNCHANGED <<disk, output, sessionVars, tsconfig, tsconfigWrite, watching,
                 reports, pendingChanges, buildVars>>

(* A rebuild takes what was reported: to the session, or, when the         *)
(* compiler's own input is among it, into a new one.                       *)
NeedsNewSession(paths) == Tsconfig \in paths
TakeChanges ==
  /\ pass = "changed" /\ pass' = "check" /\ pendingChanges' = {}
  /\ IF NeedsNewSession(pendingChanges) THEN Upkeep
     ELSE /\ updates' = updates \cup pendingChanges
          /\ UNCHANGED <<files, sources, discoveries, resolutions, checking,
                         input, tsconfig, tsconfigWrite, reports>>
  /\ UNCHANGED <<disk, output, watching, timerArmed, running, rerunQueued,
                 buildVars>>

-----------------------------------------------------------------------------
(* The user: a file written, added or removed; a directory moved, in or    *)
(* out, which is reported as a change of the directory; tsconfig.json      *)
(* written.  Three habits the loop is not made for are set by Hasty:       *)
(* editing before the watcher is up, putting a file back while the session *)
(* has resolutions from when it was there, writing tsconfig.json back to   *)
(* what the upkeep had written there.                                      *)
Ready == pass = "down" \/ watching \/ "early" \in Hasty
Forgotten(f) == \A g \in DOMAIN resolutions : f \notin resolutions[g].under
Edit(fs, text, path) ==
  /\ Ready /\ \E f \in fs : disk[f] # text[f]
  /\ \/ "put back" \in Hasty
     \/ \A f \in fs : disk[f] = Unreadable /\ text[f] # Unreadable => Forgotten(f)
  /\ disk' = [f \in Files |-> IF f \in fs THEN text[f] ELSE disk[f]]
  /\ Changed({path})
  /\ UNCHANGED <<output, sessionVars, tsconfig, tsconfigWrite, watching,
                 pendingChanges, timerArmed, running, rerunQueued, pass, buildVars>>
EditFile(f, c) == Edit({f}, [g \in {f} |-> c], f)
Move(d, text) == Edit(Under[d], text, d)
EditTsconfig(t) ==
  /\ Ready /\ t # tsconfig /\ ("revert" \in Hasty \/ t # tsconfigWrite)
  /\ tsconfig' = t /\ Changed({Tsconfig})
  /\ UNCHANGED <<disk, output, sessionVars, tsconfigWrite, watching,
                 pendingChanges, timerArmed, running, rerunQueued, pass, buildVars>>

(* The process ends; what is on disk stays.                                *)
Kill ==
  /\ pass # "down" /\ pass' = "down"
  /\ watching' = FALSE /\ reports' = {} /\ pendingChanges' = {}
  /\ timerArmed' = FALSE /\ running' = FALSE /\ rerunQueued' = FALSE
  /\ tsconfigWrite' = Nothing /\ output' = Failed /\ Created(Nothing)
  /\ unlisted' = IF ledger = Nothing THEN artifacts ELSE unlisted
  /\ filtered' = TRUE
  /\ UNCHANGED <<disk, tsconfig, artifacts, ledger>>

Loop ==
  \/ Check \/ CheckEnds \/ Gate \/ Prune \/ WriteLedger \/ EndOfPass
  \/ Debounced \/ TakeChanges \/ \E p \in reports : Reported(p)

User ==
  \/ \E f \in Files, c \in Contents \cup {Unreadable} : EditFile(f, c)
  \/ \E d \in Directories : \E text \in [Under[d] -> Contents \cup {Unreadable}] :
       Move(d, text)
  \/ \E t \in Tsconfigs : EditTsconfig(t)
  \/ Kill
Next == Loop \/ Start \/ User
Spec == Init /\ [][Next]_vars /\ WF_vars(Loop)

-----------------------------------------------------------------------------
TypeOK ==
  /\ disk \in [Files -> Contents \cup {Unreadable}]
  /\ tsconfig \in Tsconfigs /\ {tsconfigWrite, input} \subseteq Tsconfigs \cup {Nothing}
  /\ files = Unwalked \/ files \subseteq Files
  /\ DOMAIN sources \cup DOMAIN discoveries \cup DOMAIN resolutions \subseteq Files
  /\ \A f \in DOMAIN sources : sources[f] \in Contents \cup {Unreadable}
  /\ updates \cup pendingChanges \cup reports
       \subseteq Files \cup Directories \cup {Tsconfig, Generated}
  /\ checking \in {"no", "walk", "read", "resolve"}
  /\ {watching, timerArmed, running, rerunQueued, filtered} \subseteq BOOLEAN
  /\ pass \in {"down", "idle", "changed", "check", "gate", "prune", "ledger", "end"}
  /\ unlisted \subseteq artifacts /\ artifacts \subseteq Artifacts
  /\ ledger = Nothing \/ ledger \subseteq Artifacts

Quiet == pass = "idle" /\ reports = {} /\ ~timerArmed

(* When nothing is left to do, the last output is the one a clean check of *)
(* the project would give, with the tsconfig the project has: the caches   *)
(* of texts, discoveries and resolutions, the edits that came while a      *)
(* check ran, and the sharing of one rebuild by several reports lose       *)
(* nothing (session.rs:8-11, watch.ts:64-67).                              *)
OutputIsClean ==
  Quiet => /\ pendingChanges = {}
           /\ output = CleanCheck(disk, Kept[tsconfig])

(* A build that passes replicates no path from client to server code: no   *)
(* module for one side loads one for the other, through whatever modules   *)
(* (rules.rs:29-60).                                                       *)
Loads(r) ==
  LET at[n \in 0 .. Cardinality(r.files)] ==
        IF n = 0 THEN Edges(r)
        ELSE at[n-1] \cup {<<p[1][1], p[2][2]>> : p \in
               {q \in at[n-1] \X Edges(r) : q[1][2] = q[2][1]}}
  IN  at[Cardinality(r.files)]
Side(r, f) == NormalKind(ModuleKind(r, f))
PassedIsSafe ==
  pass \in {"prune", "ledger"} =>
    \A e \in Loads(output) :
      {Side(output, e[1]), Side(output, e[2])} # {"client", "server"}

(* After a build that passed, the generated directory holds what it        *)
(* emitted, and besides that only files of passes that failed or were      *)
(* killed before the ledger listed them (owned-artifacts.ts:127-130).      *)
NoStrays ==
  pass = "idle" /\ ~output.failed /\ BuildOk(output) =>
    artifacts \subseteq Emitted(output) \cup unlisted

(* When the edits stop, so does the loop: its own writes do not start it   *)
(* again (watch.ts:3-5, cli.ts:921-923).                                   *)
ComesToRest == []<>(pass = "down" \/ Quiet)
=============================================================================
