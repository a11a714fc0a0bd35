---------------------------- MODULE MCWatchBuild ----------------------------
(* A client module app that may import `lib', which is thing, of no known  *)
(* kind, or else other in the directory folder; thing may import the       *)
(* server module back.                                                     *)
EXTENDS WatchBuild, TLC
CONSTANTS app, thing, other, back, folder,
  MaxEvents   \* bound: edits of the user and kills
VARIABLE events    \* how many there were

MCFiles == {app, thing, other, back}
MCDirectories == {folder}
MCUnder == folder :> {other}
MCRank == app :> 1 @@ thing :> 2 @@ other :> 3 @@ back :> 4
MCKindOf == app :> "client" @@ thing :> "unknown" @@ other :> "shared" @@ back :> "server"
MCCandidates == "lib" :> <<thing, other>> @@ "srv" :> <<back>>

Plain == [parses |-> TRUE, defines |-> {}, loads |-> {}, types |-> {},
          schemas |-> {}, breaks |-> FALSE]
Uses == [Plain EXCEPT !.loads = {"lib"}, !.schemas = {"lib"}]
Typed == [Plain EXCEPT !.types = {"lib"}]
Broken == [Plain EXCEPT !.parses = FALSE]
Signals == [Plain EXCEPT !.defines = {"signal"}]
Reaches == [Plain EXCEPT !.loads = {"srv"}]
BadStore == [Plain EXCEPT !.defines = {"store"}, !.breaks = TRUE]
MCContents == {Plain, Uses, Typed, Broken, Signals, Reaches, BadStore}

(* What the user may put in each file.                                     *)
Texts == app :> {Uses, Typed, Broken} @@ thing :> {Unreadable, Signals, Reaches}
         @@ other :> {Unreadable, Plain, BadStore}
MCKept == "bare" :> "kept" @@ "kept" :> "kept" @@ "own" :> "own"

MCInit == Init /\ events = 0 /\ tsconfig = "bare"
          /\ disk = app :> Uses @@ thing :> Unreadable @@ other :> Plain @@ back :> Plain
MCUser ==
  \/ \E f \in DOMAIN Texts : \E c \in Texts[f] : EditFile(f, c)
  \/ \E c \in Texts[other] : Move(folder, other :> c)
  \/ \E t \in Tsconfigs : EditTsconfig(t)
  \/ Kill
MCNext ==
  \/ (Loop \/ Start) /\ UNCHANGED events
  \/ events < MaxEvents /\ events' = events + 1 /\ MCUser
MCSpec == MCInit /\ [][MCNext]_<<vars, events>> /\ WF_vars(Loop)
=============================================================================
