---------------------------- MODULE ToolingProofs ----------------------------
(***************************************************************************)
(* The tools around a project, for any parameters.                         *)
(*                                                                         *)
(* The watch loop: what the incremental session ends with is what a clean  *)
(* check of the project would give, a build that passes keeps client and   *)
(* server code apart, and every generated file is listed or known not to   *)
(* be.  The release orchestrator: wherever runs stop, what npm serves can  *)
(* be installed and is built from its version, and a run that succeeds has *)
(* shipped.                                                                *)
(***************************************************************************)
EXTENDS WatchBuild, Release, WellFoundedInduction, FiniteSetTheorems, TLAPS

-----------------------------------------------------------------------------
(* The inductive invariant.                                                *)

Texts == Contents \cup {Unreadable}
Paths == Files \cup Directories

(* Changes of files that the session has yet to take, and the files whose  *)
(* texts they may have changed.                                            *)
Unseen == (updates \cup pendingChanges \cup reports) \cap Paths
Dirty == Dropped(Unseen)

(* What the session holds is what the disk holds, but for those.           *)
HeldTexts == \A f \in DOMAIN sources : sources[f] = disk[f] \/ f \in Dirty
HeldFiles ==
  files = Unwalked \/ \A f \in Files : (f \in files <=> f \in OnDisk) \/ f \in Dirty

(* Discoveries and resolutions were right when they were made; a file that *)
(* a resolution had to do without has not come back.                       *)
HeldDiscoveries ==
  \A f \in DOMAIN discoveries :
    /\ discoveries[f].of \in Contents
    /\ \E read \in [Files -> Texts] : discoveries[f].deps = Reads(discoveries[f].of, read)
HeldResolutions ==
  \A f \in DOMAIN resolutions :
    \E there \in SUBSET Files :
      /\ resolutions[f].to = Links(resolutions[f].of, resolutions[f].under, there)
      /\ resolutions[f].under \cap OnDisk \subseteq there

(* The check that is to resolve imports has read all that it discovered.   *)
HasRead(f) ==
  /\ f \in DOMAIN discoveries /\ f \in DOMAIN sources
  /\ discoveries[f].of = sources[f]
  /\ \A g \in DOMAIN discoveries[f].deps :
       g \in DOMAIN sources /\ discoveries[f].deps[g] = sources[g]
Discovered == checking = "resolve" => \A f \in Wanted : HasRead(f)

(* Where the check, the pass, the watcher and the scheduler stand to each  *)
(* other.                                                                  *)
Stages ==
  /\ pass # "check" => checking = "no" /\ updates = {}
  /\ checking # "no" => updates = {}
  /\ checking \in {"read", "resolve"} => files # Unwalked
Scheduled ==
  /\ pass = "down" => ~watching
  /\ ~watching => reports = {} /\ pendingChanges = {} /\ ~timerArmed
  /\ running => watching /\ pass # "idle"
  /\ watching /\ ~running => pass = "idle"
  /\ pass \in {"idle", "changed"} => watching
  /\ rerunQueued => running
  /\ pendingChanges # {} => timerArmed \/ rerunQueued \/ pass = "changed"

(* A session has the tsconfig there is, or hears of another; one that      *)
(* holds what the upkeep wrote is the upkeep's.                            *)
HasTsconfig ==
  /\ pass # "down" =>
       input = Kept[tsconfig] \/ Tsconfig \in reports \cup pendingChanges
  /\ tsconfig = tsconfigWrite => pass # "down" /\ input = tsconfig /\ Kept[tsconfig] = tsconfig

(* With no process there is no session.                                    *)
NoSession ==
  pass = "down" => /\ files = Unwalked /\ sources = << >>
                   /\ discoveries = << >> /\ resolutions = << >>

(* What the last check returned is right, or a change is to be built.      *)
LastOutput ==
  pass \in {"gate", "prune", "ledger", "end", "idle"} =>
    output = CleanCheck(disk, input) \/ Unseen # {}

(* In parts: what every loop keeps, and what takes a user who leaves those *)
(* three habits (Hasty).                                                   *)
TInv == TypeOK /\ HeldDiscoveries
BaseInv == TInv /\ Stages /\ Scheduled /\ NoSession
SessionHeld == HeldTexts /\ HeldFiles /\ HeldResolutions /\ Discovered
IInv == BaseInv /\ HasTsconfig /\ SessionHeld /\ LastOutput

(* Of the ledger and of the checks that passed.                            *)
OwnedInv ==
  /\ ledger # Nothing => artifacts \ unlisted \subseteq ledger
  /\ ledger = Nothing /\ pass # "ledger" => artifacts \subseteq unlisted
  /\ pass = "ledger" \/ (pass \in {"end", "idle"} /\ BuildOk(output)) =>
       artifacts \subseteq Emitted(output) \cup unlisted
PassedInv ==
  /\ pass \in {"prune", "ledger"} => BuildOk(output)
  /\ output.failed \/ output.files \subseteq Files

-----------------------------------------------------------------------------
(* Natural numbers: induction, by the least counterexample.                *)

LEMMA LeastByOrder ==
  ASSUME NEW R, IsWellFoundedOn(R, Nat),
         \A x, y \in Nat : x < y => <<x, y>> \in R,
         NEW T, T \subseteq Nat, T # {}
  PROVE  \E x \in T : \A y \in T : x <= y
<1>1. PICK x \in T : \A y \in T : ~ (<<y, x>> \in R)
  BY WFMin, ZenonT(90)
<1>2. ASSUME NEW y \in T PROVE x <= y
  <2>1. ~ (<<y, x>> \in R)
    BY <1>1
  <2>2. x \in Nat /\ y \in Nat
    OBVIOUS
  <2>3. y < x => <<y, x>> \in R
    BY <2>2
  <2> QED BY <2>1, <2>2, <2>3, SMT
<1> QED BY <1>2

LEMMA Least ==
  ASSUME NEW T, T \subseteq Nat, T # {}
  PROVE  \E x \in T : \A y \in T : x <= y
<1>1. \A x, y \in Nat : x < y => <<x, y>> \in OpToRel(<, Nat)
  BY DEF OpToRel
<1> QED BY <1>1, NatLessThanWellFounded, LeastByOrder

LEMMA AllNaturals ==
  ASSUME NEW T, 0 \in T, \A n \in Nat : n \in T => n + 1 \in T
  PROVE  Nat \subseteq T
<1> SUFFICES ASSUME Nat \ T # {} PROVE FALSE
  OBVIOUS
<1>1. PICK x \in Nat \ T : \A y \in Nat \ T : x <= y
  BY Least
<1>2. x # 0 /\ x - 1 \in Nat /\ ~(x <= x - 1)
  OBVIOUS
<1> QED BY <1>1, <1>2

-----------------------------------------------------------------------------
(* Schema imports: what was looked at decides what is looked at.           *)

LEMMA ConsultedFiles ==
  ASSUME NEW spec \in Specifiers, NEW there
  PROVE  Consulted(spec, there) \subseteq Files
<1>1. Candidates[spec] \in Seq(Files)
  BY GraphAssumption
<1>2. \A i \in DOMAIN Candidates[spec] : Candidates[spec][i] \in Files
  BY <1>1
<1> QED BY <1>2 DEF Consulted

LEMMA ConsultedSame ==
  ASSUME NEW spec \in Specifiers, NEW A, NEW B,
         \A g \in Consulted(spec, A) : g \in A <=> g \in B
  PROVE  Consulted(spec, A) = Consulted(spec, B)
<1> DEFINE C == Candidates[spec]
           Misses(j, there) == \A k \in 1 .. (j - 1) : C[k] \notin there
<1>1. C \in Seq(Files) /\ DOMAIN C = 1 .. Len(C) /\ Len(C) \in Nat
  <2>1. Candidates[spec] \in Seq(Files)
    BY GraphAssumption
  <2> QED BY <2>1
<1>2. Consulted(spec, A) = {C[i] : i \in {j \in DOMAIN C : Misses(j, A)}}
  BY DEF Consulted
<1>3. ASSUME NEW j \in DOMAIN C PROVE Misses(j, A) <=> Misses(j, B)
  <2>1. ASSUME Misses(j, A) PROVE Misses(j, B)
    <3> SUFFICES ASSUME NEW k \in 1 .. (j - 1) PROVE C[k] \notin B
      OBVIOUS
    <3>1. k \in DOMAIN C /\ Misses(k, A)
      BY <1>1, <2>1
    <3> QED BY <1>2, <2>1, <3>1
  <2>2. ASSUME Misses(j, B), ~Misses(j, A) PROVE FALSE
    <3> DEFINE T == {k \in 1 .. (j - 1) : C[k] \in A}
    <3>1. PICK k \in T : \A i \in T : k <= i
      <4>1. T \subseteq Nat /\ T # {}
        BY <1>1, <2>2
      <4> HIDE DEF T
      <4> QED BY <4>1, Least
    <3>2. k \in DOMAIN C /\ Misses(k, A) /\ C[k] \in A /\ C[k] \notin B
      BY <1>1, <2>2, <3>1
    <3> QED BY <1>2, <3>2
  <2> QED BY <2>1, <2>2
<1>4. {j \in DOMAIN C : Misses(j, A)} = {j \in DOMAIN C : Misses(j, B)}
  BY <1>3
<1> QED BY <1>4 DEF Consulted

LEMMA ReadsSame ==
  ASSUME NEW c \in Contents, NEW r \in [Files -> Texts], NEW q \in [Files -> Texts],
         \A g \in DOMAIN Reads(c, r) : Reads(c, r)[g] = q[g]
  PROVE  Reads(c, q) = Reads(c, r)
<1> DEFINE There(read) == {f \in Files : read[f] # Unreadable}
           Looked(read) == IF c.parses
                           THEN UNION {Consulted(s, There(read)) : s \in c.schemas} ELSE {}
<1>1. \A s \in c.schemas : s \in Specifiers
  BY GraphAssumption
<1>2. \A g \in Looked(r) : r[g] = q[g] /\ g \in Files
  <2>1. DOMAIN Reads(c, r) = Looked(r) /\ \A g \in Looked(r) : Reads(c, r)[g] = r[g]
    BY DEF Reads
  <2>2. Looked(r) \subseteq Files
    <3>1. \A s \in c.schemas : Consulted(s, There(r)) \subseteq Files
      BY <1>1, ConsultedFiles
    <3> HIDE DEF There
    <3> QED BY <3>1
  <2> HIDE DEF Looked
  <2> QED BY <2>1, <2>2
<1>3. ASSUME c.parses, NEW s \in c.schemas
      PROVE  Consulted(s, There(r)) = Consulted(s, There(q))
  <2>1. \A g \in Consulted(s, There(r)) : g \in There(r) <=> g \in There(q)
    BY <1>2, <1>3
  <2> HIDE DEF There
  <2> QED BY <1>1, <2>1, ConsultedSame
<1>4. Looked(r) = Looked(q)
  BY <1>3
<1>5. Reads(c, r) = [g \in Looked(r) |-> r[g]] /\ Reads(c, q) = [g \in Looked(q) |-> q[g]]
  BY DEF Reads
<1> HIDE DEF Looked
<1> QED BY <1>2, <1>4, <1>5

LEMMA ReadsType ==
  ASSUME NEW c \in Contents, NEW r \in [Files -> Texts]
  PROVE  /\ DOMAIN Reads(c, r) \subseteq Files
         /\ \A g \in DOMAIN Reads(c, r) : Reads(c, r)[g] = r[g]
<1> DEFINE there == {f \in Files : r[f] # Unreadable}
           looked == IF c.parses THEN UNION {Consulted(s, there) : s \in c.schemas} ELSE {}
<1>1. \A s \in c.schemas : Consulted(s, there) \subseteq Files
  <2>1. \A s \in c.schemas : s \in Specifiers
    BY GraphAssumption
  <2> HIDE DEF there
  <2> QED BY <2>1, ConsultedFiles
<1>2. looked \subseteq Files
  <2> HIDE DEF there
  <2> QED BY <1>1
<1>3. Reads(c, r) = [g \in looked |-> r[g]]
  BY DEF Reads
<1> HIDE DEF looked
<1> QED BY <1>2, <1>3

-----------------------------------------------------------------------------
(* Types.                                                                  *)

ReadNow == [g \in Files |-> ReadOf(g)]

LEMMA ReadOfType ==
  ASSUME TypeOK
  PROVE  ReadNow \in [Files -> Texts] /\ \A f \in Files : ReadOf(f) \in Texts
BY DEF TypeOK, ReadOf, Texts, ReadNow

LEMMA EntryIs ==
  ASSUME TInv, NEW f \in Files, ReadOf(f) # Unreadable
  PROVE  /\ ReadOf(f) \in Contents
         /\ Entry(f).of = ReadOf(f) /\ Entry(f).deps = Reads(ReadOf(f), ReadNow)
         /\ \A g \in DOMAIN Entry(f).deps : g \in Files /\ Entry(f).deps[g] = ReadOf(g)
<1>1. ReadOf(f) \in Contents
  BY ReadOfType DEF TInv, Texts
<1>2. ReadNow \in [Files -> Texts]
  BY ReadOfType DEF TInv
<1>3. Entry(f).of = ReadOf(f) /\ Entry(f).deps = Reads(ReadOf(f), ReadNow)
  <2>1. CASE DiscoveryFresh(f)
    <3>1. PICK r \in [Files -> Texts] : discoveries[f].deps = Reads(ReadOf(f), r)
      BY <2>1 DEF TInv, HeldDiscoveries, DiscoveryFresh
    <3>2. \A g \in DOMAIN Reads(ReadOf(f), r) : Reads(ReadOf(f), r)[g] = ReadNow[g]
      BY <1>1, <2>1, <3>1, ReadsType DEF DiscoveryFresh, ReadNow
    <3>3. Reads(ReadOf(f), ReadNow) = Reads(ReadOf(f), r)
      BY <1>1, <1>2, <3>2, ReadsSame
    <3> QED BY <2>1, <3>1, <3>3 DEF Entry, DiscoveryFresh
  <2>2. CASE ~DiscoveryFresh(f)
    BY <2>2 DEF Entry, ReadNow
  <2> QED BY <2>1, <2>2
<1>4. \A g \in DOMAIN Reads(ReadOf(f), ReadNow) :
        g \in Files /\ Reads(ReadOf(f), ReadNow)[g] = ReadOf(g)
  BY <1>1, <1>2, ReadsType DEF ReadNow
<1> QED BY <1>1, <1>3, <1>4

(* What reading fs, and perhaps one more file, does.                       *)
LEMMA DiscoverIs ==
  ASSUME TInv, NEW fs \in SUBSET Files, NEW more \in SUBSET Files,
         \A f \in fs : ReadOf(f) # Unreadable, Discover(fs, more)
  PROVE  /\ DOMAIN sources' \subseteq Files
         /\ fs \cup more \subseteq DOMAIN sources'
         /\ \A f \in DOMAIN sources' : sources'[f] = ReadOf(f)
         /\ DOMAIN discoveries' = DOMAIN discoveries \cup fs
         /\ \A f \in fs : discoveries'[f] = Entry(f)
                          /\ DOMAIN Entry(f).deps \subseteq DOMAIN sources'
         /\ \A f \in DOMAIN discoveries \ fs : discoveries'[f] = discoveries[f]
         /\ HeldDiscoveries'
<1> DEFINE D == UNION {DOMAIN Entry(f).deps : f \in fs}
<1>1. \A f \in fs : /\ DOMAIN Entry(f).deps \subseteq Files
                    /\ Entry(f).of \in Contents
                    /\ Entry(f).deps = Reads(Entry(f).of, ReadNow)
  BY EntryIs
<1>2. D \subseteq Files /\ \A f \in fs : DOMAIN Entry(f).deps \subseteq D
  BY <1>1
<1>3. sources' = [f \in DOMAIN sources \cup (fs \cup more \cup D) |-> ReadOf(f)]
  BY DEF Discover, Reading
<1> HIDE DEF D
<1>4. /\ DOMAIN sources' \subseteq Files
      /\ fs \cup more \subseteq DOMAIN sources'
      /\ \A f \in DOMAIN sources' : sources'[f] = ReadOf(f)
      /\ D \subseteq DOMAIN sources'
  BY <1>2, <1>3 DEF TInv, TypeOK
<1>5. discoveries' = [f \in DOMAIN discoveries \cup fs |->
                        IF f \in fs THEN Entry(f) ELSE discoveries[f]]
  BY DEF Discover
<1>6. /\ DOMAIN discoveries' = DOMAIN discoveries \cup fs
      /\ \A f \in fs : discoveries'[f] = Entry(f)
      /\ \A f \in DOMAIN discoveries \ fs : discoveries'[f] = discoveries[f]
  BY <1>5
<1>7. ReadNow \in [Files -> Texts]
  BY ReadOfType DEF TInv
<1>8. HeldDiscoveries'
  <2> SUFFICES ASSUME NEW f \in DOMAIN discoveries'
               PROVE  /\ discoveries'[f].of \in Contents
                      /\ \E read \in [Files -> Texts] :
                           discoveries'[f].deps = Reads(discoveries'[f].of, read)
    BY DEF HeldDiscoveries
  <2>1. CASE f \in fs
    BY <1>1, <1>6, <1>7, <2>1
  <2>2. CASE f \notin fs
    BY <1>6, <2>2 DEF TInv, HeldDiscoveries
  <2> QED BY <2>1, <2>2
<1> QED BY <1>2, <1>4, <1>6, <1>8

SessionTypes ==
  /\ disk \in [Files -> Texts]
  /\ files = Unwalked \/ files \subseteq Files
  /\ DOMAIN sources \cup DOMAIN discoveries \cup DOMAIN resolutions \subseteq Files
  /\ \A f \in DOMAIN sources : sources[f] \in Texts
  /\ checking \in {"no", "walk", "read", "resolve"}
  /\ input \in Tsconfigs \cup {Nothing}
  /\ updates \subseteq Paths \cup {Tsconfig, Generated}
LoopTypes ==
  /\ tsconfig \in Tsconfigs /\ tsconfigWrite \in Tsconfigs \cup {Nothing}
  /\ pendingChanges \cup reports \subseteq Paths \cup {Tsconfig, Generated}
  /\ {watching, timerArmed, running, rerunQueued, filtered} \subseteq BOOLEAN
  /\ pass \in {"down", "idle", "changed", "check", "gate", "prune", "ledger", "end"}
  /\ unlisted \subseteq artifacts /\ artifacts \subseteq Artifacts
  /\ ledger = Nothing \/ ledger \subseteq Artifacts

LEMMA TypesAre == TypeOK <=> SessionTypes /\ LoopTypes
BY DEF TypeOK, SessionTypes, LoopTypes, Paths, Texts

LEMMA TypesNext == SessionTypes' /\ LoopTypes' => TypeOK'
<1> SUFFICES ASSUME SessionTypes', LoopTypes' PROVE TypeOK'
  OBVIOUS
<1> QED BY DEF TypeOK, SessionTypes, LoopTypes, Paths, Texts

CheckStep == BeginCheck \/ Walk \/ ReadAll \/ ReadStops \/ ResolveAll \/ ResolveStops

LEMMA CreatedTypes ==
  ASSUME TInv, NEW in \in Tsconfigs \cup {Nothing}, Created(in), disk' \in [Files -> Texts]
  PROVE  SessionTypes' /\ HeldDiscoveries'
<1>1. \A x : x \notin DOMAIN << >>
  OBVIOUS
<1> QED BY <1>1 DEF Created, SessionTypes, HeldDiscoveries

LEMMA WantedFiles ==
  ASSUME TInv, files # Unwalked
  PROVE  Wanted \subseteq Files /\ files \subseteq Files /\ \A fs, u : Earlier(fs, u) \subseteq fs
BY DEF TInv, TypeOK, Wanted, Earlier

LEMMA DiscoverTypes ==
  ASSUME TInv, NEW fs \in SUBSET Files, NEW more \in SUBSET Files,
         \A f \in fs : ReadOf(f) # Unreadable, Discover(fs, more),
         checking' \in {"no", "resolve"}
  PROVE  SessionTypes' /\ HeldDiscoveries'
<1>1. \A f \in DOMAIN sources' : f \in Files /\ sources'[f] \in Texts
  BY DiscoverIs, ReadOfType DEF TInv
<1>2. DOMAIN discoveries' \subseteq Files
  BY DiscoverIs DEF TInv, TypeOK
<1> QED BY <1>1, <1>2, DiscoverIs, TypesAre DEF Discover, TInv, SessionTypes

LEMMA ResolveTypes ==
  ASSUME TInv, NEW fs \in SUBSET Files, NEW more \in SUBSET Files,
         ResolveThe(fs, more), checking' = "no"
  PROVE  SessionTypes' /\ HeldDiscoveries'
<1>1. \A f \in DOMAIN sources' : f \in Files /\ sources'[f] \in Texts
  BY ReadOfType DEF TInv, TypeOK, ResolveThe, Reading
<1>2. DOMAIN resolutions' \subseteq Files
  BY DEF TInv, TypeOK, ResolveThe
<1> QED BY <1>1, <1>2, TypesAre DEF ResolveThe, TInv, SessionTypes, HeldDiscoveries

LEMMA CheckTypes ==
  ASSUME TInv, Stages, CheckStep
  PROVE  SessionTypes' /\ HeldDiscoveries'
<1>1. CASE BeginCheck
  BY <1>1, TypesAre DEF BeginCheck, TInv, SessionTypes, HeldDiscoveries, Restrict
<1>2. CASE Walk
  BY <1>2, TypesAre DEF Walk, TInv, SessionTypes, HeldDiscoveries, Restrict, OnDisk
<1>3. CASE ReadAll
  BY <1>3, WantedFiles, DiscoverTypes DEF ReadAll, Stages
<1>4. CASE ReadStops
  <2>1. PICK u \in Wanted : /\ \A f \in Earlier(Wanted, u) : ReadOf(f) # Unreadable
                            /\ Discover(Earlier(Wanted, u), {u})
    BY <1>4 DEF ReadStops
  <2>2. u \in Files /\ Earlier(Wanted, u) \subseteq Files
    BY <1>4, <2>1, WantedFiles DEF Stages, ReadStops
  <2> QED BY <1>4, <2>1, <2>2, DiscoverTypes DEF ReadStops
<1>5. CASE ResolveAll
  BY <1>5, WantedFiles, ResolveTypes DEF ResolveAll, Stages
<1>6. CASE ResolveStops
  <2>1. PICK u \in files : ResolveThe(Earlier(files, u), {u})
    BY <1>6 DEF ResolveStops
  <2>2. u \in Files /\ Earlier(files, u) \subseteq Files
    BY <1>6, <2>1, WantedFiles DEF Stages, ResolveStops
  <2> QED BY <1>6, <2>1, <2>2, ResolveTypes DEF ResolveStops
<1> QED BY <1>1, <1>2, <1>3, <1>4, <1>5, <1>6 DEF CheckStep

-----------------------------------------------------------------------------
(* The loop: types, stages and the scheduler.                              *)

LEMMA EmittedType == \A r : Emitted(r) \subseteq Artifacts
BY DEF Emitted, Artifacts

LEMMA CheckCases ==
  ASSUME Check
  PROVE  CheckStep /\ pass = "check" /\ UNCHANGED <<tsconfig, tsconfigWrite, loopVars, buildVars>>
BY DEF Check, CheckStep

LEMMA CheckDoes ==
  ASSUME Stages, CheckStep
  PROVE  /\ disk' = disk /\ input' = input /\ checking' \in {"no", "walk", "read", "resolve"}
         /\ updates' \subseteq updates
         /\ checking' # "no" => updates' = {}
         /\ checking # "no" => updates' = updates
         /\ checking' \in {"read", "resolve"} => files' # Unwalked
<1>1. CASE BeginCheck
  BY <1>1 DEF BeginCheck
<1>2. CASE Walk
  <2>1. Unwalked # OnDisk
    BY GraphAssumption DEF Unwalked, OnDisk
  <2> QED BY <1>2, <2>1 DEF Walk, Stages
<1>3. CASE ReadAll \/ ReadStops
  BY <1>3 DEF ReadAll, ReadStops, Discover, Stages
<1>4. CASE ResolveAll \/ ResolveStops
  BY <1>4 DEF ResolveAll, ResolveStops, ResolveThe, Stages
<1> QED BY <1>1, <1>2, <1>3, <1>4 DEF CheckStep

LEMMA InitBase == Init => BaseInv
<1> SUFFICES ASSUME Init PROVE BaseInv
  OBVIOUS
<1>1. \A x : x \notin DOMAIN << >>
  OBVIOUS
<1>2. TypeOK /\ HeldDiscoveries
  BY <1>1 DEF Init, TypeOK, HeldDiscoveries
<1>3. Stages /\ Scheduled /\ NoSession
  BY DEF Init, Stages, Scheduled, NoSession
<1> QED BY <1>2, <1>3 DEF BaseInv, TInv

(* Steps that leave the session alone.                                     *)
LEMMA SameSession ==
  ASSUME TInv, UNCHANGED <<files, sources, discoveries, resolutions, checking, input>>,
         disk' \in [Files -> Texts], updates' \subseteq Paths \cup {Tsconfig, Generated}
  PROVE  SessionTypes' /\ HeldDiscoveries'
BY TypesAre DEF TInv, SessionTypes, HeldDiscoveries

LEMMA CheckBase ==
  ASSUME BaseInv, Check
  PROVE  BaseInv'
<1>1. SessionTypes' /\ HeldDiscoveries'
  BY CheckTypes, CheckCases DEF BaseInv
<1>2. LoopTypes'
  BY TypesAre DEF Check, loopVars, buildVars, LoopTypes, BaseInv, TInv
<1>3. /\ checking' \in {"no", "walk", "read", "resolve"} /\ updates' \subseteq updates
      /\ checking' # "no" => updates' = {}
      /\ checking # "no" => updates' = updates
      /\ checking' \in {"read", "resolve"} => files' # Unwalked
  BY CheckDoes, CheckCases DEF BaseInv, TInv
<1>4. pass = "check" /\ pass' \in {"check", "end"} /\ UNCHANGED loopVars
  BY DEF Check
<1>5. pass' = "end" => checking' = "no" /\ checking # "no"
  BY <1>4 DEF Check, ReadStops, ResolveStops
<1>6. Stages'
  BY <1>3, <1>4, <1>5 DEF Stages, BaseInv
<1>7. Scheduled' /\ NoSession'
  BY <1>4 DEF Scheduled, NoSession, BaseInv, loopVars
<1> QED BY <1>1, <1>2, <1>6, <1>7, TypesNext DEF BaseInv, TInv

LEMMA CheckEndsBase ==
  ASSUME BaseInv, CheckEnds
  PROVE  BaseInv'
<1>1. CheckStep /\ ResolveAll
  BY DEF CheckEnds, CheckStep
<1>2. SessionTypes' /\ HeldDiscoveries'
  BY <1>1, CheckTypes DEF BaseInv
<1>3. LoopTypes'
  <2>1. artifacts' \subseteq Artifacts /\ unlisted' \subseteq artifacts'
    BY EmittedType DEF CheckEnds, BaseInv, TInv, TypeOK
  <2>2. reports' \subseteq Paths \cup {Tsconfig, Generated}
    BY TypesAre DEF CheckEnds, Changed, BaseInv, TInv, LoopTypes
  <2> QED BY <2>1, <2>2, TypesAre DEF CheckEnds, LoopTypes, BaseInv, TInv
<1>4. Stages'
  BY DEF CheckEnds, ResolveAll, ResolveThe, Stages, BaseInv
<1>5. Scheduled' /\ NoSession'
  BY DEF CheckEnds, Changed, Scheduled, NoSession, BaseInv
<1> QED BY <1>2, <1>3, <1>4, <1>5, TypesNext DEF BaseInv, TInv

LEMMA UpkeepDoes ==
  ASSUME TypeOK, Upkeep
  PROVE  /\ tsconfig' = Kept[tsconfig] /\ tsconfig' \in Tsconfigs /\ input' = tsconfig'
         /\ tsconfigWrite' \in {tsconfig', tsconfigWrite}
         /\ reports' \subseteq reports \cup {Tsconfig} /\ reports \subseteq reports'
         /\ ~watching => reports' = reports
         /\ Created(tsconfig')
<1>1. Kept[tsconfig] \in Tsconfigs
  BY WatchAssumption DEF TypeOK
<1> QED BY <1>1 DEF Upkeep, Changed, Created

LEMMA StartBase ==
  ASSUME BaseInv, Start
  PROVE  BaseInv'
<1>1. SessionTypes' /\ HeldDiscoveries' /\ tsconfig' \in Tsconfigs
  <2>1. tsconfig' \in Tsconfigs /\ Created(tsconfig')
    BY UpkeepDoes DEF Start, BaseInv, TInv
  <2>2. disk' \in [Files -> Texts]
    BY DEF Start, BaseInv, TInv, TypeOK, Texts
  <2> QED BY <2>1, <2>2, CreatedTypes DEF BaseInv
<1>2. LoopTypes'
  BY <1>1, UpkeepDoes, TypesAre DEF Start, LoopTypes, BaseInv, TInv, buildVars
<1>3. Stages' /\ Scheduled' /\ NoSession'
  BY UpkeepDoes DEF Start, Created, Stages, Scheduled, NoSession, BaseInv, TInv
<1> QED BY <1>1, <1>2, <1>3, TypesNext DEF BaseInv, TInv

LEMMA BuildBase ==
  ASSUME BaseInv, Gate \/ Prune \/ WriteLedger \/ EndOfPass
  PROVE  BaseInv'
<1>1. UNCHANGED <<disk, output, sessionVars, tsconfig, tsconfigWrite>>
  BY DEF Gate, Prune, WriteLedger, EndOfPass
<1>2. SessionTypes' /\ HeldDiscoveries'
  BY <1>1, SameSession, TypesAre DEF sessionVars, BaseInv, TInv, SessionTypes
<1>3. LoopTypes'
  <2>1. CASE Gate
    BY <2>1, TypesAre DEF Gate, loopVars, buildVars, LoopTypes, BaseInv, TInv
  <2>2. CASE Prune
    BY <2>2, TypesAre DEF Prune, Changed, Stale, LoopTypes, BaseInv, TInv
  <2>3. CASE WriteLedger
    BY <2>3, TypesAre, EmittedType DEF WriteLedger, Changed, LoopTypes, BaseInv, TInv
  <2>4. CASE EndOfPass
    BY <2>4, TypesAre DEF EndOfPass, MayFilter, buildVars, LoopTypes, BaseInv, TInv
  <2> QED BY <2>1, <2>2, <2>3, <2>4
<1>4. Stages' /\ Scheduled' /\ NoSession'
  <2>1. CASE Gate
    BY <2>1 DEF Gate, loopVars, sessionVars, Stages, Scheduled, NoSession, BaseInv
  <2>2. CASE Prune
    BY <2>2 DEF Prune, Changed, sessionVars, Stages, Scheduled, NoSession, BaseInv
  <2>3. CASE WriteLedger
    BY <2>3 DEF WriteLedger, Changed, sessionVars, Stages, Scheduled, NoSession, BaseInv
  <2>4. CASE EndOfPass
    BY <2>4, TypesAre DEF EndOfPass, sessionVars, Stages, Scheduled, NoSession, BaseInv, TInv, LoopTypes
  <2> QED BY <2>1, <2>2, <2>3, <2>4
<1> QED BY <1>2, <1>3, <1>4, TypesNext DEF BaseInv, TInv

LEMMA TakeChangesBase ==
  ASSUME BaseInv, TakeChanges
  PROVE  BaseInv'
<1>0. disk' \in [Files -> Texts] /\ disk' = disk
  BY DEF TakeChanges, BaseInv, TInv, TypeOK, Texts
<1>1. SessionTypes' /\ HeldDiscoveries' /\ tsconfig' \in Tsconfigs
  <2>1. CASE NeedsNewSession(pendingChanges)
    <3>1. tsconfig' \in Tsconfigs /\ Created(tsconfig')
      BY <2>1, UpkeepDoes DEF TakeChanges, BaseInv, TInv
    <3> QED BY <1>0, <3>1, CreatedTypes DEF BaseInv
  <2>2. CASE ~NeedsNewSession(pendingChanges)
    <3>1. updates' \subseteq Paths \cup {Tsconfig, Generated} /\ tsconfig' \in Tsconfigs
      BY <2>2, TypesAre DEF TakeChanges, BaseInv, TInv, SessionTypes, LoopTypes
    <3>2. UNCHANGED <<files, sources, discoveries, resolutions, checking, input>>
      BY <2>2 DEF TakeChanges
    <3> QED BY <1>0, <3>1, <3>2, SameSession DEF BaseInv
  <2> QED BY <2>1, <2>2
<1>2. /\ tsconfigWrite' \in Tsconfigs \cup {Nothing} /\ reports' \subseteq reports \cup {Tsconfig}
      /\ reports \subseteq reports' /\ (~watching => reports' = reports)
  BY <1>1, UpkeepDoes, TypesAre DEF TakeChanges, BaseInv, TInv, LoopTypes
<1>3. LoopTypes'
  BY <1>1, <1>2, TypesAre DEF TakeChanges, LoopTypes, BaseInv, TInv, buildVars
<1>4. checking' = "no"
  BY DEF TakeChanges, Upkeep, Created, Stages, BaseInv
<1>5. Stages' /\ Scheduled' /\ NoSession'
  BY <1>2, <1>4 DEF TakeChanges, Stages, Scheduled, NoSession, BaseInv
<1> QED BY <1>1, <1>3, <1>5, TypesNext DEF BaseInv, TInv

LEMMA WatcherBase ==
  ASSUME BaseInv, Debounced \/ \E p \in reports : Reported(p)
  PROVE  BaseInv'
<1>1. UNCHANGED <<disk, output, sessionVars, tsconfig, tsconfigWrite, watching, buildVars>>
  BY DEF Debounced, Reported
<1>2. SessionTypes' /\ HeldDiscoveries'
  BY <1>1, SameSession, TypesAre DEF sessionVars, BaseInv, TInv, SessionTypes
<1>3. LoopTypes' /\ Stages' /\ Scheduled' /\ NoSession'
  <2>1. CASE Debounced
    <3>1. LoopTypes'
      BY <2>1, TypesAre DEF Debounced, buildVars, LoopTypes, BaseInv, TInv
    <3> QED BY <2>1, <3>1 DEF Debounced, sessionVars, Stages, Scheduled, NoSession, BaseInv
  <2>2. CASE \E p \in reports : Reported(p)
    <3>1. PICK p \in reports : Reported(p)
      BY <2>2
    <3>2. timerArmed' \in {timerArmed, timerArmed \/ ~rerunQueued}
      BY <3>1 DEF Reported, Notified
    <3>3. timerArmed \in BOOLEAN /\ rerunQueued \in BOOLEAN
      BY TypesAre DEF LoopTypes, BaseInv, TInv
    <3>4. timerArmed' \in BOOLEAN
      BY <3>2, <3>3
    <3>5. LoopTypes'
      BY <3>1, <3>4, TypesAre DEF Reported, buildVars, LoopTypes, BaseInv, TInv
    <3>6. pendingChanges' # {} => timerArmed' \/ rerunQueued' \/ pass' = "changed"
      BY <3>1, <3>3 DEF Reported, Notified, Scheduled, BaseInv
    <3>7. Stages' /\ NoSession'
      BY <3>1 DEF Reported, sessionVars, Stages, NoSession, BaseInv
    <3> QED BY <3>1, <3>5, <3>6, <3>7 DEF Reported, Scheduled, BaseInv
  <2> QED BY <2>1, <2>2
<1> QED BY <1>2, <1>3, TypesNext DEF BaseInv, TInv

LEMMA EditBase ==
  ASSUME BaseInv, NEW fs \in SUBSET Files, NEW text, \A f \in fs : text[f] \in Texts,
         NEW path \in Paths, Edit(fs, text, path)
  PROVE  BaseInv'
<1>1. /\ disk' \in [Files -> Texts]
      /\ UNCHANGED <<output, sessionVars, tsconfig, tsconfigWrite, watching,
                     pendingChanges, timerArmed, running, rerunQueued, pass, buildVars>>
  BY DEF Edit, BaseInv, TInv, TypeOK, Texts
<1>2. SessionTypes' /\ HeldDiscoveries'
  BY <1>1, SameSession, TypesAre DEF sessionVars, BaseInv, TInv, SessionTypes
<1>3. (reports' \subseteq reports \cup {path}) /\ (~watching => reports' = reports)
  BY DEF Edit, Changed
<1>4. LoopTypes'
  BY <1>1, <1>3, TypesAre DEF buildVars, LoopTypes, BaseInv, TInv
<1>5. Stages' /\ Scheduled' /\ NoSession'
  BY <1>1, <1>3 DEF sessionVars, Stages, Scheduled, NoSession, BaseInv
<1> QED BY <1>2, <1>4, <1>5, TypesNext DEF BaseInv, TInv

LEMMA EditTsconfigBase ==
  ASSUME BaseInv, NEW t \in Tsconfigs, EditTsconfig(t)
  PROVE  BaseInv'
<1>1. /\ disk' \in [Files -> Texts] /\ tsconfig' = t
      /\ UNCHANGED <<disk, output, sessionVars, tsconfigWrite, watching,
                     pendingChanges, timerArmed, running, rerunQueued, pass, buildVars>>
  BY DEF EditTsconfig, BaseInv, TInv, TypeOK, Texts
<1>2. SessionTypes' /\ HeldDiscoveries'
  BY <1>1, SameSession, TypesAre DEF sessionVars, BaseInv, TInv, SessionTypes
<1>3. (reports' \subseteq reports \cup {Tsconfig}) /\ (~watching => reports' = reports)
  BY DEF EditTsconfig, Changed
<1>4. LoopTypes'
  BY <1>1, <1>3, TypesAre DEF buildVars, LoopTypes, BaseInv, TInv
<1>5. Stages' /\ Scheduled' /\ NoSession'
  BY <1>1, <1>3 DEF sessionVars, Stages, Scheduled, NoSession, BaseInv
<1> QED BY <1>2, <1>4, <1>5, TypesNext DEF BaseInv, TInv

LEMMA KillBase ==
  ASSUME BaseInv, Kill
  PROVE  BaseInv'
<1>1. Created(Nothing) /\ disk' \in [Files -> Texts]
  BY DEF Kill, BaseInv, TInv, TypeOK, Texts
<1>2. SessionTypes' /\ HeldDiscoveries'
  BY <1>1, CreatedTypes DEF BaseInv
<1>3. unlisted' \subseteq artifacts'
  BY TypesAre DEF Kill, LoopTypes, BaseInv, TInv
<1>4. LoopTypes'
  BY <1>3, TypesAre DEF Kill, LoopTypes, BaseInv, TInv
<1>5. Stages' /\ Scheduled' /\ NoSession'
  BY <1>1 DEF Kill, Created, Stages, Scheduled, NoSession, BaseInv
<1> QED BY <1>2, <1>4, <1>5, TypesNext DEF BaseInv, TInv

(* What the user does, an edit being of a file or of a directory.          *)
AnyEdit ==
  \E fs \in SUBSET Files : \E path \in Paths, text \in [fs -> Texts] :
    fs = Dropped({path}) /\ Edit(fs, text, path)

LEMMA UserCases ==
  ASSUME User
  PROVE  AnyEdit \/ (\E t \in Tsconfigs : EditTsconfig(t)) \/ Kill
<1>1. ASSUME NEW f \in Files, NEW c \in Texts, EditFile(f, c) PROVE AnyEdit
  <2>1. Dropped({f}) = {f}
    BY SessionAssumption DEF Dropped
  <2>2. f \in Paths /\ [g \in {f} |-> c] \in [{f} -> Texts] /\ {f} \in SUBSET Files
    BY DEF Paths
  <2> QED BY <1>1, <2>1, <2>2 DEF AnyEdit, EditFile
<1>2. ASSUME NEW d \in Directories, NEW text \in [Under[d] -> Texts], Move(d, text)
      PROVE  AnyEdit
  <2>1. Dropped({d}) = Under[d] /\ Under[d] \in SUBSET Files
    BY SessionAssumption DEF Dropped
  <2>2. d \in Paths
    BY DEF Paths
  <2> QED BY <1>2, <2>1, <2>2 DEF AnyEdit, Move
<1> QED BY <1>1, <1>2 DEF User, Texts

LEMMA NextBase ==
  ASSUME BaseInv, [Next]_vars
  PROVE  BaseInv'
<1>1. CASE Check
  BY <1>1, CheckBase
<1>2. CASE CheckEnds
  BY <1>2, CheckEndsBase
<1>3. CASE Gate \/ Prune \/ WriteLedger \/ EndOfPass
  BY <1>3, BuildBase
<1>4. CASE Debounced \/ \E p \in reports : Reported(p)
  BY <1>4, WatcherBase
<1>5. CASE TakeChanges
  BY <1>5, TakeChangesBase
<1>6. CASE Start
  BY <1>6, StartBase
<1>7. CASE AnyEdit
  <2>0. PICK fs \in SUBSET Files :
          \E path \in Paths, text \in [fs -> Texts] : Edit(fs, text, path)
    BY <1>7 DEF AnyEdit
  <2>1. PICK path \in Paths, text \in [fs -> Texts] : Edit(fs, text, path)
    BY <2>0
  <2>2. \A f \in fs : text[f] \in Texts
    OBVIOUS
  <2> QED BY <2>1, <2>2, EditBase
<1>8. CASE \E t \in Tsconfigs : EditTsconfig(t)
  BY <1>8, EditTsconfigBase
<1>9. CASE Kill
  BY <1>9, KillBase
<1>10. CASE UNCHANGED vars
  BY <1>10 DEF vars, sessionVars, loopVars, buildVars, BaseInv, TInv, TypeOK,
       HeldDiscoveries, Stages, Scheduled, NoSession
<1> QED BY <1>1, <1>2, <1>3, <1>4, <1>5, <1>6, <1>7, <1>8, <1>9, <1>10, UserCases
        DEF Next, Loop

LEMMA BaseHolds == Spec => []BaseInv
BY InitBase, NextBase, PTL DEF Spec

(* The watch loop, the session and the build keep their types.             *)
THEOREM TypeCorrect == Spec => []TypeOK
<1>1. BaseInv => TypeOK
  BY DEF BaseInv, TInv
<1> QED BY <1>1, BaseHolds, PTL

-----------------------------------------------------------------------------
(* Generated files: each is listed, or known not to be.                    *)

LEMMA FailedIsNotOk == ~BuildOk(Failed)
BY DEF BuildOk, CheckOk, Failed

LEMMA OwnedSame ==
  ASSUME OwnedInv, UNCHANGED <<artifacts, ledger, unlisted, output>>,
         pass' = "ledger" <=> pass = "ledger", pass' \in {"end", "idle"} =>
           pass \in {"end", "idle"} \/ ~BuildOk(output)
  PROVE  OwnedInv'
BY DEF OwnedInv

LEMMA NextOwned ==
  ASSUME BaseInv, OwnedInv, [Next]_vars
  PROVE  OwnedInv'
<1>1. CASE Check
  <2>1. CASE pass' = "check"
    BY <1>1, <2>1 DEF Check, buildVars, OwnedInv
  <2>2. CASE pass' # "check"
    BY <1>1, <2>2, FailedIsNotOk DEF Check, ReadStops, ResolveStops, buildVars, OwnedInv
  <2> QED BY <2>1, <2>2
<1>2. CASE CheckEnds
  BY <1>2 DEF CheckEnds, OwnedInv
<1>3. CASE Gate
  BY <1>3, OwnedSame DEF Gate, buildVars
<1>4. CASE Prune
  <2>1. CASE Stale = {}
    <3>1. artifacts \subseteq Emitted(output) \cup unlisted
      BY <1>4, <2>1 DEF Prune, Stale, OwnedInv
    <3> QED BY <1>4, <2>1, <3>1 DEF Prune, OwnedInv
  <2>2. CASE Stale # {}
    BY <1>4, <2>2 DEF Prune, OwnedInv
  <2> QED BY <2>1, <2>2
<1>5. CASE WriteLedger
  <2>1. Emitted(output) # Nothing
    BY EmittedType, WatchAssumption
  <2> QED BY <1>5, <2>1 DEF WriteLedger, OwnedInv
<1>6. CASE EndOfPass
  BY <1>6, OwnedSame DEF EndOfPass
<1>7. CASE Debounced
  <2>1. pass' = pass \/ (pass = "idle" /\ pass' = "changed")
    BY <1>7 DEF Debounced, Scheduled, BaseInv
  <2> QED BY <1>7, <2>1, OwnedSame DEF Debounced, buildVars
<1>12. CASE TakeChanges \/ Start
  BY <1>12, OwnedSame DEF TakeChanges, Start, buildVars
<1>8. CASE \E p \in reports : Reported(p)
  BY <1>8, OwnedSame DEF Reported, buildVars
<1>9. CASE AnyEdit \/ \E t \in Tsconfigs : EditTsconfig(t)
  BY <1>9, OwnedSame DEF AnyEdit, Edit, EditTsconfig, buildVars
<1>10. CASE Kill
  BY <1>10 DEF Kill, OwnedInv
<1>11. CASE UNCHANGED vars
  BY <1>11, OwnedSame DEF vars, buildVars
<1> QED BY <1>1, <1>2, <1>3, <1>4, <1>5, <1>6, <1>7, <1>8, <1>9, <1>10, <1>11, <1>12,
        UserCases DEF Next, Loop

(* After a build that passed, the generated directory holds what it        *)
(* emitted, and besides that only files of passes that failed or were      *)
(* killed before the ledger listed them.                                   *)
THEOREM NothingStrays == Spec => []NoStrays
<1>1. Init => OwnedInv
  BY FailedIsNotOk DEF Init, OwnedInv
<1>2. OwnedInv => NoStrays
  BY DEF OwnedInv, NoStrays
<1>3. BaseInv /\ OwnedInv /\ [Next]_vars => OwnedInv'
  BY NextOwned
<1> QED BY <1>1, <1>2, <1>3, BaseHolds, PTL DEF Spec

-----------------------------------------------------------------------------
(* Boundaries: a check without an error allows every edge, and what is     *)
(* allowed is allowed through whatever modules.                            *)

Allowed(a, b) ==
  a = "test" \/ /\ b # "test"
                /\ NormalKind(a) \in {"client", "server"} =>
                     NormalKind(b) \in {NormalKind(a), "shared"}
                /\ NormalKind(a) = "shared" => NormalKind(b) = "shared"

LEMMA KindsAreThree == \A k : NormalKind(k) \in {"client", "server", "shared"}
BY DEF NormalKind

LEMMA ForbiddenEdges ==
  ASSUME NEW a, NEW b, a # "test"
  PROVE  /\ b = "test" => BoundaryCode(a, b) # 0
         /\ NormalKind(a) = "client" /\ NormalKind(b) = "server" => BoundaryCode(a, b) # 0
         /\ NormalKind(a) = "server" /\ NormalKind(b) = "client" => BoundaryCode(a, b) # 0
         /\ NormalKind(a) = "shared" /\ NormalKind(b) = "server" => BoundaryCode(a, b) # 0
         /\ NormalKind(a) = "shared" /\ NormalKind(b) = "client" => BoundaryCode(a, b) # 0
<1>1. ASSUME b = "test" PROVE BoundaryCode(a, b) # 0
  BY <1>1 DEF BoundaryCode
<1>2. ASSUME NormalKind(a) = "client", NormalKind(b) = "server" PROVE BoundaryCode(a, b) # 0
  BY <1>2 DEF BoundaryCode
<1>3. ASSUME NormalKind(a) = "server", NormalKind(b) = "client" PROVE BoundaryCode(a, b) # 0
  BY <1>3 DEF BoundaryCode
<1>4. ASSUME NormalKind(a) = "shared", NormalKind(b) = "server" PROVE BoundaryCode(a, b) # 0
  BY <1>4 DEF BoundaryCode
<1>5. ASSUME NormalKind(a) = "shared", NormalKind(b) = "client" PROVE BoundaryCode(a, b) # 0
  BY <1>5 DEF BoundaryCode
<1> QED BY <1>1, <1>2, <1>3, <1>4, <1>5

LEMMA ZeroIsAllowed ==
  ASSUME NEW a, NEW b, BoundaryCode(a, b) = 0
  PROVE  Allowed(a, b)
BY ForbiddenEdges, KindsAreThree DEF Allowed

LEMMA AllowedThrough ==
  ASSUME NEW a, NEW b, NEW c, Allowed(a, b), Allowed(b, c)
  PROVE  Allowed(a, c)
BY KindsAreThree DEF Allowed

LEMMA AllowedIsSafe ==
  ASSUME NEW a, NEW b, Allowed(a, b)
  PROVE  {NormalKind(a), NormalKind(b)} # {"client", "server"}
BY KindsAreThree DEF Allowed, NormalKind

(* The function by which Loads is defined exists.                          *)
Further(S, E) == S \cup {<<p[1][1], p[2][2]>> : p \in {q \in S \X E : q[1][2] = q[2][1]}}
Grows(at, N, E) == at = [n \in 0 .. N |-> IF n = 0 THEN E ELSE Further(at[n-1], E)]

LEMMA LoadsExist ==
  ASSUME NEW E, NEW N \in Nat
  PROVE  \E at : Grows(at, N, E)
<1> DEFINE T == {m \in Nat : \E at : Grows(at, m, E)}
<1>1. 0 \in T
  <2>1. Grows([n \in 0 .. 0 |-> E], 0, E)
    BY DEF Grows
  <2> QED BY <2>1
<1>2. ASSUME NEW m \in Nat, m \in T PROVE m + 1 \in T
  <2>1. PICK f : Grows(f, m, E)
    BY <1>2
  <2> DEFINE g == [n \in 0 .. (m + 1) |-> IF n = m + 1 THEN Further(f[m], E) ELSE f[n]]
  <2>2. f = [n \in 0 .. m |-> IF n = 0 THEN E ELSE Further(f[n-1], E)]
    BY <2>1 DEF Grows
  <2>3. \A n \in 0 .. m : f[n] = IF n = 0 THEN E ELSE Further(f[n-1], E)
    BY <2>2
  <2>4. /\ \A n \in 0 .. m : g[n] = f[n]
        /\ g[m + 1] = Further(f[m], E) /\ DOMAIN g = 0 .. (m + 1)
    OBVIOUS
  <2>5. \A n \in 0 .. (m + 1) : g[n] = IF n = 0 THEN E ELSE Further(g[n-1], E)
    <3> SUFFICES ASSUME NEW n \in 0 .. (m + 1)
                 PROVE  g[n] = IF n = 0 THEN E ELSE Further(g[n-1], E)
      OBVIOUS
    <3> HIDE DEF g
    <3>1. CASE n = 0
      BY <2>3, <2>4, <3>1
    <3>2. CASE n = m + 1
      BY <2>4, <3>2
    <3>3. CASE n # 0 /\ n # m + 1
      <4>1. n \in 0 .. m /\ n - 1 \in 0 .. m
        BY <3>3
      <4> QED BY <2>3, <2>4, <3>3, <4>1
    <3> QED BY <3>1, <3>2, <3>3
  <2>6. Grows(g, m + 1, E)
    BY <2>5 DEF Grows
  <2> QED BY <2>6
<1> HIDE DEF T
<1>3. Nat \subseteq T
  BY <1>1, <1>2, AllNaturals
<1> QED BY <1>3 DEF T

LEMMA LoadsAre ==
  ASSUME NEW r, Cardinality(r.files) \in Nat
  PROVE  \E at : Grows(at, Cardinality(r.files), Edges(r))
                 /\ Loads(r) = at[Cardinality(r.files)]
<1> DEFINE N == Cardinality(r.files)
           E == Edges(r)
           f == CHOOSE at : Grows(at, N, E)
<1>1. Grows(f, N, E)
  BY LoadsExist
<1>2. Loads(r) = f[N]
  BY DEF Loads, Grows, Further
<1> QED BY <1>1, <1>2

LEMMA LoadsAllowed ==
  ASSUME NEW r, r.files \in SUBSET Files, CheckOk(r)
  PROVE  \A e \in Loads(r) : Allowed(ModuleKind(r, e[1]), ModuleKind(r, e[2]))
<1> DEFINE N == Cardinality(r.files)
           Fine(S) == \A e \in S : Allowed(ModuleKind(r, e[1]), ModuleKind(r, e[2]))
<1>1. N \in Nat
  BY GraphAssumption, FS_Subset, FS_CardinalityType
<1>2. PICK at : Grows(at, N, Edges(r)) /\ Loads(r) = at[N]
  BY <1>1, LoadsAre
<1>3. \A n \in 0 .. N : at[n] = IF n = 0 THEN Edges(r) ELSE Further(at[n-1], Edges(r))
  BY <1>2 DEF Grows
<1>4. Fine(Edges(r))
  BY ZeroIsAllowed DEF CheckOk
<1>5. ASSUME NEW S, Fine(S) PROVE Fine(Further(S, Edges(r)))
  <2> SUFFICES ASSUME NEW e \in Further(S, Edges(r))
               PROVE  Allowed(ModuleKind(r, e[1]), ModuleKind(r, e[2]))
    OBVIOUS
  <2>1. CASE e \in S
    BY <1>5, <2>1
  <2>2. CASE e \notin S
    <3>1. PICK p \in S \X Edges(r) : p[1][2] = p[2][1] /\ e = <<p[1][1], p[2][2]>>
      BY <2>2 DEF Further
    <3>2. p[1] \in S /\ p[2] \in Edges(r) /\ e[1] = p[1][1] /\ e[2] = p[2][2]
      BY <3>1
    <3>3. /\ Allowed(ModuleKind(r, p[1][1]), ModuleKind(r, p[1][2]))
          /\ Allowed(ModuleKind(r, p[2][1]), ModuleKind(r, p[2][2]))
      BY <1>4, <1>5, <3>2
    <3> QED BY <3>1, <3>2, <3>3, AllowedThrough
  <2> QED BY <2>1, <2>2
<1> DEFINE T == {n \in Nat : n <= N => Fine(at[n])}
<1> HIDE DEF Fine, N
<1>6. 0 \in T
  BY <1>1, <1>3, <1>4
<1>7. ASSUME NEW n \in Nat, n \in T PROVE n + 1 \in T
  <2>1. CASE n + 1 <= N
    <3>1. n + 1 \in 0 .. N /\ n + 1 # 0 /\ n <= N /\ (n + 1) - 1 = n
      BY <1>1, <2>1
    <3>2. Fine(at[n]) /\ at[n + 1] = Further(at[n], Edges(r))
      BY <1>3, <1>7, <3>1
    <3> QED BY <1>5, <3>2
  <2> QED BY <2>1
<1> HIDE DEF T
<1>8. N \in T
  BY <1>1, <1>6, <1>7, AllNaturals
<1>9. Fine(at[N])
  BY <1>1, <1>8 DEF T
<1> QED BY <1>2, <1>9 DEF Fine

LEMMA NextPassed ==
  ASSUME BaseInv, PassedInv, [Next]_vars
  PROVE  PassedInv'
<1>1. CASE Check
  <2>1. CASE UNCHANGED output
    BY <1>1, <2>1 DEF Check, PassedInv
  <2>2. CASE output' = Failed
    BY <1>1, <2>2 DEF Check, PassedInv, Failed
  <2> QED BY <1>1, <2>1, <2>2 DEF Check, BeginCheck, Walk, ReadAll, ReadStops, ResolveStops
<1>2. CASE CheckEnds
  <2>1. output' = Concluded' /\ files' = files /\ files \subseteq Files /\ pass' = "gate"
    BY <1>2 DEF CheckEnds, ResolveAll, ResolveThe, BaseInv, Stages, TInv, TypeOK
  <2>2. output'.files = files'
    BY <2>1 DEF Concluded, Report
  <2> QED BY <2>1, <2>2 DEF PassedInv
<1>3. CASE Gate \/ Prune \/ WriteLedger \/ EndOfPass
  BY <1>3 DEF Gate, Prune, WriteLedger, EndOfPass, PassedInv
<1>4. CASE Debounced \/ TakeChanges \/ Start \/ \E p \in reports : Reported(p)
  BY <1>4 DEF Debounced, TakeChanges, Start, Reported, PassedInv
<1>5. CASE AnyEdit \/ \E t \in Tsconfigs : EditTsconfig(t)
  BY <1>5 DEF AnyEdit, Edit, EditTsconfig, PassedInv
<1>6. CASE Kill
  BY <1>6 DEF Kill, PassedInv, Failed
<1>7. CASE UNCHANGED vars
  BY <1>7 DEF vars, PassedInv
<1> QED BY <1>1, <1>2, <1>3, <1>4, <1>5, <1>6, <1>7, UserCases DEF Next, Loop

(* A build that passes has, from client to server code, no path of         *)
(* run-time imports, through whatever modules.                             *)
THEOREM PassedSafely == Spec => []PassedIsSafe
<1>1. Init => PassedInv
  BY DEF Init, PassedInv, Failed
<1>2. BaseInv /\ PassedInv /\ [Next]_vars => PassedInv'
  BY NextPassed
<1>3. PassedInv => PassedIsSafe
  <2> SUFFICES ASSUME PassedInv, pass \in {"prune", "ledger"}, NEW e \in Loads(output)
               PROVE  {Side(output, e[1]), Side(output, e[2])} # {"client", "server"}
    BY DEF PassedIsSafe
  <2>1. CheckOk(output) /\ output.files \in SUBSET Files
    BY DEF PassedInv, BuildOk, CheckOk
  <2>2. Allowed(ModuleKind(output, e[1]), ModuleKind(output, e[2]))
    BY <2>1, LoadsAllowed
  <2> QED BY <2>2, AllowedIsSafe DEF Side
<1> QED BY <1>1, <1>2, <1>3, BaseHolds, PTL DEF Spec

-----------------------------------------------------------------------------
(* The session against the disk.                                           *)

LEMMA DroppedParts ==
  /\ Dropped({}) = {}
  /\ \A A, B : Dropped(A \cup B) = Dropped(A) \cup Dropped(B)
  /\ \A A, B : A \subseteq B => Dropped(A) \subseteq Dropped(B)
  /\ \A A : Dropped(A) = Dropped(A \cap Paths)
BY DEF Dropped, Paths

LEMMA NotPaths == Tsconfig \notin Paths /\ Generated \notin Paths
BY WatchAssumption DEF Paths

(* A step that leaves the session and the disk alone and loses no change.  *)
LEMMA SessionKept ==
  ASSUME SessionHeld, Unseen \subseteq Unseen',
         UNCHANGED <<disk, files, sources, discoveries, resolutions, checking>>
  PROVE  SessionHeld'
<1>1. Dirty \subseteq Dirty'
  BY DroppedParts DEF Dirty
<1>2. HeldTexts' /\ HeldFiles'
  BY <1>1 DEF SessionHeld, HeldTexts, HeldFiles, OnDisk
<1>3. HeldResolutions' /\ Discovered'
  BY DEF SessionHeld, HeldResolutions, Discovered, Wanted, HasRead, OnDisk
<1> QED BY <1>2, <1>3 DEF SessionHeld

LEMMA SessionNew ==
  ASSUME NEW in, Created(in)
  PROVE  SessionHeld'
<1>1. \A x : x \notin DOMAIN << >>
  OBVIOUS
<1> QED BY <1>1 DEF Created, SessionHeld, HeldTexts, HeldFiles, HeldResolutions, Discovered

(* With nothing unseen, what is read is what is on disk.                   *)
LEMMA AllSeen ==
  ASSUME SessionHeld, Unseen = {}
  PROVE  /\ \A f \in Files : ReadOf(f) = disk[f]
         /\ \A f \in DOMAIN sources : sources[f] = disk[f]
         /\ files # Unwalked => files \cap Files = OnDisk
<1>1. Dirty = {}
  BY DroppedParts DEF Dirty
<1> QED BY <1>1 DEF SessionHeld, HeldTexts, HeldFiles, ReadOf, OnDisk

(* What the watcher has to say of files stays.                             *)
NothingReported ==
  pendingChanges' = pendingChanges /\ reports' \cap Paths = reports \cap Paths

LEMMA BeginHeld ==
  ASSUME BaseInv, SessionHeld, BeginCheck, NothingReported
  PROVE  SessionHeld'
<1>1. Dirty = Dropped(updates) \cup Dirty'
  <2>1. Unseen = (updates \cap Paths) \cup Unseen'
    BY DEF BeginCheck, Unseen, NothingReported
  <2>2. Dropped(Unseen) = Dropped(updates \cap Paths) \cup Dropped(Unseen')
    BY <2>1, DroppedParts
  <2> QED BY <2>2, DroppedParts DEF Dirty
<1>2. /\ sources' = Restrict(sources, DOMAIN sources \ Dropped(updates)) /\ disk' = disk
      /\ discoveries' = discoveries /\ resolutions' = resolutions /\ checking' = "walk"
  BY DEF BeginCheck
<1>3. HeldTexts'
  BY <1>1, <1>2 DEF SessionHeld, HeldTexts, Restrict
<1>4. HeldFiles'
  <2>1. CASE Rewalk(updates)
    BY <2>1 DEF BeginCheck, HeldFiles
  <2>2. CASE ~Rewalk(updates)
    <3>1. files' = files /\ updates \subseteq files /\ updates \subseteq OnDisk /\ files # Unwalked
      BY <2>2 DEF BeginCheck, Rewalk
    <3>2. Dropped(updates) \subseteq files \cap OnDisk
      BY <3>1, SessionAssumption DEF Dropped, OnDisk
    <3> QED BY <1>1, <1>2, <3>1, <3>2 DEF SessionHeld, HeldFiles, OnDisk
  <2> QED BY <2>1, <2>2
<1>5. HeldResolutions' /\ Discovered'
  BY <1>2 DEF SessionHeld, HeldResolutions, Discovered, OnDisk
<1> QED BY <1>3, <1>4, <1>5 DEF SessionHeld

LEMMA WalkHeld ==
  ASSUME SessionHeld, Walk, NothingReported
  PROVE  SessionHeld'
<1>1. Unseen' = Unseen /\ Dirty' = Dirty /\ OnDisk' = OnDisk
  BY DEF Walk, Unseen, Dirty, OnDisk, NothingReported
<1>2. HeldTexts' /\ HeldFiles'
  BY <1>1 DEF Walk, SessionHeld, HeldTexts, HeldFiles
<1>3. HeldResolutions' /\ Discovered'
  BY <1>1 DEF Walk, Restrict, SessionHeld, HeldResolutions, Discovered
<1> QED BY <1>2, <1>3 DEF SessionHeld

LEMMA ReadHeld ==
  ASSUME BaseInv, SessionHeld, NEW fs \in SUBSET Files, NEW more \in SUBSET Files,
         \A f \in fs : ReadOf(f) # Unreadable, Discover(fs, more),
         NothingReported
  PROVE  HeldTexts' /\ HeldFiles' /\ HeldResolutions'
<1>1. Unseen' = Unseen /\ Dirty' = Dirty /\ OnDisk' = OnDisk /\ disk' = disk
  BY DEF Discover, Unseen, Dirty, OnDisk, NothingReported
<1>2. \A f \in DOMAIN sources' : sources'[f] = disk[f] \/ f \in Dirty
  BY DiscoverIs DEF BaseInv, ReadOf, SessionHeld, HeldTexts
<1>3. HeldTexts'
  BY <1>1, <1>2 DEF HeldTexts
<1>4. HeldFiles' /\ HeldResolutions'
  BY <1>1 DEF Discover, SessionHeld, HeldFiles, HeldResolutions
<1> QED BY <1>3, <1>4

LEMMA ResolveHeld ==
  ASSUME BaseInv, SessionHeld, NEW fs \in SUBSET files, NEW more \in SUBSET files,
         files # Unwalked, ResolveThe(fs, more), NothingReported
  PROVE  /\ HeldTexts' /\ HeldFiles' /\ HeldResolutions'
         /\ \A f \in fs : ReadOf(f).parses => resolutions'[f] = Resolution(f)
<1>1. Unseen' = Unseen /\ Dirty' = Dirty /\ OnDisk' = OnDisk /\ disk' = disk
  BY DEF ResolveThe, Unseen, Dirty, OnDisk, NothingReported
<1>2. sources' = Reading(fs \cup more) /\ files' = files
  BY DEF ResolveThe
<1>3. \A f \in DOMAIN sources' : sources'[f] = disk[f] \/ f \in Dirty
  BY <1>2 DEF Reading, ReadOf, SessionHeld, HeldTexts
<1>4. HeldTexts' /\ HeldFiles'
  BY <1>1, <1>2, <1>3 DEF HeldTexts, HeldFiles, SessionHeld
<1> DEFINE parsed == {f \in fs : ReadOf(f).parses}
<1>5. resolutions' = [f \in DOMAIN resolutions \cup parsed |->
                        IF f \in parsed THEN Resolution(f) ELSE resolutions[f]]
  BY DEF ResolveThe
<1>6. \A f \in fs : ReadOf(f).parses => resolutions'[f] = Resolution(f)
  BY <1>5
<1>7. ASSUME NEW f \in parsed
      PROVE  \E there \in SUBSET Files :
               /\ Resolution(f).to = Links(Resolution(f).of, Resolution(f).under, there)
               /\ Resolution(f).under \cap OnDisk \subseteq there
  <2>1. CASE ResolutionFresh(f)
    BY <2>1 DEF Resolution, ResolutionFresh, SessionHeld, HeldResolutions
  <2>2. CASE ~ResolutionFresh(f)
    <3>1. OnDisk \in SUBSET Files
      BY DEF OnDisk
    <3>2. /\ Resolution(f).to = Links(Resolution(f).of, Resolution(f).under, OnDisk)
          /\ Resolution(f).under \cap OnDisk \subseteq OnDisk
      BY <2>2 DEF Resolution
    <3> QED BY <3>1, <3>2
  <2> QED BY <2>1, <2>2
<1>8. HeldResolutions'
  <2> SUFFICES ASSUME NEW f \in DOMAIN resolutions'
               PROVE  \E there \in SUBSET Files :
                        /\ resolutions'[f].to =
                             Links(resolutions'[f].of, resolutions'[f].under, there)
                        /\ resolutions'[f].under \cap OnDisk \subseteq there
    BY <1>1 DEF HeldResolutions
  <2> HIDE DEF parsed
  <2>1. CASE f \in parsed
    BY <1>5, <1>7, <2>1
  <2>2. CASE f \notin parsed
    BY <1>5, <2>2 DEF SessionHeld, HeldResolutions
  <2> QED BY <2>1, <2>2
<1> QED BY <1>4, <1>6, <1>8

LEMMA ReadAllDiscovers ==
  ASSUME BaseInv, ReadAll
  PROVE  Discovered'
<1>1. Wanted \in SUBSET Files
  BY WantedFiles DEF ReadAll, Stages, BaseInv
<1>2. Wanted' = Wanted
  BY DEF ReadAll, Discover, Wanted
<1>3. ASSUME NEW f \in Wanted PROVE HasRead(f)'
  <2>1. /\ f \in DOMAIN discoveries' /\ f \in DOMAIN sources'
        /\ discoveries'[f] = Entry(f) /\ DOMAIN Entry(f).deps \subseteq DOMAIN sources'
        /\ \A g \in DOMAIN sources' : sources'[g] = ReadOf(g)
    BY <1>1, DiscoverIs DEF ReadAll, BaseInv
  <2>2. /\ Entry(f).of = ReadOf(f)
        /\ \A g \in DOMAIN Entry(f).deps : Entry(f).deps[g] = ReadOf(g)
    BY <1>1, EntryIs DEF ReadAll, BaseInv
  <2> QED BY <2>1, <2>2 DEF HasRead
<1> QED BY <1>2, <1>3 DEF Discovered

LEMMA CheckHeld ==
  ASSUME BaseInv, SessionHeld, CheckStep, NothingReported
  PROVE  SessionHeld'
<1>1. CASE BeginCheck
  BY <1>1, BeginHeld
<1>2. CASE Walk
  BY <1>2, WalkHeld
<1>3. CASE ReadAll
  <2>1. Wanted \in SUBSET Files
    BY <1>3, WantedFiles DEF ReadAll, Stages, BaseInv
  <2>2. HeldTexts' /\ HeldFiles' /\ HeldResolutions'
    BY <1>3, <2>1, ReadHeld DEF ReadAll
  <2> QED BY <1>3, <2>2, ReadAllDiscovers DEF SessionHeld
<1>4. CASE ReadStops
  <2>1. PICK u \in Wanted : /\ \A f \in Earlier(Wanted, u) : ReadOf(f) # Unreadable
                            /\ Discover(Earlier(Wanted, u), {u})
    BY <1>4 DEF ReadStops
  <2>2. {u} \in SUBSET Files /\ Earlier(Wanted, u) \in SUBSET Files
    BY <1>4, <2>1, WantedFiles DEF Stages, ReadStops, BaseInv
  <2>3. HeldTexts' /\ HeldFiles' /\ HeldResolutions'
    BY <2>1, <2>2, ReadHeld
  <2> QED BY <1>4, <2>3 DEF SessionHeld, Discovered, ReadStops
<1>5. CASE ResolveAll
  <2>1. files # Unwalked /\ ResolveThe(files, {}) /\ checking' = "no"
    BY <1>5 DEF ResolveAll, Stages, BaseInv
  <2>2. HeldTexts' /\ HeldFiles' /\ HeldResolutions'
    BY <2>1, ResolveHeld
  <2> QED BY <2>1, <2>2 DEF SessionHeld, Discovered
<1>6. CASE ResolveStops
  <2>1. PICK u \in files : ResolveThe(Earlier(files, u), {u})
    BY <1>6 DEF ResolveStops
  <2>2. files # Unwalked /\ checking' = "no" /\ Earlier(files, u) \in SUBSET files
    BY <1>6, <2>1 DEF Stages, ResolveStops, BaseInv, Earlier
  <2>3. HeldTexts' /\ HeldFiles' /\ HeldResolutions'
    BY <2>1, <2>2, ResolveHeld
  <2> QED BY <2>2, <2>3 DEF SessionHeld, Discovered
<1> QED BY <1>1, <1>2, <1>3, <1>4, <1>5, <1>6 DEF CheckStep

(* An edit that puts nothing back that a resolution had to do without.     *)
LEMMA EditHeld ==
  ASSUME Hasty = {}, BaseInv, SessionHeld, NEW path \in Paths, NEW text,
         Edit(Dropped({path}), text, path)
  PROVE  SessionHeld'
<1> DEFINE fs == Dropped({path})
<1>1. /\ disk' = [f \in Files |-> IF f \in fs THEN text[f] ELSE disk[f]]
      /\ \A f \in fs : disk[f] = Unreadable /\ text[f] # Unreadable => Forgotten(f)
      /\ UNCHANGED <<files, sources, discoveries, resolutions, updates, checking, pendingChanges>>
      /\ pass = "down" \/ watching
  BY DEF Edit, Ready, sessionVars
<1>2. CASE ~watching
  <2>1. files' = Unwalked /\ sources' = << >> /\ resolutions' = << >> /\ checking' = "no"
    BY <1>1, <1>2 DEF BaseInv, NoSession, Stages
  <2>2. \A x : x \notin DOMAIN << >>
    OBVIOUS
  <2> QED BY <2>1, <2>2 DEF SessionHeld, HeldTexts, HeldFiles, HeldResolutions, Discovered
<1>3. CASE watching
  <2>1. reports' = reports \cup {path}
    BY <1>3 DEF Edit, Changed
  <2>2. Unseen' = Unseen \cup {path}
    BY <1>1, <2>1 DEF Unseen
  <2>3. Dirty' = Dirty \cup fs
    BY <2>2, DroppedParts DEF Dirty
  <2> HIDE DEF fs
  <2>4. \A f \in Files : f \notin fs => disk'[f] = disk[f]
    BY <1>1
  <2>5. HeldTexts'
    <3>1. DOMAIN sources \subseteq Files
      BY DEF BaseInv, TInv, TypeOK
    <3> QED BY <1>1, <2>3, <2>4, <3>1 DEF SessionHeld, HeldTexts
  <2>6. HeldFiles'
    BY <1>1, <2>3, <2>4 DEF SessionHeld, HeldFiles, OnDisk
  <2>7. \A f \in DOMAIN resolutions :
          resolutions[f].under \cap OnDisk' \subseteq resolutions[f].under \cap OnDisk
    BY <1>1 DEF OnDisk, Forgotten
  <2>8. HeldResolutions'
    <3> SUFFICES ASSUME NEW f \in DOMAIN resolutions
                 PROVE  \E there \in SUBSET Files :
                          /\ resolutions[f].to =
                               Links(resolutions[f].of, resolutions[f].under, there)
                          /\ resolutions[f].under \cap OnDisk' \subseteq there
      BY <1>1 DEF HeldResolutions
    <3>1. PICK there \in SUBSET Files :
            /\ resolutions[f].to = Links(resolutions[f].of, resolutions[f].under, there)
            /\ resolutions[f].under \cap OnDisk \subseteq there
      BY DEF SessionHeld, HeldResolutions
    <3>2. resolutions[f].under \cap OnDisk' \subseteq there
      BY <2>7, <3>1
    <3> QED BY <3>1, <3>2
  <2>9. Discovered'
    BY <1>1 DEF SessionHeld, Discovered, Wanted, HasRead
  <2> QED BY <2>5, <2>6, <2>8, <2>9 DEF SessionHeld
<1> QED BY <1>2, <1>3

LEMMA NextHeld ==
  ASSUME Hasty = {}, BaseInv, SessionHeld, [Next]_vars
  PROVE  SessionHeld'
<1>1. CASE Check
  BY <1>1, CheckHeld, CheckCases DEF Check, loopVars, NothingReported
<1>2. CASE CheckEnds
  <2>1. NothingReported
    BY <1>2, NotPaths DEF CheckEnds, Changed, ResolveAll, ResolveThe, NothingReported
  <2> QED BY <1>2, <2>1, CheckHeld DEF CheckEnds, CheckStep
<1>3. CASE Gate \/ Prune \/ WriteLedger \/ EndOfPass
  <2>1. reports \subseteq reports'
        /\ UNCHANGED <<disk, files, sources, discoveries, resolutions, checking, updates, pendingChanges>>
    BY <1>3 DEF Gate, Prune, WriteLedger, EndOfPass, Changed, sessionVars, loopVars
  <2>2. Unseen \subseteq Unseen'
    BY <2>1 DEF Unseen
  <2> QED BY <2>1, <2>2, SessionKept
<1>4. CASE Debounced
  BY <1>4, SessionKept DEF Debounced, sessionVars, Unseen
<1>5. CASE \E p \in reports : Reported(p)
  <2>1. PICK p \in reports : Reported(p)
    BY <1>5
  <2>2. p \in Paths => p \in pendingChanges'
    BY <2>1, NotPaths DEF Reported, ShouldRebuild, IsOwnWrite
  <2>3. reports' = reports \ {p} /\ pendingChanges \subseteq pendingChanges'
        /\ UNCHANGED <<disk, files, sources, discoveries, resolutions, checking, updates>>
    BY <2>1 DEF Reported, sessionVars
  <2>4. Unseen \subseteq Unseen'
    BY <2>2, <2>3 DEF Unseen
  <2> QED BY <2>3, <2>4, SessionKept
<1>6. CASE TakeChanges
  <2>1. CASE NeedsNewSession(pendingChanges)
    BY <1>6, <2>1, SessionNew DEF TakeChanges, Upkeep
  <2>2. CASE ~NeedsNewSession(pendingChanges)
    BY <1>6, <2>2, SessionKept DEF TakeChanges, Unseen
  <2> QED BY <2>1, <2>2
<1>7. CASE Start
  BY <1>7, SessionNew DEF Start, Upkeep
<1>8. CASE AnyEdit
  BY <1>8, EditHeld DEF AnyEdit
<1>9. CASE \E t \in Tsconfigs : EditTsconfig(t)
  <2>1. reports \subseteq reports'
        /\ UNCHANGED <<disk, files, sources, discoveries, resolutions, checking, updates, pendingChanges>>
    BY <1>9 DEF EditTsconfig, Changed, sessionVars
  <2>2. Unseen \subseteq Unseen'
    BY <2>1 DEF Unseen
  <2> QED BY <2>1, <2>2, SessionKept
<1>10. CASE Kill
  BY <1>10, SessionNew DEF Kill
<1>11. CASE UNCHANGED vars
  BY <1>11, SessionKept DEF vars, sessionVars, loopVars, Unseen
<1> QED BY <1>1, <1>2, <1>3, <1>4, <1>5, <1>6, <1>7, <1>8, <1>9, <1>10, <1>11, UserCases
        DEF Next, Loop

-----------------------------------------------------------------------------
(* A check that misses no change concludes what a clean one would.         *)

LEMMA LinksSame ==
  ASSUME NEW c, NEW F, NEW A, F \subseteq A
  PROVE  Links(c, F, A) = Links(c, F, F)
<1>1. F \cap A = F \cap F
  OBVIOUS
<1> QED BY <1>1 DEF Links

LEMMA ReadAsOnDisk ==
  ASSUME BaseInv, SessionHeld, checking = "resolve", Unseen = {}, NEW f \in Wanted
  PROVE  /\ discoveries[f].of = disk[f]
         /\ discoveries[f].deps = Reads(disk[f], disk)
<1>1. HasRead(f)
  BY DEF SessionHeld, Discovered
<1>2. discoveries[f].of = disk[f] /\ discoveries[f].of \in Contents
  BY <1>1, AllSeen DEF HasRead, BaseInv, TInv, HeldDiscoveries
<1>3. PICK r \in [Files -> Texts] : discoveries[f].deps = Reads(disk[f], r)
  BY <1>1, <1>2 DEF HasRead, BaseInv, TInv, HeldDiscoveries
<1>4. \A g \in DOMAIN Reads(disk[f], r) : Reads(disk[f], r)[g] = disk[g]
  BY <1>1, <1>3, AllSeen DEF HasRead
<1>5. disk \in [Files -> Texts]
  BY DEF BaseInv, TInv, TypeOK, Texts
<1> QED BY <1>2, <1>3, <1>4, <1>5, ReadsSame

LEMMA LinksAsOnDisk ==
  ASSUME BaseInv, SessionHeld, files = OnDisk, NEW f \in files, ReadOf(f) = disk[f]
  PROVE  Resolution(f).to = Links(disk[f], OnDisk, OnDisk)
<1>1. CASE ResolutionFresh(f)
  <2>1. PICK there \in SUBSET Files :
          /\ resolutions[f].to = Links(resolutions[f].of, resolutions[f].under, there)
          /\ resolutions[f].under \cap OnDisk \subseteq there
    BY <1>1 DEF ResolutionFresh, SessionHeld, HeldResolutions
  <2>2. resolutions[f].of = disk[f] /\ resolutions[f].under = OnDisk /\ OnDisk \subseteq there
    BY <1>1, <2>1 DEF ResolutionFresh
  <2> QED BY <1>1, <2>1, <2>2, LinksSame DEF Resolution
<1>2. CASE ~ResolutionFresh(f)
  BY <1>2 DEF Resolution
<1> QED BY <1>1, <1>2

LEMMA ConcludedIsClean ==
  ASSUME BaseInv, SessionHeld, ResolveAll, Unseen = {}
  PROVE  output' = CleanCheck(disk, input)
<1>1. files = OnDisk /\ files \subseteq Files
  BY AllSeen DEF ResolveAll, BaseInv, Stages, TInv, TypeOK
<1>2. /\ ResolveThe(files, {}) /\ output' = Concluded' /\ files' = files /\ input' = input
      /\ discoveries' = discoveries /\ disk' = disk /\ sources' = Reading(files \cup {})
  BY DEF ResolveAll, ResolveThe
<1>3. \A f \in Files : ReadOf(f) = disk[f] /\ ReadOf(f)' = disk[f]
  BY <1>2, AllSeen DEF Reading, ReadOf
<1>4. ASSUME NEW f \in files
      PROVE  Found(f)' = Discovery(disk[f], IF KindOf[f] = "test" THEN << >>
                                            ELSE Reads(disk[f], disk))
  <2>1. CASE KindOf[f] = "test"
    BY <1>1, <1>3, <2>1 DEF Found
  <2>2. CASE KindOf[f] # "test"
    <3>1. f \in Wanted /\ checking = "resolve"
      BY <2>2 DEF Wanted, ResolveAll
    <3> QED BY <1>2, <2>2, <3>1, ReadAsOnDisk DEF Found
  <2> QED BY <2>1, <2>2
<1>5. ASSUME NEW f \in files PROVE LinksOf(f)' = Links(disk[f], OnDisk, OnDisk)
  <2>1. ReadOf(f) = disk[f] /\ ReadOf(f)' = disk[f]
    BY <1>1, <1>3
  <2>2. CASE disk[f].parses
    <3>2. resolutions'[f] = Resolution(f)
      <4>1. resolutions' = [g \in DOMAIN resolutions \cup {h \in files : ReadOf(h).parses} |->
              IF g \in {h \in files : ReadOf(h).parses} THEN Resolution(g) ELSE resolutions[g]]
        BY <1>2 DEF ResolveThe
      <4> QED BY <2>1, <2>2, <4>1
    <3> QED BY <1>1, <2>1, <2>2, <3>2, LinksAsOnDisk DEF LinksOf
  <2>3. CASE ~disk[f].parses
    BY <2>1, <2>3 DEF LinksOf, Links
  <2> QED BY <2>2, <2>3
<1>6. Concluded' = Report(files, [f \in files |-> Found(f)'],
                          [f \in files |-> LinksOf(f)'], input)
  BY <1>2 DEF Concluded
<1> DEFINE found == [f \in files |-> Discovery(disk[f],
                       IF KindOf[f] = "test" THEN << >> ELSE Reads(disk[f], disk))]
           links == [f \in files |-> Links(disk[f], OnDisk, OnDisk)]
<1>7. [f \in files |-> Found(f)'] = found /\ [f \in files |-> LinksOf(f)'] = links
  BY <1>4, <1>5
<1>8. CleanCheck(disk, input) = Report(files, found, links, input)
  BY <1>1 DEF CleanCheck, OnDisk
<1> QED BY <1>2, <1>6, <1>7, <1>8

(* A check that stops has come upon a change.                              *)
LEMMA StopsAreUnseen ==
  ASSUME BaseInv, SessionHeld, ReadStops \/ ResolveStops
  PROVE  Unseen # {}
<1>1. PICK u \in files : ReadOf(u) = Unreadable
  BY DEF ReadStops, ResolveStops, Wanted
<1>2. files # Unwalked /\ files \subseteq Files
  BY DEF ReadStops, ResolveStops, BaseInv, Stages, TInv, TypeOK
<1> QED BY <1>1, <1>2, AllSeen DEF OnDisk

LEMMA NextTsconfig ==
  ASSUME Hasty = {}, BaseInv, HasTsconfig, [Next]_vars
  PROVE  HasTsconfig'
<1>0. tsconfig \in Tsconfigs /\ Nothing \notin Tsconfigs
  BY WatchAssumption DEF BaseInv, TInv, TypeOK
<1>1. CASE Check \/ CheckEnds
  <2>1. /\ pass = "check" /\ pass' # "down" /\ reports \subseteq reports'
        /\ UNCHANGED <<tsconfig, tsconfigWrite, pendingChanges>>
    BY <1>1 DEF Check, CheckEnds, Changed, loopVars
  <2>2. input' = input
    BY <1>1, CheckCases, CheckDoes DEF CheckEnds, CheckStep, BaseInv
  <2> QED BY <2>1, <2>2 DEF HasTsconfig
<1>2. CASE Gate \/ Prune \/ WriteLedger \/ EndOfPass
  <2>1. /\ pass # "down" /\ pass' # "down" /\ reports \subseteq reports'
        /\ UNCHANGED <<tsconfig, tsconfigWrite, pendingChanges, input>>
    BY <1>2 DEF Gate, Prune, WriteLedger, EndOfPass, Changed, sessionVars, loopVars
  <2> QED BY <2>1 DEF HasTsconfig
<1>3. CASE Debounced
  <2>1. pass # "down" /\ pass' # "down"
    BY <1>3 DEF Debounced, BaseInv, Scheduled
  <2> QED BY <1>3, <2>1 DEF Debounced, sessionVars, HasTsconfig
<1>4. CASE \E p \in reports : Reported(p)
  <2>1. PICK p \in reports : Reported(p)
    BY <1>4
  <2>2. reports' = reports \ {p} /\ UNCHANGED <<tsconfig, tsconfigWrite, input, pass>>
    BY <2>1 DEF Reported, sessionVars
  <2>3. /\ pendingChanges \subseteq pendingChanges'
        /\ p = Tsconfig => p \in pendingChanges' \/ tsconfig = tsconfigWrite
    BY <2>1 DEF Reported, ShouldRebuild, IsOwnWrite, Tsconfig, Generated
  <2> QED BY <2>2, <2>3 DEF HasTsconfig
<1>5. ASSUME Upkeep, pass' # "down" PROVE HasTsconfig'
  BY <1>0, <1>5, UpkeepDoes, WatchAssumption DEF HasTsconfig, BaseInv, TInv
<1>6. CASE TakeChanges
  <2>1. CASE NeedsNewSession(pendingChanges)
    BY <1>5, <1>6, <2>1 DEF TakeChanges
  <2>2. CASE ~NeedsNewSession(pendingChanges)
    BY <1>6, <2>2 DEF TakeChanges, NeedsNewSession, HasTsconfig
  <2> QED BY <2>1, <2>2
<1>7. CASE Start
  BY <1>5, <1>7 DEF Start
<1>8. CASE AnyEdit
  <2>1. reports \subseteq reports'
        /\ UNCHANGED <<tsconfig, tsconfigWrite, pendingChanges, input, pass>>
    BY <1>8 DEF AnyEdit, Edit, Changed, sessionVars
  <2> QED BY <2>1 DEF HasTsconfig
<1>9. CASE \E t \in Tsconfigs : EditTsconfig(t)
  <2>1. /\ tsconfig' # tsconfigWrite' /\ pass' = pass
        /\ pass = "down" \/ Tsconfig \in reports'
    BY <1>9 DEF EditTsconfig, Ready, Changed
  <2> QED BY <2>1 DEF HasTsconfig
<1>10. CASE Kill
  BY <1>0, <1>10 DEF Kill, HasTsconfig
<1>11. CASE UNCHANGED vars
  BY <1>11 DEF vars, sessionVars, loopVars, HasTsconfig
<1> QED BY <1>1, <1>2, <1>3, <1>4, <1>6, <1>7, <1>8, <1>9, <1>10, <1>11, UserCases
        DEF Next, Loop

LEMMA NextOutput ==
  ASSUME Hasty = {}, BaseInv, SessionHeld, LastOutput, [Next]_vars
  PROVE  LastOutput'
<1>1. CASE Check
  <2>1. CASE pass' = "check"
    BY <2>1 DEF LastOutput
  <2>2. CASE pass' # "check"
    <3>1. ReadStops \/ ResolveStops
      BY <1>1, <2>2 DEF Check
    <3>2. UNCHANGED <<updates, pendingChanges, reports>>
      BY <1>1, <3>1 DEF Check, loopVars, ReadStops, ResolveStops, Discover, ResolveThe
    <3> QED BY <3>1, <3>2, StopsAreUnseen DEF LastOutput, Unseen
  <2> QED BY <2>1, <2>2
<1>2. CASE CheckEnds
  <2>1. UNCHANGED <<disk, input, updates, pendingChanges>> /\ reports \subseteq reports'
    BY <1>2 DEF CheckEnds, ResolveAll, ResolveThe, Changed
  <2>2. Unseen # {} => Unseen' # {}
    BY <2>1 DEF Unseen
  <2>3. Unseen = {} => output' = CleanCheck(disk, input)
    BY <1>2, ConcludedIsClean DEF CheckEnds
  <2> QED BY <2>1, <2>2, <2>3 DEF LastOutput
<1>3. CASE Gate \/ Prune \/ WriteLedger \/ EndOfPass
  <2>1. /\ pass \in {"gate", "prune", "ledger", "end", "idle"} /\ reports \subseteq reports'
        /\ UNCHANGED <<disk, input, output, updates, pendingChanges>>
    BY <1>3 DEF Gate, Prune, WriteLedger, EndOfPass, Changed, sessionVars, loopVars
  <2> QED BY <2>1 DEF LastOutput, Unseen
<1>4. CASE Debounced
  BY <1>4 DEF Debounced, sessionVars, LastOutput, Unseen
<1>5. CASE \E p \in reports : Reported(p)
  <2>1. PICK p \in reports : Reported(p)
    BY <1>5
  <2>2. p \in Paths => p \in pendingChanges'
    BY <2>1, NotPaths DEF Reported, ShouldRebuild, IsOwnWrite
  <2>3. reports' = reports \ {p} /\ pendingChanges \subseteq pendingChanges'
        /\ UNCHANGED <<disk, input, output, updates, pass>>
    BY <2>1 DEF Reported, sessionVars
  <2>4. Unseen \subseteq Unseen'
    BY <2>2, <2>3 DEF Unseen
  <2> QED BY <2>3, <2>4 DEF LastOutput
<1>6. CASE TakeChanges \/ Start \/ Kill
  BY <1>6 DEF TakeChanges, Start, Kill, LastOutput
<1>7. CASE AnyEdit
  <2>1. PICK path \in Paths : \E fs, text : Edit(fs, text, path)
    BY <1>7 DEF AnyEdit
  <2>2. pass' = pass /\ (pass = "down" \/ path \in reports')
    BY <2>1 DEF Edit, Ready, Changed
  <2> QED BY <2>1, <2>2 DEF LastOutput, Unseen
<1>8. CASE \E t \in Tsconfigs : EditTsconfig(t)
  <2>1. reports \subseteq reports'
        /\ UNCHANGED <<disk, input, output, updates, pendingChanges, pass>>
    BY <1>8 DEF EditTsconfig, Changed, sessionVars
  <2> QED BY <2>1 DEF LastOutput, Unseen
<1>9. CASE UNCHANGED vars
  BY <1>9 DEF vars, sessionVars, loopVars, LastOutput, Unseen
<1> QED BY <1>1, <1>2, <1>3, <1>4, <1>5, <1>6, <1>7, <1>8, <1>9, UserCases
        DEF Next, Loop

LEMMA QuietIsClean == IInv => OutputIsClean
<1> SUFFICES ASSUME IInv, Quiet
             PROVE  pendingChanges = {} /\ output = CleanCheck(disk, Kept[tsconfig])
  BY DEF OutputIsClean
<1>1. pendingChanges = {} /\ reports = {} /\ updates = {}
  BY DEF IInv, BaseInv, Scheduled, Stages, Quiet
<1>2. input = Kept[tsconfig]
  BY <1>1 DEF IInv, HasTsconfig, Quiet
<1> QED BY <1>1, <1>2 DEF IInv, LastOutput, Quiet, Unseen

(* When the loop is quiet, the last output is the one a clean check of the *)
(* project would give, provided that nobody edits before the watcher is    *)
(* up, puts back a file that the session resolved without, or writes       *)
(* tsconfig.json back to what the upkeep had made of it (Hasty).           *)
THEOREM QuietOutputIsClean ==
  ASSUME Hasty = {}
  PROVE  Spec => []OutputIsClean
<1>1. Init => IInv
  <2> SUFFICES ASSUME Init PROVE IInv
    OBVIOUS
  <2>1. \A x : x \notin DOMAIN << >>
    OBVIOUS
  <2>2. HasTsconfig
    BY WatchAssumption DEF Init, HasTsconfig
  <2>3. SessionHeld /\ LastOutput
    BY <2>1 DEF Init, SessionHeld, HeldTexts, HeldFiles, HeldResolutions, Discovered, LastOutput
  <2> QED BY <2>2, <2>3, InitBase DEF IInv
<1>2. IInv /\ [Next]_vars => IInv'
  BY NextBase, NextTsconfig, NextHeld, NextOutput DEF IInv
<1> QED BY <1>1, <1>2, QuietIsClean, PTL DEF Spec

-----------------------------------------------------------------------------
(* What a run under way has staged (r is run[c]).                          *)

(* Everything it would publish is its version's release build.             *)
Clean(c) ==
  /\ \A t \in run[c].targets : native[c][t] = ReleaseBuild(version[c])
  /\ wrapper[c] \subseteq {version[c]}

RunBuildOk(c) ==
  run[c].phase = "build" =>
    /\ run[c].todo \subseteq Targets /\ run[c].todo \cap run[c].targets = {}
    /\ ~ run[c].assemble

StagedOk(c) ==
  /\ ~ run[c].assemble /\ run[c].phase # "publish" => Clean(c)
  /\ \A t \in run[c].targets : native[c][t] # None
  /\ run[c].cmd = "build-native" => run[c].phase # "publish" /\ ~ run[c].assemble

(* A run that publishes has its leftovers on record, has said what it      *)
(* publishes and has published what it is through with.                    *)
PublishOk(c) ==
  run[c].phase = "publish" =>
    /\ run[c].cmd = "publish"
    /\ run[c].todo \subseteq run[c].targets \cup Workspace
    /\ run[c].targets \in sets[version[c]]
    /\ version[c] \in wrapper[c]
    /\ \/ Clean(c)
       \/ /\ version[c] \in leftovers
          /\ \A t \in run[c].targets : native[c][t].version \in leftovers
    /\ version[c] \notin leftovers =>
         \A p \in (run[c].targets \cup Workspace) \ run[c].todo : published(p, version[c])

RunOk(c) == run[c] # None => RunBuildOk(c) /\ StagedOk(c) /\ PublishOk(c)

(* The compiler's manifest names the targets of some run, and a run that   *)
(* succeeded is one that set out to publish.                               *)
CompilerOk ==
  \A v \in Versions : published("compiler", v) =>
    \E ts \in sets[v] : registry["compiler"][v].needs = {"core"} \cup ts

ShippedOk ==
  \A s \in shipped :
    /\ s.targets \in sets[s.version]
    /\ s.version \notin leftovers =>
         \A p \in s.targets \cup Workspace : published(p, s.version)

ReleaseInv ==
  /\ ReleaseTypeOK
  /\ \A c \in Checkouts : RunOk(c)
  /\ CompilerOk
  /\ ShippedOk
  /\ Installable
  /\ BuiltFromItsVersion
-----------------------------------------------------------------------------
(* Operators.                                                              *)

LEMMA TargetFacts ==
  /\ Targets \cap Workspace = {}
  /\ \A c \in Checkouts : Host[c] \in Targets
  /\ "compiler" \in Workspace /\ "core" \in Workspace
BY ReleaseAssumption DEF Workspace

LEMMA ReleaseBuildType ==
  ASSUME NEW v \in Versions
  PROVE  /\ ReleaseBuild(v) \in NativePackage
         /\ [ReleaseBuild(v) EXCEPT !.license = FALSE] \in NativePackage
         /\ ReleaseBuild(v).version = v /\ ReleaseBuild(v).built = v
         /\ ReleaseBuild(v).profile = "release"
BY DEF ReleaseBuild, NativePackage

(* What is not None is a package, a command or a manifest, and no package  *)
(* is None.                                                                *)
LEMMA NoneFacts ==
  /\ None \notin NativePackage /\ None \notin Commands /\ None \notin Manifest
BY NoneAssumption

(* A package is published after everything it needs.                       *)
LEMMA NeedsRankBelow ==
  ASSUME NEW ts \in SUBSET Targets, NEW p \in ts \cup Workspace, NEW q \in Needs(p, ts)
  PROVE  q \in ts \cup Workspace /\ ~ (PublishOrder(p) <= PublishOrder(q))
<1>0. Targets \cap Workspace = {} /\ p \in Packages
  BY ReleaseAssumption DEF Packages
<1>1. CASE p \in Targets \cup {"core"}
  <2>1. Needs(p, ts) = {}
    BY <1>1 DEF Needs
  <2> QED BY <2>1
<1>2. CASE p = "compiler"
  <2>1. Needs(p, ts) = {"core"} \cup ts /\ PublishOrder(p) = 2
    BY <1>0, <1>2 DEF Needs, PublishOrder, Workspace
  <2>2. CASE q = "core"
    BY <1>0, <2>1, <2>2 DEF PublishOrder, Workspace
  <2>3. CASE q \in ts
    <3>1. PublishOrder(q) = 0
      BY <2>3 DEF PublishOrder
    <3> QED BY <2>1, <2>3, <3>1
  <2> QED BY <2>1, <2>2, <2>3
<1>3. CASE p = "aruna"
  <2>1. Needs(p, ts) = {"core", "compiler"} /\ PublishOrder(p) = 3
    BY <1>0, <1>3 DEF Needs, PublishOrder, Workspace
  <2>2. PublishOrder("core") = 1 /\ PublishOrder("compiler") = 2
    BY <1>0 DEF PublishOrder, Workspace
  <2>3. CASE q = "core"
    BY <2>1, <2>2, <2>3 DEF Workspace
  <2>4. CASE q = "compiler"
    BY <2>1, <2>2, <2>4 DEF Workspace
  <2> QED BY <2>1, <2>3, <2>4
<1>4. CASE p = "create-aruna-app"
  <2>1. Needs(p, ts) = {"aruna"} /\ PublishOrder(p) = 4 /\ PublishOrder("aruna") = 3
    BY <1>0, <1>4 DEF Needs, PublishOrder, Workspace
  <2> QED BY <2>1 DEF Workspace
<1> QED BY <1>1, <1>2, <1>3, <1>4 DEF Workspace

-----------------------------------------------------------------------------
(* Types.                                                                  *)

LEMMA CommandType ==
  ASSUME NEW c \in Checkouts, ReleaseTypeOK, run[c] # None
  PROVE  /\ run[c] \in Commands
         /\ run[c].cmd \in {"prepare", "publish", "build-native"}
         /\ run[c].phase \in {"build", "stage", "publish"}
         /\ run[c].env \in Environments /\ run[c].assemble \in BOOLEAN
         /\ run[c].targets \subseteq Targets /\ run[c].todo \subseteq Packages
<1>1. run[c] \in Commands
  BY DEF ReleaseTypeOK
<1> QED BY <1>1 DEF Commands

LEMMA TypeInit == ReleaseInit => ReleaseTypeOK
<1> SUFFICES ASSUME ReleaseInit PROVE ReleaseTypeOK
  OBVIOUS
<1> QED BY DEF ReleaseInit, ReleaseTypeOK

LEMMA TypeStart ==
  ASSUME ReleaseTypeOK, NEW c \in Checkouts, NEW cmd \in {"prepare", "publish", "build-native"},
         NEW ts \in SUBSET Targets, NEW env \in Environments,
         StartRelease(c, cmd, ts, env) \/ StartAssemble(c, cmd, env)
  PROVE  ReleaseTypeOK'
<1>1. CASE StartRelease(c, cmd, ts, env)
  <2>1. [cmd |-> cmd, phase |-> "build", env |-> env, assemble |-> FALSE,
         targets |-> {}, todo |-> ts] \in Commands
    BY DEF Commands, Packages
  <2> QED BY <1>1, <2>1 DEF ReleaseTypeOK, StartRelease, history
<1>2. CASE StartAssemble(c, cmd, env)
  <2>1. [cmd |-> cmd, phase |-> "stage", env |-> env, assemble |-> TRUE,
         targets |-> discoverStagedNativeTargets(c), todo |-> {}] \in Commands
    BY DEF Commands, discoverStagedNativeTargets
  <2> QED BY <1>2, <2>1 DEF ReleaseTypeOK, StartAssemble, history
<1> QED BY <1>1, <1>2

LEMMA TypeBuild ==
  ASSUME ReleaseTypeOK, NEW c \in Checkouts, NEW t \in Targets, BuildTarget(c, t) \/ Stop(c, t)
  PROVE  ReleaseTypeOK'
<1>0. version[c] \in Versions
  BY DEF ReleaseTypeOK
<1>1. CASE BuildTarget(c, t)
  <2>1. run[c] \in Commands
    BY <1>1 DEF ReleaseTypeOK, BuildTarget
  <2>2. run'[c] \in Commands
    <3>1. PICK todo \in SUBSET Packages, targets \in SUBSET Targets, phase \in {"build", "stage", "publish"} :
            run' = [run EXCEPT ![c].todo = todo, ![c].targets = targets, ![c].phase = phase]
      <4> DEFINE todo == run[c].todo \ {t}
                 targets == IF selectNativeBuildTool(t, Host[c], run[c].env) = "build"
                            THEN run[c].targets \cup {t} ELSE run[c].targets
                 phase == IF run[c].todo = {t} THEN "stage" ELSE run[c].phase
      <4>1. todo \in SUBSET Packages /\ targets \in SUBSET Targets
            /\ phase \in {"build", "stage", "publish"}
        BY <2>1 DEF Commands
      <4>2. run' = [run EXCEPT ![c].todo = todo, ![c].targets = targets, ![c].phase = phase]
        BY <1>1 DEF BuildTarget
      <4> QED BY <4>1, <4>2
    <3> QED BY <2>1, <3>1 DEF Commands, ReleaseTypeOK
  <2>3. run' = [run EXCEPT ![c] = run'[c]]
    BY <1>1 DEF BuildTarget, ReleaseTypeOK
  <2> QED BY <1>0, <1>1, <2>2, <2>3, ReleaseBuildType DEF ReleaseTypeOK, BuildTarget, history
<1>2. CASE Stop(c, t)
  BY <1>0, <1>2, ReleaseBuildType DEF ReleaseTypeOK, Stop, history
<1> QED BY <1>1, <1>2

LEMMA TypeStage ==
  ASSUME ReleaseTypeOK, NEW c \in Checkouts, Stage(c), RunOk(c)
  PROVE  ReleaseTypeOK'
<1> DEFINE r == run[c]
           v == version[c]
<1>0. v \in Versions /\ r # None /\ r \in Commands /\ r.targets \subseteq Targets
  BY CommandType DEF ReleaseTypeOK, Stage
<1>1. wrapper' \in [Checkouts -> SUBSET Versions]
  BY <1>0 DEF ReleaseTypeOK, Stage
<1>2. run' \in [Checkouts -> Commands \cup {None}]
  <2>1. CASE run' = [run EXCEPT ![c] = None]
    BY <2>1 DEF ReleaseTypeOK
  <2>2. CASE run' = [run EXCEPT ![c].phase = "publish", ![c].todo = r.targets \cup Workspace]
    <3>1. [r EXCEPT !.phase = "publish", !.todo = r.targets \cup Workspace] \in Commands
      BY <1>0 DEF Commands, Packages
    <3>2. run' = [run EXCEPT ![c] = [r EXCEPT !.phase = "publish", !.todo = r.targets \cup Workspace]]
      BY <2>2
    <3> QED BY <3>1, <3>2 DEF ReleaseTypeOK
  <2> QED BY <2>1, <2>2 DEF Stage
<1>3. \A t \in r.targets : native[c][t].version \in Versions
  BY <1>0, NoneFacts DEF ReleaseTypeOK, RunOk, StagedOk, NativePackage
<1>4. leftovers' \subseteq Versions
  <2> DEFINE found == {native[c][t].version : t \in r.targets}
  <2>1. found \subseteq Versions
    BY <1>3
  <2>2. leftovers' = leftovers \/ leftovers' = leftovers \cup {v} \cup found
    BY DEF Stage
  <2> HIDE DEF found
  <2> QED BY <1>0, <2>1, <2>2 DEF ReleaseTypeOK
<1>5. sets' \in [Versions -> SUBSET SUBSET Targets]
  <2>1. sets' = sets \/ sets' = [sets EXCEPT ![v] = @ \cup {r.targets}]
    BY DEF Stage
  <2>2. sets \in [Versions -> SUBSET SUBSET Targets] /\ sets[v] \cup {r.targets} \in SUBSET SUBSET Targets
    BY <1>0 DEF ReleaseTypeOK
  <2> QED BY <1>0, <2>1, <2>2
<1> QED BY <1>1, <1>2, <1>4, <1>5 DEF ReleaseTypeOK, Stage

(* The manifest of a staged package, and where it goes.                    *)
LEMMA StagedType ==
  ASSUME ReleaseTypeOK, NEW c \in Checkouts, RunOk(c), NEW p \in Packages, Turn(c, p)
  PROVE  /\ run[c] # None /\ run[c].phase = "publish" /\ p \in run[c].targets \cup Workspace
         /\ StagedVersion(c, p) \in Versions
         /\ StagedManifest(c, p) \in Manifest
<1>1. run[c] # None /\ run[c].phase = "publish" /\ p \in run[c].targets \cup Workspace
  BY DEF Turn, RunOk, PublishOk
<1>2. run[c].targets \subseteq Targets /\ version[c] \in Versions /\ wrapper[c] \subseteq Versions
  BY <1>1, CommandType DEF ReleaseTypeOK
<1>3. CASE p \in Targets
  <2>1. p \in run[c].targets
    BY <1>1, <1>3, TargetFacts
  <2>2. native[c][p] \in NativePackage
    BY <1>1, <1>3, <2>1 DEF ReleaseTypeOK, RunOk, StagedOk
  <2> QED BY <1>1, <1>3, <2>2 DEF StagedVersion, StagedManifest, NativePackage, Manifest
<1>4. CASE p \notin Targets
  <2>1. Needs(p, run[c].targets) \subseteq Packages
    BY <1>1, <1>2, NeedsRankBelow DEF Packages
  <2> QED BY <1>1, <1>2, <1>4, <2>1 DEF StagedVersion, StagedManifest, Manifest
<1> QED BY <1>3, <1>4

LEMMA DoneType ==
  ASSUME ReleaseTypeOK, NEW c \in Checkouts, NEW p \in Packages, run[c] # None, Done(c, p)
  PROVE  /\ run' \in [Checkouts -> Commands \cup {None}]
         /\ shipped' \subseteq [version : Versions, targets : SUBSET Targets]
<1>1. run[c] \in Commands /\ version[c] \in Versions /\ run[c].targets \subseteq Targets
  BY CommandType DEF ReleaseTypeOK
<1>2. [run[c] EXCEPT !.todo = @ \ {p}] \in Commands
  BY <1>1 DEF Commands
<1> QED BY <1>1, <1>2 DEF Done, ReleaseTypeOK

LEMMA TypePublish ==
  ASSUME ReleaseTypeOK, NEW c \in Checkouts, RunOk(c), NEW p \in Packages, NEW answered \in BOOLEAN,
         SkipPackage(c, p) \/ PublishPackage(c, p, answered)
  PROVE  ReleaseTypeOK'
<1>0. Turn(c, p) /\ run[c] # None
  BY DEF SkipPackage, PublishPackage, Turn
<1>1. StagedVersion(c, p) \in Versions /\ StagedManifest(c, p) \in Manifest
  BY <1>0, StagedType
<1>2. run' \in [Checkouts -> Commands \cup {None}]
      /\ shipped' \subseteq [version : Versions, targets : SUBSET Targets]
  <2>1. CASE Done(c, p)
    BY <1>0, <2>1, DoneType
  <2>2. CASE run' = [run EXCEPT ![c] = None] /\ UNCHANGED shipped
    BY <2>2 DEF ReleaseTypeOK
  <2> QED BY <2>1, <2>2 DEF SkipPackage, PublishPackage
<1>3. registry' \in [Packages -> [Versions -> Manifest \cup {None}]]
  <2>1. registry' = registry
        \/ registry' = [registry EXCEPT ![p][StagedVersion(c, p)] = StagedManifest(c, p)]
    BY DEF SkipPackage, PublishPackage
  <2> DEFINE row == [registry[p] EXCEPT ![StagedVersion(c, p)] = StagedManifest(c, p)]
  <2>2. registry \in [Packages -> [Versions -> Manifest \cup {None}]]
    BY DEF ReleaseTypeOK
  <2>3. row \in [Versions -> Manifest \cup {None}]
    BY <1>1, <2>2
  <2>4. registry' = registry \/ registry' = [registry EXCEPT ![p] = row]
    BY <2>1
  <2> HIDE DEF row
  <2> QED BY <2>2, <2>3, <2>4
<1> QED BY <1>2, <1>3 DEF ReleaseTypeOK, SkipPackage, PublishPackage

LEMMA TypeMoves ==
  ASSUME ReleaseTypeOK, NEW c \in Checkouts, NEW v \in Versions, NEW dist \in SUBSET Versions,
         Clone(c, v) \/ Switch(c, v) \/ runBuildNativeTarget(c, dist) \/ Download(c) \/ Upload(c)
  PROVE  ReleaseTypeOK'
<1>1. CASE Clone(c, v)
  BY <1>1 DEF ReleaseTypeOK, Clone, history
<1>2. CASE Switch(c, v)
  BY <1>2 DEF ReleaseTypeOK, Switch, history
<1>3. CASE runBuildNativeTarget(c, dist)
  <2> DEFINE old == native[c][Host[c]]
             new == [version |-> version[c], built |-> version[c], profile |-> "debug",
                     license |-> old # None /\ old.license]
  <2>1. old # None => old \in NativePackage
    BY TargetFacts DEF ReleaseTypeOK
  <2>2. new \in NativePackage
    BY <2>1 DEF ReleaseTypeOK, NativePackage
  <2>3. native' = [native EXCEPT ![c][Host[c]] = new]
    BY <1>3 DEF runBuildNativeTarget
  <2>4. native' \in [Checkouts -> [Targets -> NativePackage \cup {None}]]
    BY <2>2, <2>3 DEF ReleaseTypeOK
  <2> QED BY <1>3, <2>4 DEF ReleaseTypeOK, runBuildNativeTarget, history
<1>4. CASE Download(c)
  BY <1>4 DEF ReleaseTypeOK, Download, history
<1>5. CASE Upload(c)
  <2>1. uploads' \in [Versions -> [Targets -> NativePackage \cup {None}]]
    BY <1>5 DEF ReleaseTypeOK, Upload
  <2> QED BY <1>5, <2>1 DEF ReleaseTypeOK, Upload, history
<1> QED BY <1>1, <1>2, <1>3, <1>4, <1>5

-----------------------------------------------------------------------------
(* The runs.                                                               *)

(* Nothing on record is ever taken back.                                   *)
RegistryGrows ==
  /\ leftovers \subseteq leftovers'
  /\ \A v \in Versions : sets[v] \subseteq sets'[v]
  /\ \A p \in Packages, v \in Versions : published(p, v) => registry'[p][v] = registry[p][v]

Untouched(c) ==
  /\ version'[c] = version[c] /\ native'[c] = native[c]
  /\ wrapper'[c] = wrapper[c] /\ run'[c] = run[c]

LEMMA UntouchedRun ==
  ASSUME NEW c \in Checkouts, ReleaseTypeOK, RunOk(c), RegistryGrows, Untouched(c)
  PROVE  RunOk(c)'
<1> SUFFICES ASSUME run[c] # None
             PROVE  RunBuildOk(c)' /\ StagedOk(c)' /\ PublishOk(c)'
  BY DEF RunOk, Untouched
<1>1. RunBuildOk(c)' /\ StagedOk(c)'
  BY DEF RunOk, Untouched, RunBuildOk, StagedOk, Clean
<1>2. PublishOk(c)'
  <2> SUFFICES ASSUME run[c].phase = "publish"
               PROVE  PublishOk(c)'
    BY DEF PublishOk, Untouched
  <2>1. version[c] \in Versions /\ run[c].targets \cup Workspace \subseteq Packages
    BY CommandType DEF ReleaseTypeOK, Packages
  <2>2. PublishOk(c)
    BY DEF RunOk
  <2>3. Clean(c)' <=> Clean(c)
    BY DEF Clean, Untouched
  <2>4. version[c] \notin leftovers' =>
          \A p \in (run[c].targets \cup Workspace) \ run[c].todo : published(p, version[c])'
    BY <2>1, <2>2 DEF PublishOk, RegistryGrows, published, Untouched
  <2> QED BY <2>1, <2>2, <2>3, <2>4 DEF PublishOk, RegistryGrows, Untouched
<1> QED BY <1>1, <1>2

LEMMA StartRun ==
  ASSUME NEW c \in Checkouts, ReleaseTypeOK, NEW cmd \in {"prepare", "publish", "build-native"},
         NEW ts \in SUBSET Targets, NEW env \in Environments,
         StartRelease(c, cmd, ts, env) \/ StartAssemble(c, cmd, env)
  PROVE  RunOk(c)'
<1>1. CASE StartRelease(c, cmd, ts, env)
  <2>1. run'[c] = [cmd |-> cmd, phase |-> "build", env |-> env, assemble |-> FALSE,
                   targets |-> {}, todo |-> ts]
        /\ wrapper'[c] = {}
    BY <1>1 DEF StartRelease, ReleaseTypeOK
  <2> QED BY <2>1 DEF RunOk, RunBuildOk, StagedOk, PublishOk, Clean
<1>2. CASE StartAssemble(c, cmd, env)
  <2>1. run'[c] = [cmd |-> cmd, phase |-> "stage", env |-> env, assemble |-> TRUE,
                   targets |-> discoverStagedNativeTargets(c), todo |-> {}]
        /\ native' = native /\ cmd # "build-native"
    BY <1>2 DEF StartAssemble, ReleaseTypeOK
  <2> QED BY <2>1 DEF RunOk, RunBuildOk, StagedOk, PublishOk, Clean, discoverStagedNativeTargets
<1> QED BY <1>1, <1>2

LEMMA BuildRun ==
  ASSUME NEW c \in Checkouts, NEW t \in Targets, ReleaseTypeOK, ReleaseTypeOK', RunOk(c), BuildTarget(c, t)
  PROVE  RunOk(c)'
<1> DEFINE tool == selectNativeBuildTool(t, Host[c], run[c].env)
           built == IF tool = "build" THEN ReleaseBuild(version[c]) ELSE None
           new == [run[c] EXCEPT !.todo = @ \ {t},
                                 !.targets = IF tool = "build" THEN @ \cup {t} ELSE @,
                                 !.phase = IF run[c].todo = {t} THEN "stage" ELSE @]
<1>1. /\ run[c] # None /\ run[c].phase = "build" /\ t \in run[c].todo
      /\ version' = version /\ wrapper' = wrapper
      /\ native' = [native EXCEPT ![c][t] = built]
  BY DEF BuildTarget
<1>2. run'[c] = new
  BY DEF BuildTarget, ReleaseTypeOK
<1>3. run[c] \in Commands /\ version[c] \in Versions
  BY <1>1, CommandType DEF ReleaseTypeOK
<1>4. /\ new.todo = run[c].todo \ {t}
      /\ new.targets = IF tool = "build" THEN run[c].targets \cup {t} ELSE run[c].targets
      /\ new.phase = IF run[c].todo = {t} THEN "stage" ELSE "build"
      /\ new.assemble = run[c].assemble
  BY <1>1, <1>3 DEF Commands
<1>5. /\ run[c].todo \subseteq Targets /\ run[c].todo \cap run[c].targets = {}
      /\ ~ run[c].assemble /\ Clean(c)
  BY <1>1 DEF RunOk, RunBuildOk, StagedOk
<1>6. \A u \in Targets : native'[c][u] = IF u = t THEN built ELSE native[c][u]
  BY <1>1 DEF ReleaseTypeOK
<1> HIDE DEF new
<1>7. \A u \in new.targets : native'[c][u] = ReleaseBuild(version[c])
  <2> SUFFICES ASSUME NEW u \in new.targets
               PROVE  native'[c][u] = ReleaseBuild(version[c])
    OBVIOUS
  <2>1. CASE u = t
    BY <1>1, <1>4, <1>5, <1>6, <2>1
  <2>2. CASE u # t
    <3>1. u \in run[c].targets /\ u \in Targets
      BY <1>1, <1>4, <2>2, CommandType
    <3> QED BY <1>5, <1>6, <2>2, <3>1 DEF Clean
  <2> QED BY <2>1, <2>2
<1>8. ReleaseBuild(version[c]) # None
  BY <1>3, ReleaseBuildType, NoneFacts
<1>9. Clean(c)'
  BY <1>1, <1>2, <1>5, <1>7 DEF Clean
<1> QED BY <1>1, <1>2, <1>4, <1>5, <1>7, <1>8, <1>9 DEF RunOk, RunBuildOk, StagedOk, PublishOk

LEMMA StageRun ==
  ASSUME NEW c \in Checkouts, ReleaseTypeOK, ReleaseTypeOK', RunOk(c), Stage(c)
  PROVE  RunOk(c)'
<1> DEFINE r == run[c]
           v == version[c]
           new == [r EXCEPT !.phase = "publish", !.todo = r.targets \cup Workspace]
<1>1. r # None /\ r.cmd # "build-native" /\ r.phase = "stage"
      /\ version' = version /\ native' = native /\ wrapper'[c] = wrapper[c] \cup {v}
  BY DEF Stage, ReleaseTypeOK
<1>2. r \in Commands /\ v \in Versions /\ r.targets \subseteq Targets
  BY <1>1, CommandType DEF ReleaseTypeOK
<1>3. CASE run' = [run EXCEPT ![c] = None]
  BY <1>3 DEF RunOk, ReleaseTypeOK
<1>4. CASE run' # [run EXCEPT ![c] = None]
  <2>1. /\ run'[c] = new /\ r.cmd = "publish"
        /\ leftovers' = IF r.assemble /\ Leftover(c)
                        THEN leftovers \cup {v} \cup {native[c][t].version : t \in r.targets}
                        ELSE leftovers
        /\ sets'[v] = sets[v] \cup {r.targets}
    BY <1>2, <1>4 DEF Stage, ReleaseTypeOK
  <2>2. /\ new.cmd = "publish" /\ new.phase = "publish" /\ new.targets = r.targets
        /\ new.todo = r.targets \cup Workspace /\ new.assemble = r.assemble
    BY <1>2, <2>1 DEF Commands
  <2> HIDE DEF new
  <2>3. Clean(c)' \/ (v \in leftovers' /\ \A t \in r.targets : native[c][t].version \in leftovers')
    <3>1. CASE r.assemble /\ Leftover(c)
      BY <2>1, <3>1
    <3>2. CASE ~ (r.assemble /\ Leftover(c))
      <4>1. Clean(c)
        BY <1>1, <3>2, CommandType DEF Leftover, Clean, RunOk, StagedOk
      <4> QED BY <1>1, <2>1, <2>2, <4>1 DEF Clean
    <3> QED BY <3>1, <3>2
  <2>4. StagedOk(c)'
    BY <1>1, <2>1, <2>2 DEF RunOk, StagedOk
  <2>5. PublishOk(c)'
    BY <1>1, <2>1, <2>2, <2>3 DEF PublishOk
  <2> QED BY <2>1, <2>2, <2>4, <2>5 DEF RunOk, RunBuildOk
<1> QED BY <1>3, <1>4

-----------------------------------------------------------------------------
(* Publishing one package: it is the turn of p in run[c].                  *)

(* What goes out is this version's release build, unless the version it    *)
(* goes out as is on record as assembled from leftovers.                   *)
LEMMA TurnFacts ==
  ASSUME NEW c \in Checkouts, NEW p \in Packages, ReleaseTypeOK, RunOk(c), Turn(c, p),
         StagedVersion(c, p) \notin leftovers
  PROVE  /\ Clean(c)
         /\ StagedVersion(c, p) = version[c]
         /\ StagedManifest(c, p).built = {version[c]}
         /\ StagedManifest(c, p).profile = "release"
         /\ StagedManifest(c, p).needs = IF p \in Targets THEN {} ELSE Needs(p, run[c].targets)
<1>1. /\ run[c] # None /\ run[c].phase = "publish" /\ p \in run[c].targets \cup Workspace
      /\ version[c] \in Versions
  BY StagedType DEF ReleaseTypeOK
<1>2. PublishOk(c)
  BY <1>1 DEF RunOk
<1>3. p \in Targets => p \in run[c].targets
  BY <1>1, TargetFacts
<1>4. Clean(c)
  BY <1>1, <1>2, <1>3 DEF PublishOk, StagedVersion
<1>5. p \in Targets => native[c][p] = ReleaseBuild(version[c])
  BY <1>3, <1>4 DEF Clean
<1>6. wrapper[c] = {version[c]}
  BY <1>1, <1>2, <1>4 DEF PublishOk, Clean
<1>7. CASE p \in Targets
  BY <1>1, <1>4, <1>5, <1>7, ReleaseBuildType DEF StagedVersion, StagedManifest
<1>8. CASE p \notin Targets
  BY <1>4, <1>6, <1>8 DEF StagedVersion, StagedManifest
<1> QED BY <1>7, <1>8

(* By then everything it needs is published.                               *)
LEMMA NeededIsPublished ==
  ASSUME NEW c \in Checkouts, NEW p \in Packages, ReleaseTypeOK, RunOk(c), Turn(c, p),
         StagedVersion(c, p) \notin leftovers, NEW q \in StagedManifest(c, p).needs
  PROVE  published(q, version[c])
<1>1. /\ run[c] # None /\ run[c].phase = "publish" /\ p \in run[c].targets \cup Workspace
      /\ run[c].targets \in SUBSET Targets
  BY StagedType, CommandType
<1>2. StagedVersion(c, p) = version[c] /\ p \notin Targets /\ q \in Needs(p, run[c].targets)
  BY TurnFacts
<1>3. q \in run[c].targets \cup Workspace /\ ~ (PublishOrder(p) <= PublishOrder(q))
  BY <1>1, <1>2, NeedsRankBelow
<1>4. q \notin run[c].todo
  BY <1>3 DEF Turn
<1> QED BY <1>1, <1>2, <1>3, <1>4 DEF RunOk, PublishOk

LEMMA RegistryAfter ==
  ASSUME NEW c \in Checkouts, NEW p \in Packages, NEW answered \in BOOLEAN, ReleaseTypeOK, RunOk(c),
         SkipPackage(c, p) \/ PublishPackage(c, p, answered)
  PROVE  /\ Turn(c, p)
         /\ \A q \in Packages, w \in Versions :
              \/ registry'[q][w] = registry[q][w]
              \/ /\ q = p /\ w = StagedVersion(c, p) /\ ~ published(q, w)
                 /\ registry'[q][w] = StagedManifest(c, p)
         /\ published(p, version[c])' \/ StagedVersion(c, p) # version[c]
         /\ UNCHANGED <<version, native, wrapper, uploads, leftovers, sets>>
<1>1. CASE SkipPackage(c, p)
  BY <1>1 DEF SkipPackage, published
<1>2. CASE PublishPackage(c, p, answered)
  <2>1. Turn(c, p)
    BY <1>2 DEF PublishPackage
  <2>2. StagedVersion(c, p) \in Versions /\ StagedManifest(c, p) # None
    BY <2>1, StagedType, NoneFacts
  <2>3. registry' = [registry EXCEPT ![p][StagedVersion(c, p)] = StagedManifest(c, p)]
        /\ ~ published(p, StagedVersion(c, p))
    BY <1>2 DEF PublishPackage
  <2>4. \A q \in Packages, w \in Versions :
          registry'[q][w] = IF q = p /\ w = StagedVersion(c, p) THEN StagedManifest(c, p)
                            ELSE registry[q][w]
    BY <2>2, <2>3 DEF ReleaseTypeOK
  <2>5. UNCHANGED <<version, native, wrapper, uploads, leftovers, sets>>
    BY <1>2 DEF PublishPackage
  <2>6. version[c] \in Versions
    BY DEF ReleaseTypeOK
  <2> QED BY <2>1, <2>2, <2>3, <2>4, <2>5, <2>6 DEF published
<1> QED BY <1>1, <1>2

LEMMA PublishRun ==
  ASSUME NEW c \in Checkouts, NEW p \in Packages, NEW answered \in BOOLEAN, ReleaseTypeOK, ReleaseTypeOK',
         RunOk(c), SkipPackage(c, p) \/ PublishPackage(c, p, answered)
  PROVE  /\ RunOk(c)'
         /\ RegistryGrows
         /\ \A s \in shipped' \ shipped :
              /\ s.targets \in sets[s.version]
              /\ s.version \notin leftovers =>
                   \A q \in s.targets \cup Workspace : published(q, s.version)'
<1> DEFINE r == run[c]
           new == [r EXCEPT !.todo = @ \ {p}]
<1>1. /\ Turn(c, p)
      /\ UNCHANGED <<version, native, wrapper, uploads, leftovers, sets>>
  BY RegistryAfter
<1>2. /\ r # None /\ r.phase = "publish" /\ p \in r.targets \cup Workspace
      /\ r \in Commands /\ r.targets \subseteq Targets /\ version[c] \in Versions
  BY <1>1, StagedType, CommandType DEF ReleaseTypeOK
<1>3. RegistryGrows
  BY <1>1, RegistryAfter DEF RegistryGrows, published
<1>4. new.phase = "publish" /\ new.targets = r.targets /\ new.todo = r.todo \ {p}
      /\ new.cmd = r.cmd /\ new.assemble = r.assemble
  BY <1>2 DEF Commands
<1>5. RunBuildOk(c) /\ StagedOk(c) /\ PublishOk(c)
  BY <1>2 DEF RunOk
<1>6. version[c] \notin leftovers =>
        \A q \in (r.targets \cup Workspace) \ (r.todo \ {p}) : published(q, version[c])'
  <2> SUFFICES ASSUME version[c] \notin leftovers,
                      NEW q \in (r.targets \cup Workspace) \ (r.todo \ {p})
               PROVE  published(q, version[c])'
    OBVIOUS
  <2>0. q \in Packages
    BY <1>2 DEF Packages
  <2>1. CASE q \notin r.todo
    BY <1>1, <1>2, <1>3, <1>5, <2>0, <2>1 DEF PublishOk, RegistryGrows, published
  <2>2. CASE q = p
    <3>1. StagedVersion(c, p) = version[c]
      <4>1. \/ Clean(c)
            \/ version[c] \in leftovers
        BY <1>2, <1>5 DEF PublishOk
      <4>2. p \in Targets => p \in r.targets
        BY <1>2, TargetFacts
      <4> QED BY <1>2, <4>1, <4>2, ReleaseBuildType DEF Clean, StagedVersion
    <3> QED BY <2>2, <3>1, RegistryAfter
  <2> QED BY <2>1, <2>2
<1>7. \/ run'[c] = None /\ shipped' = shipped
      \/ /\ run'[c] = None /\ r.todo = {p}
         /\ shipped' = shipped \cup {[version |-> version[c], targets |-> r.targets]}
      \/ run'[c] = new /\ shipped' = shipped
  BY DEF SkipPackage, PublishPackage, Done, ReleaseTypeOK
<1> HIDE DEF new
<1>8. RunOk(c)'
  <2>1. CASE run'[c] = None
    BY <2>1 DEF RunOk
  <2>2. CASE run'[c] = new
    <3>1. RunBuildOk(c)' /\ StagedOk(c)'
      BY <1>1, <1>4, <1>5, <1>2, <2>2 DEF RunBuildOk, StagedOk
    <3>2. Clean(c)' <=> Clean(c)
      BY <1>1, <1>4, <2>2 DEF Clean
    <3>4. PublishOk(c)'
      BY <1>1, <1>2, <1>4, <1>5, <1>6, <2>2, <3>2 DEF PublishOk
    <3> QED BY <3>1, <3>4 DEF RunOk
  <2> QED BY <1>7, <2>1, <2>2
<1>9. \A s \in shipped' \ shipped :
        /\ s.targets \in sets[s.version]
        /\ s.version \notin leftovers =>
             \A q \in s.targets \cup Workspace : published(q, s.version)'
  <2> SUFFICES ASSUME NEW s \in shipped' \ shipped
               PROVE  /\ s.targets \in sets[s.version]
                      /\ s.version \notin leftovers =>
                           \A q \in s.targets \cup Workspace : published(q, s.version)'
    OBVIOUS
  <2>1. r.todo = {p} /\ s = [version |-> version[c], targets |-> r.targets]
    BY <1>7
  <2>2. s.version = version[c] /\ s.targets = r.targets
    BY <2>1
  <2>3. r.todo \ {p} = {}
    BY <2>1
  <2>4. version[c] \notin leftovers =>
          \A q \in r.targets \cup Workspace : registry'[q][version'[c]] # None
    BY <1>6, <2>3 DEF published
  <2> QED BY <1>1, <1>2, <1>5, <2>2, <2>4 DEF PublishOk, published
<1> QED BY <1>3, <1>8, <1>9

-----------------------------------------------------------------------------
(* The registry.                                                           *)

LEMMA PublishRegistry ==
  ASSUME NEW c \in Checkouts, NEW p \in Packages, NEW answered \in BOOLEAN, ReleaseInv,
         SkipPackage(c, p) \/ PublishPackage(c, p, answered)
  PROVE  CompilerOk' /\ Installable' /\ BuiltFromItsVersion'
<1> DEFINE v == StagedVersion(c, p)
           m == StagedManifest(c, p)
<1>1. /\ ReleaseTypeOK /\ RunOk(c) /\ Turn(c, p)
      /\ UNCHANGED <<version, leftovers, sets>>
      /\ \A q \in Packages, w \in Versions :
           \/ registry'[q][w] = registry[q][w]
           \/ q = p /\ w = v /\ ~ published(q, w) /\ registry'[q][w] = m
  BY RegistryAfter DEF ReleaseInv
<1>2. v \notin leftovers =>
        /\ v = version[c] /\ m.built = {v} /\ m.profile = "release"
        /\ \A q \in m.needs : published(q, v)
  BY <1>1, TurnFacts, NeededIsPublished
<1>3. m.needs \subseteq Packages
  BY <1>1, StagedType DEF Manifest
<1>4. \A q \in Packages, w \in Versions : published(q, w) => registry[q][w].needs \subseteq Packages
  BY <1>1 DEF ReleaseTypeOK, published, Manifest
<1>5. \A q \in Packages, w \in Versions : published(q, w) => published(q, w)'
  BY <1>1 DEF published
<1> HIDE DEF v, m
<1>6. Installable'
  <2> SUFFICES ASSUME NEW q \in Packages, NEW w \in Versions \ leftovers, published(q, w)',
                      NEW n \in registry'[q][w].needs
               PROVE  published(n, w)'
    BY <1>1 DEF Installable
  <2>1. CASE registry'[q][w] = registry[q][w]
    <3>1. published(q, w) /\ n \in registry[q][w].needs
      BY <2>1 DEF published
    <3> QED BY <1>4, <1>5, <3>1 DEF ReleaseInv, Installable
  <2>2. CASE w = v /\ registry'[q][w] = m
    BY <1>2, <1>3, <1>5, <2>2
  <2> QED BY <1>1, <2>1, <2>2
<1>7. BuiltFromItsVersion'
  <2> SUFFICES ASSUME NEW q \in Packages, NEW w \in Versions \ leftovers, published(q, w)'
               PROVE  registry'[q][w].built = {w} /\ registry'[q][w].profile = "release"
    BY <1>1 DEF BuiltFromItsVersion
  <2>1. CASE registry'[q][w] = registry[q][w]
    BY <2>1 DEF ReleaseInv, BuiltFromItsVersion, published
  <2>2. CASE w = v /\ registry'[q][w] = m
    BY <1>2, <2>2
  <2> QED BY <1>1, <2>1, <2>2
<1>8. CompilerOk'
  <2> SUFFICES ASSUME NEW w \in Versions, published("compiler", w)'
               PROVE  \E ts \in sets[w] : registry'["compiler"][w].needs = {"core"} \cup ts
    BY <1>1 DEF CompilerOk
  <2>0. "compiler" \in Packages /\ "compiler" \notin Targets /\ "core" \notin Targets
    BY ReleaseAssumption DEF Packages, Workspace
  <2>1. CASE registry'["compiler"][w] = registry["compiler"][w]
    BY <2>1 DEF ReleaseInv, CompilerOk, published
  <2>2. CASE p = "compiler" /\ w = v /\ registry'["compiler"][w] = m
    <3>1. w = version[c] /\ m.needs = {"core"} \cup run[c].targets
      BY <2>0, <2>2 DEF v, m, StagedVersion, StagedManifest, Needs
    <3>2. run[c].targets \in sets[version[c]]
      BY <1>1, StagedType DEF RunOk, PublishOk
    <3> QED BY <2>2, <3>1, <3>2
  <2> QED BY <1>1, <2>0, <2>1, <2>2
<1> QED BY <1>6, <1>7, <1>8

(* Steps that publish nothing: the record of runs may only have grown.     *)
LEMMA QuietRegistry ==
  ASSUME ReleaseInv, ReleaseTypeOK', UNCHANGED <<registry, shipped>>, RegistryGrows
  PROVE  CompilerOk' /\ Installable' /\ BuiltFromItsVersion' /\ ShippedOk'
<1>1. Installable' /\ BuiltFromItsVersion'
  BY DEF ReleaseInv, Installable, BuiltFromItsVersion, published, RegistryGrows
<1>2. CompilerOk'
  BY DEF ReleaseInv, CompilerOk, published, RegistryGrows
<1>3. ShippedOk'
  <2>1. \A s \in shipped : s.version \in Versions
    BY DEF ReleaseInv, ReleaseTypeOK
  <2> QED BY <2>1 DEF ReleaseInv, ShippedOk, published, RegistryGrows
<1> QED BY <1>1, <1>2, <1>3

-----------------------------------------------------------------------------
(* The invariant.                                                          *)

LEMMA InvInit == ReleaseInit => ReleaseInv
<1> SUFFICES ASSUME ReleaseInit PROVE ReleaseInv
  OBVIOUS
<1>1. \A p \in Packages, v \in Versions : ~ published(p, v)
  BY DEF ReleaseInit, published
<1>2. "compiler" \in Packages
  BY DEF Packages, Workspace
<1>3. \A c \in Checkouts : run[c] = None
  BY DEF ReleaseInit
<1>4. shipped = {}
  BY DEF ReleaseInit
<1> QED BY <1>1, <1>2, <1>3, <1>4, TypeInit
        DEF ReleaseInv, RunOk, CompilerOk, ShippedOk, Installable, BuiltFromItsVersion

(* A step of one checkout that publishes nothing.                          *)
LEMMA QuietStep ==
  ASSUME ReleaseInv, ReleaseTypeOK', UNCHANGED <<registry, shipped>>, RegistryGrows,
         NEW c \in Checkouts, RunOk(c)', \A d \in Checkouts \ {c} : Untouched(d)
  PROVE  ReleaseInv'
<1>1. \A d \in Checkouts \ {c} : RunOk(d)'
  BY UntouchedRun DEF ReleaseInv
<1> QED BY <1>1, QuietRegistry DEF ReleaseInv

LEMMA InvPublish ==
  ASSUME ReleaseInv, NEW c \in Checkouts, NEW p \in Packages, NEW answered \in BOOLEAN,
         SkipPackage(c, p) \/ PublishPackage(c, p, answered)
  PROVE  ReleaseInv'
<1>1. ReleaseTypeOK /\ RunOk(c)
  BY DEF ReleaseInv
<1>2. ReleaseTypeOK'
  BY <1>1, TypePublish
<1>3. /\ RunOk(c)' /\ RegistryGrows
      /\ \A s \in shipped' \ shipped :
           /\ s.targets \in sets[s.version]
           /\ s.version \notin leftovers =>
                \A q \in s.targets \cup Workspace : published(q, s.version)'
  BY <1>1, <1>2, PublishRun
<1>4. UNCHANGED <<version, native, wrapper, leftovers, sets>>
  BY <1>1, RegistryAfter
<1>5. \A d \in Checkouts \ {c} : run'[d] = run[d]
  BY <1>1 DEF SkipPackage, PublishPackage, Done, ReleaseTypeOK
<1>6. \A d \in Checkouts : RunOk(d)'
  BY <1>3, <1>4, <1>5, UntouchedRun DEF ReleaseInv, Untouched
<1>7. CompilerOk' /\ Installable' /\ BuiltFromItsVersion'
  BY PublishRegistry
<1>8. ShippedOk'
  <2> SUFFICES ASSUME NEW s \in shipped'
               PROVE  /\ s.targets \in sets[s.version]
                      /\ s.version \notin leftovers =>
                           \A q \in s.targets \cup Workspace : published(q, s.version)'
    BY <1>4 DEF ShippedOk
  <2>1. CASE s \in shipped
    <3>1. s.version \in Versions /\ s.targets \subseteq Targets
      BY <1>1, <2>1 DEF ReleaseTypeOK
    <3>2. \A q \in s.targets \cup Workspace : published(q, s.version) => published(q, s.version)'
      BY <1>3, <3>1 DEF RegistryGrows, published, Packages
    <3> QED BY <2>1, <3>2 DEF ReleaseInv, ShippedOk
  <2>2. CASE s \notin shipped
    BY <1>3, <2>2
  <2> QED BY <2>1, <2>2
<1> QED BY <1>2, <1>6, <1>7, <1>8 DEF ReleaseInv

LEMMA InvNext == ReleaseInv /\ [ReleaseNext]_releaseVars => ReleaseInv'
<1> SUFFICES ASSUME ReleaseInv, [ReleaseNext]_releaseVars PROVE ReleaseInv'
  OBVIOUS
<1>0. ReleaseTypeOK /\ \A c \in Checkouts : RunOk(c)
  BY DEF ReleaseInv
<1>1. ASSUME UNCHANGED releaseVars PROVE ReleaseInv'
  <2>1. ReleaseTypeOK' /\ RegistryGrows /\ \A c \in Checkouts : Untouched(c)
    BY <1>0, <1>1 DEF releaseVars, ReleaseTypeOK, RegistryGrows, Untouched, published
  <2>2. \A c \in Checkouts : RunOk(c)'
    BY <1>0, <2>1, UntouchedRun
  <2> QED BY <1>1, <2>1, <2>2, QuietRegistry DEF releaseVars, ReleaseInv
<1>2. ASSUME NEW c \in Checkouts, NEW v \in Versions, NEW dist \in SUBSET Versions,
             Clone(c, v) \/ Switch(c, v) \/ runBuildNativeTarget(c, dist) \/ Download(c) \/ Upload(c)
      PROVE  ReleaseInv'
  <2>1. ReleaseTypeOK'
    BY <1>0, <1>2, TypeMoves
  <2>2. UNCHANGED <<registry, history>> /\ run'[c] = None
    BY <1>0, <1>2 DEF Clone, Switch, runBuildNativeTarget, Download, Upload, ReleaseTypeOK
  <2>3. \A d \in Checkouts \ {c} : Untouched(d)
    BY <1>0, <1>2 DEF Clone, Switch, runBuildNativeTarget, Download, Upload, ReleaseTypeOK, Untouched
  <2> QED BY <2>1, <2>2, <2>3, QuietStep DEF history, RegistryGrows, RunOk, published
<1>3. ASSUME NEW c \in Checkouts, NEW cmd \in {"prepare", "publish", "build-native"},
             NEW ts \in SUBSET Targets, NEW env \in Environments,
             StartRelease(c, cmd, ts, env) \/ StartAssemble(c, cmd, env)
      PROVE  ReleaseInv'
  <2>1. ReleaseTypeOK' /\ RunOk(c)'
    BY <1>0, <1>3, TypeStart, StartRun
  <2>2. UNCHANGED <<registry, history>>
    BY <1>3 DEF StartRelease, StartAssemble
  <2>3. \A d \in Checkouts \ {c} : Untouched(d)
    BY <1>0, <1>3 DEF StartRelease, StartAssemble, ReleaseTypeOK, Untouched
  <2> QED BY <2>1, <2>2, <2>3, QuietStep DEF history, RegistryGrows, published
<1>4. ASSUME NEW c \in Checkouts, NEW t \in Targets, BuildTarget(c, t) \/ Stop(c, t)
      PROVE  ReleaseInv'
  <2>1. ReleaseTypeOK'
    BY <1>0, <1>4, TypeBuild
  <2>2. UNCHANGED <<registry, history>>
    BY <1>4 DEF BuildTarget, Stop
  <2>3. \A d \in Checkouts \ {c} : Untouched(d)
    <3>1. CASE BuildTarget(c, t)
      BY <1>0, <3>1 DEF BuildTarget, ReleaseTypeOK, Untouched
    <3>2. CASE Stop(c, t)
      <4>1. /\ run' = [run EXCEPT ![c] = None] /\ version' = version /\ wrapper' = wrapper
            /\ \A d \in Checkouts \ {c} : native'[d] = native[d]
        BY <1>0, <3>2 DEF Stop, ReleaseTypeOK
      <4> QED BY <1>0, <4>1 DEF ReleaseTypeOK, Untouched
    <3> QED BY <1>4, <3>1, <3>2
  <2>4. RunOk(c)'
    <3>1. CASE BuildTarget(c, t)
      BY <1>0, <2>1, <3>1, BuildRun
    <3>2. CASE Stop(c, t)
      BY <1>0, <3>2 DEF Stop, ReleaseTypeOK, RunOk
    <3> QED BY <1>4, <3>1, <3>2
  <2> QED BY <2>1, <2>2, <2>3, <2>4, QuietStep DEF history, RegistryGrows, published
<1>5. ASSUME NEW c \in Checkouts, Stage(c) PROVE ReleaseInv'
  <2>1. ReleaseTypeOK'
    BY <1>0, <1>5, TypeStage
  <2>2. RunOk(c)'
    BY <1>0, <1>5, <2>1, StageRun
  <2>3. UNCHANGED <<registry, shipped>>
    BY <1>5 DEF Stage
  <2>4. RegistryGrows
    <3>1. leftovers \subseteq leftovers'
      BY <1>5 DEF Stage
    <3>2. \A v \in Versions : sets[v] \subseteq sets'[v]
      <4>1. sets' = sets \/ sets' = [sets EXCEPT ![version[c]] = @ \cup {run[c].targets}]
        BY <1>5 DEF Stage
      <4>2. sets \in [Versions -> SUBSET SUBSET Targets]
        BY <1>0 DEF ReleaseTypeOK
      <4> QED BY <4>1, <4>2
    <3> QED BY <2>3, <3>1, <3>2 DEF RegistryGrows
  <2>5. \A d \in Checkouts \ {c} : Untouched(d)
    BY <1>0, <1>5 DEF Stage, ReleaseTypeOK, Untouched
  <2> QED BY <2>1, <2>2, <2>3, <2>4, <2>5, QuietStep
<1>6. ASSUME NEW c \in Checkouts, NEW p \in Packages, NEW answered \in BOOLEAN,
             SkipPackage(c, p) \/ PublishPackage(c, p, answered)
      PROVE  ReleaseInv'
  BY <1>6, InvPublish
<1>7. ASSUME ReleaseNext PROVE ReleaseInv'
  <2>1. PICK c \in Checkouts :
          \/ Download(c) \/ Upload(c) \/ Stage(c)
          \/ \E v \in Versions : Clone(c, v) \/ Switch(c, v)
          \/ \E dist \in SUBSET Versions : runBuildNativeTarget(c, dist)
          \/ \E cmd \in {"prepare", "publish", "build-native"}, env \in Environments :
               StartAssemble(c, cmd, env) \/ \E ts \in SUBSET Targets : StartRelease(c, cmd, ts, env)
          \/ \E t \in Targets : BuildTarget(c, t) \/ Stop(c, t)
          \/ \E p \in Packages :
               SkipPackage(c, p) \/ \E answered \in BOOLEAN : PublishPackage(c, p, answered)
    BY <1>7 DEF ReleaseNext
  <2>2. version[c] \in Versions /\ {} \in SUBSET Versions /\ {} \in SUBSET Targets /\ TRUE \in BOOLEAN
    BY <1>0 DEF ReleaseTypeOK
  <2>3. CASE Download(c) \/ Upload(c)
    BY <1>2, <2>2, <2>3
  <2>4. CASE \E v \in Versions : Clone(c, v) \/ Switch(c, v)
    BY <1>2, <2>2, <2>4
  <2>5. CASE \E dist \in SUBSET Versions : runBuildNativeTarget(c, dist)
    BY <1>2, <2>2, <2>5
  <2>6. CASE \E cmd \in {"prepare", "publish", "build-native"}, env \in Environments :
               StartAssemble(c, cmd, env) \/ \E ts \in SUBSET Targets : StartRelease(c, cmd, ts, env)
    BY <1>3, <2>2, <2>6
  <2>7. CASE \E p \in Packages :
               SkipPackage(c, p) \/ \E answered \in BOOLEAN : PublishPackage(c, p, answered)
    BY <1>6, <2>2, <2>7
  <2> QED BY <1>4, <1>5, <2>1, <2>3, <2>4, <2>5, <2>6, <2>7
<1> QED BY <1>1, <1>7

LEMMA Invariant == ReleaseSpec => []ReleaseInv
BY InvInit, InvNext, PTL DEF ReleaseSpec

(* Every variable keeps its type.                                          *)
THEOREM ReleaseTypeCorrect == ReleaseSpec => []ReleaseTypeOK
<1>1. ReleaseInv => ReleaseTypeOK
  BY DEF ReleaseInv
<1> QED BY <1>1, Invariant, PTL

(* Whatever a registry serves, at every moment of any number of releases,  *)
(* pulls in only what it serves too.                                       *)
THEOREM ServedIsInstallable == ReleaseSpec => []Installable
<1>1. ReleaseInv => Installable
  BY DEF ReleaseInv
<1> QED BY <1>1, Invariant, PTL

(* What a registry serves as a version is the release build of that        *)
(* version's source.                                                       *)
THEOREM ServedIsFaithful == ReleaseSpec => []BuiltFromItsVersion
<1>1. ReleaseInv => BuiltFromItsVersion
  BY DEF ReleaseInv
<1> QED BY <1>1, Invariant, PTL

(* Both, for any targets, checkouts and versions.                          *)
THEOREM ServedSoundly == ReleaseSpec => []ServedIsSound
<1>1. Installable /\ BuiltFromItsVersion => ServedIsSound
  BY DEF ServedIsSound
<1> QED BY <1>1, ServedIsInstallable, ServedIsFaithful, PTL

(* A publish run that reports success leaves the whole graph published.    *)
THEOREM SuccessIsComplete == ReleaseSpec => []SuccessMeansShipped
<1>1. ASSUME ReleaseInv PROVE SuccessMeansShipped
  <2> SUFFICES ASSUME NEW s \in shipped, s.version \notin leftovers, sets[s.version] = {s.targets}
               PROVE  /\ \A p \in s.targets \cup Workspace : published(p, s.version)
                      /\ s.targets \subseteq registry["compiler"][s.version].needs
    BY DEF SuccessMeansShipped
  <2>1. \A p \in s.targets \cup Workspace : published(p, s.version)
    BY <1>1 DEF ReleaseInv, ShippedOk
  <2>2. s.version \in Versions /\ published("compiler", s.version)
    BY <1>1, <2>1 DEF ReleaseInv, ReleaseTypeOK, Workspace
  <2>3. PICK ts \in sets[s.version] :
               registry["compiler"][s.version].needs = {"core"} \cup ts
    BY <1>1, <2>2 DEF ReleaseInv, CompilerOk
  <2> QED BY <2>1, <2>3
<1> QED BY <1>1, Invariant, PTL
==============================================================================
