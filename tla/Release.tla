------------------------------- MODULE Release -------------------------------
(***************************************************************************)
(* The release orchestrator: native packages are built and staged under    *)
(* .npm/, by the jobs of the publish workflow or in a developer's          *)
(* checkout; the TypeScript packages are staged around them; and the       *)
(* package graph goes to npm one package at a time, in dependency order.   *)
(* Nothing in a registry is ever replaced, a run can stop between any two  *)
(* steps, and a re-run skips what already landed.  A checkout keeps .npm/  *)
(* when it moves to another version, and `publish --assemble` publishes    *)
(* whatever it finds there.                                                *)
(***************************************************************************)
EXTENDS Naturals, FiniteSets

CONSTANTS
  Targets,      \* the native targets of the release (the workflow's matrix)
  Os,           \* Os[t]: the operating system of a target
  Checkouts,    \* working copies: of the workflow's jobs, of a developer
  Host,         \* Host[c]: the target a checkout's machine runs
  MaxVersion,   \* bound: the versions released are 1..MaxVersion
  Environments, \* the [tools, zig, allow] a command may be run with
  None          \* no package, no command

Versions == 1 .. MaxVersion
Workspace == {"core", "compiler", "aruna", "create-aruna-app"}
Packages == Targets \cup Workspace
Tools == {"cargo", "cargo-zigbuild", "zig", "cargo-xwin"}

ASSUME ReleaseAssumption ==
  /\ MaxVersion \in Nat
  /\ Targets \cap Workspace = {}
  /\ Os \in [Targets -> {"linux", "darwin", "win32"}]
  /\ Host \in [Checkouts -> Targets]
  /\ Environments \subseteq [tools : SUBSET Tools, zig : {"auto", "never"}, allow : BOOLEAN]

VARIABLES
  version,    \* version[c]: the version every manifest of the checkout carries
  native,     \* native[c][t]: .npm/compiler-<t>, or None
  wrapper,    \* wrapper[c]: the versions whose modules .npm/compiler/dist holds
  run,        \* run[c]: the command under way in the checkout, or None
  uploads,    \* uploads[v][t]: what the job of target t uploaded at version v
  registry,   \* registry[p][v]: the manifest npm serves for p@v, or None
  \* History, for the properties only:
  leftovers,  \* versions assembled from a .npm/ that held something else's output
  sets,       \* sets[v]: the target sets runs started to publish v with
  shipped     \* [version, targets] of the publish runs that reported success

releaseVars == <<version, native, wrapper, run, uploads, registry, leftovers, sets, shipped>>

-----------------------------------------------------------------------------
(* Packages.                                                               *)

NativePackage == [version : Versions, built : Versions, profile : {"debug", "release"},
                  license : BOOLEAN]

Manifest == [needs : SUBSET Packages, built : SUBSET Versions, profile : {"debug", "release"}]

(* What a release build of target t stages at version v.                   *)
ReleaseBuild(v) == [version |-> v, built |-> v, profile |-> "release", license |-> TRUE]

Commands == [cmd : {"prepare", "publish", "build-native"}, phase : {"build", "stage", "publish"},
             env : Environments, assemble : BOOLEAN, targets : SUBSET Targets,
             todo : SUBSET Packages]

ASSUME NoneAssumption == None \notin NativePackage \cup Commands \cup Manifest

(* What an install of the staged package pulls in at the same version: the *)
(* workspace: dependencies stamped with it, the compiler's                 *)
(* optionalDependencies, the project the scaffolder writes.                *)
Needs(p, ts) ==
  IF p \in Targets \/ p = "core" THEN {}
  ELSE IF p = "compiler" THEN {"core"} \cup ts
  ELSE IF p = "aruna" THEN {"core", "compiler"}
  ELSE {"aruna"}

(* The order packages are published in.                                    *)
PublishOrder(p) ==
  IF p \in Targets THEN 0
  ELSE IF p = "core" THEN 1
  ELSE IF p = "compiler" THEN 2
  ELSE IF p = "aruna" THEN 3
  ELSE 4

-----------------------------------------------------------------------------
(* Targets and tools.                                                      *)

canBuildTargetOnHost(host, t) ==
  t = host \/ Os[t] \in {"linux", "win32"} \/ Os[host] = "darwin"

(* Local mode builds the host's target, cross mode any targets the host    *)
(* can build, full mode all of those.                                      *)
TargetSets(host) ==
  LET able == {t \in Targets : canBuildTargetOnHost(host, t)}
  IN  {{host}} \cup (SUBSET able \ {{}})

HasTool(t, host, env) ==
  \/ t = host
  \/ Os[t] = "win32" /\ "cargo-xwin" \in env.tools
  \/ /\ Os[t] = "linux" \/ (Os[t] = "darwin" /\ Os[host] = "darwin")
     /\ env.zig # "never"
     /\ {"cargo-zigbuild", "zig"} \subseteq env.tools

selectNativeBuildTool(t, host, env) ==
  IF "cargo" \notin env.tools THEN "throw"
  ELSE IF HasTool(t, host, env) THEN "build"
  ELSE IF env.allow THEN "skip" ELSE "throw"

-----------------------------------------------------------------------------
ReleaseInit ==
  /\ version \in [Checkouts -> Versions]
  /\ native = [c \in Checkouts |-> [t \in Targets |-> None]]
  /\ wrapper = [c \in Checkouts |-> {}]
  /\ run = [c \in Checkouts |-> None]
  /\ uploads = [v \in Versions |-> [t \in Targets |-> None]]
  /\ registry = [p \in Packages |-> [v \in Versions |-> None]]
  /\ leftovers = {}
  /\ sets = [v \in Versions |-> {}]
  /\ shipped = {}

published(p, v) == registry[p][v] # None

history == <<leftovers, sets, shipped>>

(* A job of the workflow, or a new clone: nothing is staged.               *)
Clone(c, v) ==
  /\ run[c] = None
  /\ version' = [version EXCEPT ![c] = v]
  /\ native' = [native EXCEPT ![c] = [t \in Targets |-> None]]
  /\ wrapper' = [wrapper EXCEPT ![c] = {}]
  /\ UNCHANGED <<run, uploads, registry, history>>

(* A checkout moves to another version; .npm/ is not under version control *)
(* and stays.                                                              *)
Switch(c, v) ==
  /\ run[c] = None
  /\ version[c] # v
  /\ version' = [version EXCEPT ![c] = v]
  /\ UNCHANGED <<native, wrapper, run, uploads, registry, history>>

(* `pnpm build:native`: the host's addon, unoptimised, over what .npm/     *)
(* holds, and the wrapper around it when some build left a dist/.          *)
runBuildNativeTarget(c, dist) ==
  LET host == Host[c]
      old  == native[c][host]
      new  == [version |-> version[c], built |-> version[c], profile |-> "debug",
               license |-> old # None /\ old.license]
  IN  /\ run[c] = None
      /\ native' = [native EXCEPT ![c][host] = new]
      /\ wrapper' = [wrapper EXCEPT ![c] = IF dist = {} THEN {} ELSE @ \cup dist]
      /\ UNCHANGED <<version, run, uploads, registry, history>>

(* The workflow's publish job: a clone, and the artifacts of every job of  *)
(* the matrix, each of which it needs.                                     *)
Download(c) ==
  /\ run[c] = None
  /\ native[c] = [t \in Targets |-> None] /\ wrapper[c] = {}
  /\ \A t \in Targets : uploads[version[c]][t] # None
  /\ native' = [native EXCEPT ![c] = uploads[version[c]]]
  /\ UNCHANGED <<version, wrapper, run, uploads, registry, history>>

-----------------------------------------------------------------------------
StartOverLeftovers(c, cmd, ts, env) ==  \* mutant: .npm/ is not emptied first.
  /\ run[c] = None
  /\ ts \in TargetSets(Host[c])
  /\ run' = [run EXCEPT ![c] = [cmd |-> cmd, phase |-> "build", env |-> env, assemble |-> FALSE,
                                targets |-> {}, todo |-> ts]]
  /\ UNCHANGED <<version, native, wrapper, uploads, registry, history>>

(* `release <cmd>`: .npm/ is emptied and the targets are built.            *)
StartRelease(c, cmd, ts, env) ==
  /\ run[c] = None
  /\ ts \in TargetSets(Host[c])
  /\ native' = [native EXCEPT ![c] = [t \in Targets |-> None]]
  /\ wrapper' = [wrapper EXCEPT ![c] = {}]
  /\ run' = [run EXCEPT ![c] = [cmd |-> cmd, phase |-> "build", env |-> env, assemble |-> FALSE,
                                targets |-> {}, todo |-> ts]]
  /\ UNCHANGED <<version, uploads, registry, history>>

(* `release <cmd> --assemble`: the targets are those found under .npm/.    *)
discoverStagedNativeTargets(c) == {t \in Targets : native[c][t] # None}

StartAssemble(c, cmd, env) ==
  /\ run[c] = None
  /\ cmd # "build-native"
  /\ discoverStagedNativeTargets(c) # {}
  /\ run' = [run EXCEPT ![c] = [cmd |-> cmd, phase |-> "stage", env |-> env, assemble |-> TRUE,
                                targets |-> discoverStagedNativeTargets(c), todo |-> {}]]
  /\ UNCHANGED <<version, native, wrapper, uploads, registry, history>>

(* One target of the list: built and staged, or skipped for want of a tool.*)
BuildTarget(c, t) ==
  LET r == run[c]
      tool == selectNativeBuildTool(t, Host[c], r.env)
  IN  /\ r # None
      /\ r.phase = "build" /\ t \in r.todo
      /\ tool # "throw"
      /\ run' = [run EXCEPT ![c].todo = @ \ {t},
                            ![c].targets = IF tool = "build" THEN @ \cup {t} ELSE @,
                            ![c].phase = IF r.todo = {t} THEN "stage" ELSE @]
      /\ native' = [native EXCEPT ![c][t] = IF tool = "build" THEN ReleaseBuild(version[c])
                                            ELSE None]
      /\ UNCHANGED <<version, wrapper, uploads, registry, history>>

(* The command throws or is interrupted, in the middle of a target         *)
(* perhaps: the addon and the manifest are there, the license is not.      *)
Stop(c, t) ==
  /\ run[c] # None
  /\ run' = [run EXCEPT ![c] = None]
  /\ native' = IF /\ run[c].phase = "build" /\ t \in run[c].todo
                   /\ selectNativeBuildTool(t, Host[c], run[c].env) = "build"
               THEN [native EXCEPT ![c][t] = [ReleaseBuild(version[c]) EXCEPT !.license = FALSE]]
               ELSE native
  /\ UNCHANGED <<version, wrapper, uploads, registry, history>>

(* `release build-native` is done; a job of the workflow uploads its       *)
(* package.                                                                *)
Upload(c) ==
  LET r == run[c]
      v == version[c]
  IN  /\ r # None
      /\ r.cmd = "build-native" /\ r.phase = "stage"
      /\ run' = [run EXCEPT ![c] = None]
      /\ uploads' = [uploads EXCEPT ![v] =
                         [t \in Targets |-> IF t \in r.targets THEN native[c][t] ELSE @[t]]]
      /\ UNCHANGED <<version, native, wrapper, registry, history>>

-----------------------------------------------------------------------------
(* The files, the license, the manifest's name and platform.  The version  *)
(* is not looked at.                                                       *)
validateLicense(package) == package.license
validateNativePackage(c, t) == validateLicense(native[c][t])
(* The compiler's manifest, staged just now, names the natives found.      *)
validateStagedRelease(c, ts) == \A t \in ts : validateNativePackage(c, t)

(* Something other than this version's release build is being assembled.   *)
Leftover(c) ==
  \/ \E t \in run[c].targets : native[c][t] # ReleaseBuild(version[c])
  \/ ~ (wrapper[c] \subseteq {version[c]})

(* The TypeScript packages are built from empty dist/ directories and      *)
(* staged; the compiler's modules are copied over what its directory       *)
(* holds.                                                                  *)
Stage(c) ==
  LET r == run[c]
      v == version[c]
  IN  /\ r # None
      /\ r.cmd # "build-native" /\ r.phase = "stage"
      /\ wrapper' = [wrapper EXCEPT ![c] = @ \cup {v}]
      /\ \/ /\ ~ validateStagedRelease(c, r.targets) \/ r.cmd = "prepare"
            /\ run' = [run EXCEPT ![c] = None]
            /\ UNCHANGED <<leftovers, sets>>
         \/ /\ validateStagedRelease(c, r.targets) /\ r.cmd = "publish"
            /\ run' = [run EXCEPT ![c].phase = "publish", ![c].todo = r.targets \cup Workspace]
            /\ leftovers' = IF r.assemble /\ Leftover(c)
                            THEN leftovers \cup {v} \cup {native[c][t].version : t \in r.targets}
                            ELSE leftovers
            /\ sets' = [sets EXCEPT ![v] = @ \cup {r.targets}]
      /\ UNCHANGED <<version, native, uploads, registry, shipped>>

(* The manifest of the staged package, and the version it carries.         *)
StagedVersion(c, p) == IF p \in Targets THEN native[c][p].version ELSE version[c]

StagedManifest(c, p) ==
  IF p \in Targets
  THEN [needs |-> {}, built |-> {native[c][p].built}, profile |-> native[c][p].profile]
  ELSE [needs |-> Needs(p, run[c].targets), profile |-> "release",
        built |-> IF p = "compiler" THEN wrapper[c] ELSE {version[c]}]

TurnInAnyOrder(c, p) ==  \* mutant: in any order.
  /\ run[c] # None
  /\ run[c].phase = "publish" /\ p \in run[c].todo

(* The next package in the order.                                          *)
Turn(c, p) ==
  /\ run[c] # None
  /\ run[c].phase = "publish" /\ p \in run[c].todo
  /\ \A q \in run[c].todo : PublishOrder(p) <= PublishOrder(q)

Done(c, p) ==
  /\ run' = [run EXCEPT ![c] = IF run[c].todo = {p} THEN None
                               ELSE [run[c] EXCEPT !.todo = @ \ {p}]]
  /\ shipped' = IF run[c].todo = {p}
                THEN shipped \cup {[version |-> version[c], targets |-> run[c].targets]}
                ELSE shipped

SkipPackageOfAnyVersion(c, p) ==  \* mutant: any version of the package counts as published.
  /\ Turn(c, p)
  /\ \E v \in Versions : published(p, v)
  /\ Done(c, p)
  /\ UNCHANGED <<version, native, wrapper, uploads, registry, leftovers, sets>>

(* isAlreadyPublished: npm view answers for the version being released.    *)
SkipPackage(c, p) ==
  /\ Turn(c, p)
  /\ published(p, version[c])
  /\ Done(c, p)
  /\ UNCHANGED <<version, native, wrapper, uploads, registry, leftovers, sets>>

(* npm publish: taken, unless the registry has that version, which a view  *)
(* that failed or lagged did not show.  The answer may get lost.           *)
PublishPackage(c, p, answered) ==
  LET v == StagedVersion(c, p)
  IN  /\ Turn(c, p)
      /\ ~ published(p, v)
      /\ registry' = [registry EXCEPT ![p][v] = StagedManifest(c, p)]
      /\ \/ answered /\ Done(c, p)
         \/ ~ answered /\ run' = [run EXCEPT ![c] = None] /\ UNCHANGED shipped
      /\ UNCHANGED <<version, native, wrapper, uploads, leftovers, sets>>

ReleaseNext ==
  \/ \E c \in Checkouts :
       \/ Download(c) \/ Upload(c) \/ Stage(c)
       \/ \E v \in Versions : Clone(c, v) \/ Switch(c, v)
       \/ \E dist \in SUBSET Versions : runBuildNativeTarget(c, dist)
       \/ \E cmd \in {"prepare", "publish", "build-native"}, env \in Environments :
            StartAssemble(c, cmd, env) \/ \E ts \in SUBSET Targets : StartRelease(c, cmd, ts, env)
       \/ \E t \in Targets : BuildTarget(c, t) \/ Stop(c, t)
       \/ \E p \in Packages :
            SkipPackage(c, p) \/ \E answered \in BOOLEAN : PublishPackage(c, p, answered)

ReleaseSpec == ReleaseInit /\ [][ReleaseNext]_releaseVars

-----------------------------------------------------------------------------
ReleaseTypeOK ==
  /\ version \in [Checkouts -> Versions]
  /\ native \in [Checkouts -> [Targets -> NativePackage \cup {None}]]
  /\ wrapper \in [Checkouts -> SUBSET Versions]
  /\ run \in [Checkouts -> Commands \cup {None}]
  /\ uploads \in [Versions -> [Targets -> NativePackage \cup {None}]]
  /\ registry \in [Packages -> [Versions -> Manifest \cup {None}]]
  /\ leftovers \subseteq Versions
  /\ sets \in [Versions -> SUBSET SUBSET Targets]
  /\ shipped \subseteq [version : Versions, targets : SUBSET Targets]

(* Whatever npm serves can be installed: every package it pulls in at its  *)
(* version is there, however often runs stopped half way and whichever     *)
(* other run published the rest (releases assembled from leftovers apart). *)
Installable ==
  \A p \in Packages, v \in Versions \ leftovers :
    published(p, v) => \A q \in registry[p][v].needs : published(q, v)

(* What npm serves as a version is the release build of that version's     *)
(* source and nothing else.                                                *)
BuiltFromItsVersion ==
  \A p \in Packages, v \in Versions \ leftovers :
    published(p, v) => registry[p][v].built = {v} /\ registry[p][v].profile = "release"

(* release.ts:920, 967: with re-runs after a failure, and runs on           *)
(* several machines and versions side by side, npm serves nothing that     *)
(* cannot be installed or that another build made.                         *)
ServedIsSound == Installable /\ BuiltFromItsVersion

(* A run that reports success has shipped: the whole graph is on npm, and  *)
(* the compiler there names every target of the run, if all runs that set  *)
(* out to publish the version had those targets.                           *)
SuccessMeansShipped ==
  \A s \in shipped :
    s.version \notin leftovers /\ sets[s.version] = {s.targets} =>
      /\ \A p \in s.targets \cup Workspace : published(p, s.version)
      /\ s.targets \subseteq registry["compiler"][s.version].needs
=============================================================================
