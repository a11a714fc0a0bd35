-------------------------- MODULE CompilerSession --------------------------
(***************************************************************************)
(* The compiler session of a watch loop (session.rs, cache.rs, and its     *)
(* native wrapper, which runs checks on a thread of their own): it keeps   *)
(* the list of files, their texts and the facts found in each from one     *)
(* check to the next, and drops what `update' says has changed.  The disk  *)
(* goes on changing while a check runs.                                    *)
(*                                                                         *)
(* Facts that depend on one text alone (static imports, exports, the       *)
(* remote and service accesses) are kept by the text's hash and are left   *)
(* out: a text has the facts it has.  Two texts with one hash are taken to *)
(* be equal.                                                               *)
(***************************************************************************)
EXTENDS ProjectGraph, Functions

CONSTANTS
  Directories,   \* directories that may be moved, as paths
  Under,         \* the files under each
  Rank           \* the order of the walk

ASSUME SessionAssumption ==
  Under \in [Directories -> SUBSET Files] /\ Directories \cap Files = {}

Unwalked == {Nowhere}    \* no file list: the project is walked again

VARIABLES
  disk,          \* the text of each file, or Unreadable
  files,         \* the session's file list, or Unwalked
  sources,       \* the texts held, Unreadable for a read that failed
  discoveries,   \* what discovery found in a file, and from what
  resolutions,   \* what a file's imports resolve to, and from what
  updates,       \* paths reported since the last check began
  checking,      \* where the check is: "no", "walk", "read", "resolve"
  input,         \* what the session was created with
  output         \* what the last check returned

sessionVars == <<files, sources, discoveries, resolutions, updates, checking,
                 input>>

OnDisk == {f \in Files : disk[f] # Unreadable}
ReadOf(f) == IF f \in DOMAIN sources THEN sources[f] ELSE disk[f]
Reading(fs) == [f \in DOMAIN sources \cup fs |-> ReadOf(f)]

(* A session that has seen nothing yet.                                    *)
Created(in) ==
  /\ files' = Unwalked /\ updates' = {} /\ checking' = "no" /\ input' = in
  /\ sources' = << >> /\ discoveries' = << >> /\ resolutions' = << >>

(* What the reported paths do to the cache: the text of a file is dropped, *)
(* and with a directory or a file that is gone everything under it; a path *)
(* that is not a file of the list, or is no file any more, has the project *)
(* walked again.                                                           *)
Dropped(paths) ==
  {f \in Files : f \in paths \/ \E d \in Directories \cap paths : f \in Under[d]}
Rewalk(paths) ==
  \/ files = Unwalked
  \/ \E p \in paths : p \notin files \/ p \notin OnDisk

BeginCheck ==
  /\ checking = "no" /\ checking' = "walk"
  /\ files' = IF Rewalk(updates) THEN Unwalked ELSE files
  /\ sources' = Restrict(sources, DOMAIN sources \ Dropped(updates))
  /\ updates' = {}
  /\ UNCHANGED <<disk, discoveries, resolutions, input, output>>

(* The walk, when the list is gone; facts of files that left are forgotten. *)
Walk ==
  /\ checking = "walk" /\ checking' = "read"
  /\ files' = IF files = Unwalked THEN OnDisk ELSE files
  /\ discoveries' = Restrict(discoveries, DOMAIN discoveries \cap files')
  /\ resolutions' = Restrict(resolutions, DOMAIN resolutions \cap files')
  /\ UNCHANGED <<disk, sources, updates, input, output>>

(* Whether the facts kept for f still stand for what is read now.          *)
DiscoveryFresh(f) ==
  /\ f \in DOMAIN discoveries /\ discoveries[f].of = ReadOf(f)
  /\ \A g \in DOMAIN discoveries[f].deps : discoveries[f].deps[g] = ReadOf(g)
FreshUnderAnyFiles(f) ==   \* mutant: the file list is not part of the key
  f \in DOMAIN resolutions /\ resolutions[f].of = ReadOf(f)
ResolutionFresh(f) ==
  /\ f \in DOMAIN resolutions /\ resolutions[f].of = ReadOf(f)
  /\ resolutions[f].under = files

(* Discovery, in the order of the walk and specs left out: each text not   *)
(* held is read, and so is every text the schema imports look at.  A file  *)
(* of the list that cannot be read ends the check with an internal error;  *)
(* what was read until then stays held.                                    *)
Entry(f) ==
  IF DiscoveryFresh(f) THEN discoveries[f]
  ELSE [of |-> ReadOf(f), deps |-> Reads(ReadOf(f), [g \in Files |-> ReadOf(g)])]
Discover(fs, more) ==
  /\ sources' = Reading(fs \cup more \cup UNION {DOMAIN Entry(f).deps : f \in fs})
  /\ discoveries' = [f \in DOMAIN discoveries \cup fs |->
                       IF f \in fs THEN Entry(f) ELSE discoveries[f]]
  /\ UNCHANGED <<disk, files, resolutions, updates, input>>
Wanted == {f \in files : KindOf[f] # "test"}
Earlier(fs, u) == {f \in fs : Rank[f] < Rank[u]}

ReadAll ==
  /\ checking = "read" /\ checking' = "resolve"
  /\ \A f \in Wanted : ReadOf(f) # Unreadable
  /\ Discover(Wanted, {}) /\ UNCHANGED output
ReadStops ==
  /\ checking = "read" /\ checking' = "no"
  /\ \E u \in Wanted :
       /\ ReadOf(u) = Unreadable
       /\ \A f \in Earlier(Wanted, u) : ReadOf(f) # Unreadable
       /\ Discover(Earlier(Wanted, u), {u})
  /\ output' = Failed

(* Resolving the imports of every file that parses, specs included, which  *)
(* may turn out to be gone, and the report.                                *)
Resolution(f) ==
  IF ResolutionFresh(f) THEN resolutions[f]
  ELSE [of |-> ReadOf(f), under |-> files, to |-> Links(ReadOf(f), files, OnDisk)]
ResolveThe(fs, more) ==
  LET parsed == {f \in fs : ReadOf(f).parses} IN
  /\ sources' = Reading(fs \cup more)
  /\ resolutions' = [f \in DOMAIN resolutions \cup parsed |->
                       IF f \in parsed THEN Resolution(f) ELSE resolutions[f]]
  /\ UNCHANGED <<disk, files, discoveries, updates, input>>

Found(f) ==
  IF KindOf[f] = "test" THEN Discovery(ReadOf(f), << >>)
  ELSE Discovery(discoveries[f].of, discoveries[f].deps)
LinksOf(f) == IF ReadOf(f).parses THEN resolutions[f].to ELSE {}
Concluded ==
  Report(files, [f \in files |-> Found(f)], [f \in files |-> LinksOf(f)], input)

ResolveAll ==
  /\ checking = "resolve" /\ checking' = "no"
  /\ \A f \in files : ReadOf(f) # Unreadable
  /\ ResolveThe(files, {}) /\ output' = Concluded'
ResolveStops ==
  /\ checking = "resolve" /\ checking' = "no"
  /\ \E u \in files :
       /\ ReadOf(u) = Unreadable
       /\ \A f \in Earlier(files, u) : ReadOf(f) # Unreadable
       /\ ResolveThe(Earlier(files, u), {u})
  /\ output' = Failed
=============================================================================
