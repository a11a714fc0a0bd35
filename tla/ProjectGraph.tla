---------------------------- MODULE ProjectGraph ----------------------------
(***************************************************************************)
(* What the Rust compiler concludes from the files of a project            *)
(* (graph.rs, rules.rs, shared_safety.rs, compiler.rs): which module each  *)
(* file is, what its imports resolve to, whether the project crosses a     *)
(* client/server boundary, and which files are generated from it.          *)
(*                                                                         *)
(* A file's text is what the check reads from it: whether it parses, the   *)
(* primitives it defines, the specifiers it imports at run time (`loads')  *)
(* or for types only (`types'), those it takes schemas from (`schemas'),   *)
(* and whether its stores leave saved records unreadable (`breaks').       *)
(***************************************************************************)
EXTENDS FiniteSetsExt, Sequences

CONSTANTS
  Files,         \* the paths source discovery can find
  Contents,      \* the texts a file can have
  Specifiers,    \* what an import names
  Candidates,    \* the files each specifier may mean, best first
  KindOf,        \* the module kind each path is classified as
  StrictImports, \* strict.unresolvedImports is "error"
  SharedSafety,  \* strict.sharedSafety
  Unreadable     \* no text: the file is not on disk

Nowhere == "nowhere"    \* what an import that does not resolve leads to

ASSUME GraphAssumption ==
  /\ Candidates \in [Specifiers -> Seq(Files)]
  /\ KindOf \in [Files -> {"client", "client entry", "server", "server entry",
                           "shared", "test", "unknown"}]
  /\ {StrictImports, SharedSafety} \subseteq BOOLEAN /\ Unreadable \notin Contents
  /\ Nowhere \notin Files /\ IsFiniteSet(Files)
  /\ \A c \in Contents : c.loads \cup c.types \cup c.schemas \subseteq Specifiers

(* The first candidate that is one of `there', and how far the search      *)
(* looked: up to that candidate, or through all of them.                   *)
FirstIn(spec, there) ==
  LET hits == {i \in DOMAIN Candidates[spec] : Candidates[spec][i] \in there}
  IN  IF hits = {} THEN Nowhere ELSE Candidates[spec][Min(hits)]
Consulted(spec, there) ==
  {Candidates[spec][i] : i \in {j \in DOMAIN Candidates[spec] :
      \A k \in 1 .. (j - 1) : Candidates[spec][k] \notin there}}

(* The one-hop schema imports of a text: the files that had to be looked   *)
(* at, as they were read, and what discovery finds with them.              *)
Reads(c, read) ==
  LET there == {f \in Files : read[f] # Unreadable}
      looked == IF c.parses
                THEN UNION {Consulted(s, there) : s \in c.schemas} ELSE {}
  IN  [f \in looked |-> read[f]]
Discovery(c, deps) ==
  IF ~c.parses THEN [parses |-> FALSE]
  ELSE [parses |-> TRUE, defines |-> c.defines, breaks |-> c.breaks,
        schemas |-> {<<f, deps[f]>> : f \in DOMAIN deps}]

(* What each import of a text resolves to: the file has to be one the walk *)
(* found and still be on disk.                                             *)
Links(c, fileSet, onDisk) ==
  IF ~c.parses THEN {}
  ELSE {<<s, FirstIn(s, fileSet \cap onDisk), s \in c.types>> :
          s \in c.loads \cup c.types}

-----------------------------------------------------------------------------
(* The conclusions of a check, from its files' discoveries and links.      *)
Failed == [failed |-> TRUE]
Report(fileSet, found, links, input) ==
  [failed |-> FALSE, files |-> fileSet, found |-> found, links |-> links,
   input |-> input]

(* A file that defines a primitive takes that primitive's kind, the first  *)
(* registered one's.  Specs are left out of discovery.                     *)
ModuleKind(r, f) ==
  LET d == r.found[f].parses /\ KindOf[f] # "test"
  IN  CASE d /\ "action"   \in r.found[f].defines -> "server action"
        [] d /\ "store"    \in r.found[f].defines -> "server store"
        [] d /\ "resource" \in r.found[f].defines -> "server"
        [] OTHER -> KindOf[f]

UnknownIsExempt(k) ==   \* mutant: a module of no known kind is under no rule
  CASE k \in {"client", "client entry"} -> "client"
    [] k \in {"server", "server entry", "server action", "server store"} -> "server"
    [] k = "unknown" -> "unknown"
    [] OTHER -> "shared"
NormalKind(k) ==
  CASE k \in {"client", "client entry"} -> "client"
    [] k \in {"server", "server entry", "server action", "server store"} -> "server"
    [] OTHER -> "shared"
SharedLike(k) == k \in {"shared", "unknown"}

BoundaryCode(importer, imported) ==
  LET a == NormalKind(importer)
      b == NormalKind(imported)
  IN  CASE imported = "test" /\ importer # "test" -> 305
        [] importer = "test" -> 0
        [] a = "client" /\ imported = "server action" -> 556
        [] a = "client" /\ imported = "server store"  -> 574
        [] a = "client" /\ b = "server" -> 300
        [] a = "server" /\ b = "client" -> 301
        [] a = "shared" /\ b = "client" -> 302
        [] a = "shared" /\ b = "server" -> 303
        [] OTHER -> 0

(* The run-time edges between modules of the project.                      *)
Edges(r) ==
  {e \in r.files \X r.files :
     \E l \in r.links[e[1]] : l[2] = e[2] /\ ~l[3]}

(* The shared modules that load a module of `side' in n steps or fewer,    *)
(* through shared modules only.                                            *)
Upstream(r, side, steps) ==
  LET kind == [f \in r.files |-> ModuleKind(r, f)]
      at[n \in 0 .. steps] ==
        IF n = 0 THEN {f \in r.files :
                         ~SharedLike(kind[f]) /\ kind[f] # "test"
                         /\ NormalKind(kind[f]) = side}
        ELSE at[n-1] \cup {f \in r.files : SharedLike(kind[f])
                             /\ \E e \in Edges(r) : e[1] = f /\ e[2] \in at[n-1]}
  IN  {f \in at[steps] : SharedLike(kind[f])}
TransitiveErrors(r, side) ==
  Upstream(r, side, Cardinality(r.files)) \ Upstream(r, side, 1)

(* Whether the check ends without an error: parse failures, boundary       *)
(* violations, direct or through shared modules, and, under the strict     *)
(* setting, relative imports of a classified module that do not resolve.   *)
(* No code is in diagnostics.ignore: one that is would not count.          *)
Unresolved(r) ==
  {f \in r.files : ModuleKind(r, f) # "unknown" /\ \E l \in r.links[f] : l[2] = Nowhere}
CheckOk(r) ==
  /\ ~r.failed
  /\ \A f \in r.files : r.found[f].parses
  /\ \A e \in Edges(r) : BoundaryCode(ModuleKind(r, e[1]), ModuleKind(r, e[2])) = 0
  /\ SharedSafety => TransitiveErrors(r, "server") \cup TransitiveErrors(r, "client") = {}
  /\ StrictImports => Unresolved(r) = {}

(* The definitions the manifest records, and the generated files: the      *)
(* action stubs always, the others when the project defines one.           *)
Defined(r) ==
  UNION {r.found[f].defines : f \in {g \in r.files :
           r.found[g].parses /\ KindOf[g] # "test"}}
Emitted(r) ==
  IF r.failed THEN {}
  ELSE {"actions"} \cup (Defined(r) \cap {"signal", "resource"})

(* The contract gate, which reads the stores of a manifest.                *)
GateFails(r) == \E f \in r.files : r.found[f].parses /\ KindOf[f] # "test"
                                   /\ r.found[f].breaks

-----------------------------------------------------------------------------
(* A clean check: everything read from one state of the disk.              *)
CleanCheck(disk, input) ==
  LET there == {f \in Files : disk[f] # Unreadable}
  IN  Report(there,
        [f \in there |-> Discovery(disk[f],
           IF KindOf[f] = "test" THEN << >> ELSE Reads(disk[f], disk))],
        [f \in there |-> Links(disk[f], there, there)], input)
=============================================================================
