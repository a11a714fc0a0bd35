---------------------------- MODULE ContractDiff ----------------------------
(***************************************************************************)
(* What `aruna contract diff` says of two versions of a schema             *)
(* (contract-diff.ts, schema-constraints.ts): the severities of the        *)
(* entries it reports.  An action's input and what a server sends are      *)
(* compared by diffSchema, a store's records by diffStoreSchema.           *)
(***************************************************************************)
EXTENDS ContractMetadata

(* hasOptionalWrapper, unwrapOptional.                                     *)
IsOptional(s) == s.kind = "optional"
Unwrapped(s) == IF IsOptional(s) THEN s.inner ELSE s

-----------------------------------------------------------------------------
(* How `after` constrains compared with `before`.                          *)
Direction(tighter) == IF tighter THEN "tightened" ELSE "loosened"

Tighter(was, now, lower) ==
  now # Unset /\ (was = Unset \/ (IF lower THEN now > was ELSE now < was))

(* boundsOf: a length that cannot be read may have moved both ends.        *)
BoundsOf(call) == CASE call = "min" -> {"lo"} [] call = "max" -> {"hi"} [] call = "length" -> {"lo", "hi"}

(* A count that moved already accounts for a changed hash.                 *)
CompareConstraints(c, d) ==
  LET unreadable == UNION {BoundsOf(call) : call \in c.dynamic \cup d.dynamic} IN
  If("lo" \notin unreadable /\ c.lo # d.lo, Direction(Tighter(c.lo, d.lo, TRUE)))
  \cup If("hi" \notin unreadable /\ c.hi # d.hi, Direction(Tighter(c.hi, d.hi, FALSE)))
  \cup If(c.int # d.int, Direction(d.int))
  \cup If(c.refinements # d.refinements, Direction(d.refinements > c.refinements))
  \cup If(c.dynamic # d.dynamic \/ (c.hash # d.hash /\ c.refinements = d.refinements), "changed")

-----------------------------------------------------------------------------
(* Calls: an input travels from the client to the server, the other way    *)
(* round for everything else.                                              *)
Roles == {"input", "output"}

SameSeverity(role, direction) ==  \* mutant: a looser bound is fine for everyone
  IF direction = "changed" THEN "warning"
  ELSE IF direction = "tightened" THEN "breaking" ELSE "non-breaking"
ConstraintSeverity(role, direction) ==
  IF direction = "changed" THEN "warning"
  ELSE IF (direction = "tightened") = (role = "input") THEN "breaking" ELSE "non-breaking"

DiffConstraints(role, c, d) == {ConstraintSeverity(role, x) : x \in CompareConstraints(c, d)}

(* What schemaNodesEqual looks at: number formats, outside of unions, are  *)
(* not compared.                                                           *)
RECURSIVE Bare(_)
Bare(s) ==
  CASE s.kind = "number" -> [s EXCEPT !.format = "any"]
    [] s.kind = "union" -> s
    [] OTHER -> EachChild(s, Bare)

RECURSIVE DiffSchema(_, _, _)

AddedField(role, t) == If(role = "input" /\ ~IsOptional(t), "breaking")
RemovedField(role) == If(role # "input", "breaking")
MovedOptional(role, t) == {IF IsOptional(t) = (role = "input") THEN "info" ELSE "breaking"}

(* A field on both sides: its optionality, then what it holds.             *)
FieldChanged(role, s, t) ==
  (IF IsOptional(s) # IsOptional(t) THEN MovedOptional(role, t) ELSE {})
  \cup DiffSchema(role, Unwrapped(s), Unwrapped(t))

DiffObject(role, s, t) ==
  UNION ({FieldChanged(role, s.fields[f], t.fields[f]) : f \in DOMAIN s.fields \cap DOMAIN t.fields}
         \cup {AddedField(role, t.fields[f]) : f \in DOMAIN t.fields \ DOMAIN s.fields}
         \cup {RemovedField(role) : f \in DOMAIN s.fields \ DOMAIN t.fields})

(* Both of one kind.                                                       *)
DiffKind(role, s, t) ==
  CASE s.kind \in {"string", "number", "boolean"} -> {}
    [] s.kind \in {"array", "record"} -> DiffSchema(role, s.items, t.items)
    [] s.kind = "optional" -> DiffSchema(role, s.inner, t.inner)
    [] s.kind = "tuple" ->
         IF Len(s.members) # Len(t.members) THEN {"breaking"}
         ELSE UNION {DiffSchema(role, s.members[i], t.members[i]) : i \in DOMAIN s.members}
    [] s.kind = "object" -> DiffObject(role, s, t)
    [] OTHER -> If(s # t, "breaking")

DiffSchema(role, s, t) ==
  IF Bare(s) = Bare(t) THEN {}
  ELSE IF s.kind # t.kind THEN {"breaking"}
  ELSE DiffKind(role, s, t) \cup
       (IF HasChain(s) THEN DiffConstraints(role, s.chain, t.chain) ELSE {})

-----------------------------------------------------------------------------
(* Stores: the reader must accept what the writer saved.                   *)

FormatAcceptsWider(writer, reader) ==  \* mutant: only the upper ends are compared
  reader \in DOMAIN FormatRange =>
    writer \in DOMAIN FormatRange /\ FormatRange[writer][2] <= FormatRange[reader][2]
NumericFormatAccepts(writer, reader) ==
  reader \in DOMAIN FormatRange =>
    /\ writer \in DOMAIN FormatRange
    /\ FormatRange[writer][1] >= FormatRange[reader][1]
    /\ FormatRange[writer][2] <= FormatRange[reader][2]

(* storeSchemaNodesEqual: number formats, and everything else, are compared.*)
SameStored(w, r) == w = r

Unformatted(reader) == reader.kind = "number" => reader.format = "any"
CrossKindAccepts(writer, reader) ==
  \/ /\ writer.kind = "literal"
     /\ \/ reader.kind = writer.literal.t /\ Unformatted(reader)
        \/ reader.kind = "enum" /\ writer.literal \in reader.values
  \/ /\ writer.kind = "enum" /\ reader.kind \in {"string", "number"}
     /\ \A v \in writer.values : v.t = reader.kind /\ Unformatted(reader)
  \/ reader.kind = "union" /\ \E m \in reader.members : SameStored(writer, m)

(* A bound that loosened goes unreported.                                  *)
StoreConstraint(direction) ==
  CASE direction = "tightened" -> {"breaking"}
    [] direction = "changed" -> {"warning"}
    [] OTHER -> {}

RECURSIVE DiffStoreSchema(_, _)

DiffStoreObject(w, r) ==
  UNION ({DiffStoreSchema(w.fields[f], r.fields[f]) : f \in DOMAIN w.fields \cap DOMAIN r.fields}
         \cup {If(~IsOptional(r.fields[f]), "breaking") : f \in DOMAIN r.fields \ DOMAIN w.fields}
         \cup {{"removed"} : f \in DOMAIN w.fields \ DOMAIN r.fields})

DiffStoreKind(w, r) ==
  CASE w.kind = "number" -> If(~NumericFormatAccepts(w.format, r.format), "breaking")
    [] w.kind = "literal" -> If(w.literal # r.literal, "breaking")
    [] w.kind = "enum" -> If(~(w.values \subseteq r.values), "breaking")
    [] w.kind = "union" ->
         If(\E m \in w.members : \A n \in r.members : ~SameStored(m, n), "breaking")
    [] w.kind \in {"array", "record"} -> DiffStoreSchema(w.items, r.items)
    [] w.kind = "tuple" ->
         IF Len(w.members) # Len(r.members) THEN {"breaking"}
         ELSE UNION {DiffStoreSchema(w.members[i], r.members[i]) : i \in DOMAIN w.members}
    [] w.kind = "object" -> DiffStoreObject(w, r)
    [] OTHER -> {}

(* "removed" is the warning of a field that is no longer read.             *)
DiffStoreSchema(w, r) ==
  IF SameStored(w, r) THEN {}
  ELSE IF IsOptional(r) THEN DiffStoreSchema(Unwrapped(w), r.inner)
  ELSE IF IsOptional(w) THEN {"breaking"}
  ELSE IF w.kind # r.kind THEN If(~CrossKindAccepts(w, r), "breaking")
  ELSE DiffStoreKind(w, r) \cup
       (IF HasChain(w)
        THEN UNION {StoreConstraint(d) : d \in CompareConstraints(w.chain, r.chain)}
        ELSE {})
=============================================================================
