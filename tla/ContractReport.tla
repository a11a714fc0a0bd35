--------------------------- MODULE ContractReport ---------------------------
(***************************************************************************)
(* The entries of a contract snapshot (action-contracts.ts) and what the   *)
(* diff of two snapshots says of one of them, added, removed or changed    *)
(* (contract-diff.ts).  What only moves, a source path or a module kind,   *)
(* and what has one value only, an owner or a serialization policy, is     *)
(* left out.                                                               *)
(***************************************************************************)
EXTENDS ContractDiff

CONSTANTS
  NoSchema,   \* of an output or a payload that is not declared
  NoData,     \* of an error that carries none
  NoLimit, NoExport,
  Module      \* the module that defines the entries

Gone == [sort |-> "gone"]

Kinds == {"string", "number", "boolean", "literal", "enum", "optional", "union",
          "array", "record", "tuple", "object"}
IsSchema(s) == s # NoSchema => s.kind \in Kinds

(* What a snapshot's records are parsed as.                                *)
IsLimit(l) == l.key \in {"player", "global"} /\ {l.max, l.window} \subseteq Nat \ {0}
IsErrors(errors) == \A n \in DOMAIN errors : errors[n] # NoData => IsSchema(errors[n])
IsAction(e) ==
  /\ e.sort = "action" /\ {e.idempotent, e.authorized} \subseteq BOOLEAN
  /\ IsSchema(e.input) /\ IsSchema(e.output)
  /\ e.limit # NoLimit => IsLimit(e.limit)
  /\ IsErrors(e.errors)
IsSignal(e) == e.sort = "signal" /\ e.wire \in {"table", "binary"} /\ IsSchema(e.schema)
IsResource(e) == e.sort = "resource" /\ e.scope \in {"player", "global"} /\ IsSchema(e.schema)
IsStore(e) ==
  /\ e.sort = "store" /\ e.kind \in {"store", "playerStore"}
  /\ e.version \in Nat /\ e.migrate \in BOOLEAN /\ IsSchema(e.schema)

IsEntry(e) == e = Gone \/ IsAction(e) \/ IsSignal(e) \/ IsResource(e) \/ IsStore(e)

(* The schemas of an entry, each changed.                                  *)
EachSchema(e, Do(_)) ==
  CASE e.sort = "action" ->
         [e EXCEPT !.input = Do(@), !.output = Do(@), !.errors = [n \in DOMAIN @ |-> Do(@[n])]]
    [] e.sort \in {"signal", "resource", "store"} -> [e EXCEPT !.schema = Do(@)]
    [] e.sort = "gone" -> e

(* What runs, and what the compiler records (buildActionContractSnapshot). *)
(* A schema it could not read fails the build, and no snapshot is written. *)
BuiltOrNone(s) == IF s \in {NoSchema, NoData} THEN s ELSE Built(Module, s)
MetadataOrNone(s) == IF s \in {NoSchema, NoData} THEN s ELSE Metadata(Scope(Module), s)
Running(e) == EachSchema(e, BuiltOrNone)
Contract(e) == EachSchema(e, MetadataOrNone)
Compiles(e) == IsEntry(Contract(e))

(* withoutSnapshotConstraints: a snapshot of version 1 has none, so they   *)
(* are dropped on both sides.                                              *)
RECURSIVE Unconstrained(_)
Unconstrained(s) ==
  IF s \in {NoSchema, NoData} THEN s
  ELSE EachChild(IF HasChain(s) THEN [s EXCEPT !.chain = Recorded(s.kind, << >>)] ELSE s, Unconstrained)
Comparable(version, e) == IF version = 1 THEN EachSchema(e, Unconstrained) ELSE e

-----------------------------------------------------------------------------
DiffSchemaOrNone(role, s, t) ==
  IF s = t THEN {} ELSE IF NoSchema \in {s, t} THEN {"breaking"} ELSE DiffSchema(role, s, t)

(* A limit that is new, or gone, breaks nobody; of two, how many calls they*)
(* let through over time is compared.                                      *)
Tightened(l, m) == m.max * l.window < l.max * m.window
DiffRateLimit(l, m) ==
  If(NoLimit \notin {l, m} /\ (l.key # m.key \/ Tightened(l, m)), "breaking")

DiffIdempotent(was, is) == If(was /\ ~is, "breaking")
DiffExport(was, is) == If(was \notin {is, NoExport}, "breaking")

(* Who may call is the server's own policy.                                *)
DiffAuthorized(was, is) == If(was # is, "info")

DiffErrorData(d, e) ==
  IF d = NoData THEN {} ELSE IF e = NoData THEN {"breaking"} ELSE DiffSchemaOrNone("output", d, e)
DiffErrors(e, f) == UNION {DiffErrorData(e[n], f[n]) : n \in DOMAIN e \cap DOMAIN f}

DiffAction(e, f) ==
  DiffExport(e.export, f.export) \cup DiffAuthorized(e.authorized, f.authorized)
  \cup DiffRateLimit(e.limit, f.limit) \cup DiffIdempotent(e.idempotent, f.idempotent)
  \cup DiffSchemaOrNone("input", e.input, f.input) \cup DiffSchemaOrNone("output", e.output, f.output)
  \cup DiffErrors(e.errors, f.errors)
DiffSignal(e, f) == If(e.wire # f.wire, "breaking") \cup DiffSchemaOrNone("output", e.schema, f.schema)
DiffResource(e, f) == If(e.scope # f.scope, "breaking") \cup DiffSchemaOrNone("output", e.schema, f.schema)

(* A store is the DataStore it names, under a scope.  Across a version,    *)
(* `migrate` converts, and the schemas are not compared.                   *)
DiffStore(e, f) ==
  IF e.scope # f.scope THEN {"breaking"}
  ELSE If(e.kind # f.kind, "breaking") \cup
       (IF f.version < e.version THEN {"breaking"}
        ELSE IF f.version > e.version THEN If(~f.migrate, "breaking")
        ELSE DiffStoreSchema(e.schema, f.schema))

(* Whoever called it, or waits for what it sent, is broken by a removal; a *)
(* store's records stay, unread.                                           *)
DiffEntry(e, f) ==
  IF e = Gone THEN {}
  ELSE IF f = Gone THEN If(e.sort # "store", "breaking")
  ELSE CASE e.sort = "action" -> DiffAction(e, f)
         [] e.sort = "signal" -> DiffSignal(e, f)
         [] e.sort = "resource" -> DiffResource(e, f)
         [] e.sort = "store" -> DiffStore(e, f)
=============================================================================
