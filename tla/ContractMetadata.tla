-------------------------- MODULE ContractMetadata --------------------------
(***************************************************************************)
(* What the compiler records of a schema (schema_metadata.rs).  A chain is *)
(* unwrapped: of the bounds that can be read, the tightest; of what cannot *)
(* be read, a predicate or a bound that code computes, how many and which, *)
(* and a hash, here what is hashed.  A default is an optional, and a       *)
(* discriminated union a union.  What cannot be read fails the build.        *)
(***************************************************************************)
EXTENDS ContractSchema
LOCAL INSTANCE SequencesExt
LOCAL INSTANCE FiniteSetsExt

CONSTANTS
  Unset,    \* a bound that is not declared
  Consts,   \* Consts[m]: the schemas that are module-level consts of module m
  Imports   \* Imports[m]: its imports, the module each is from and its name there
ASSUME SchemaAssumption ==
  /\ Unset \notin Int
  /\ \A m \in DOMAIN Imports : \A n \in DOMAIN Imports[m] :
       n \notin DOMAIN Consts[m] /\ Imports[m][n].from \in DOMAIN Consts

(* static_number_argument; a length is a whole number, and not negative.   *)
IsBound(c) == c.call \in {"min", "max", "length"}
Readable(kind, c) == c.text = "" /\ (kind = "number" \/ (c.arg >= 0 /\ c.arg % 2 = 0))

(* A chain that repeats a bound keeps the tighter one.                     *)
Bounds(kind, chain, calls) ==
  {c.arg : c \in {c \in ToSet(chain) : c.call \in calls /\ Readable(kind, c)}}
Raised(B) == IF B = {} THEN Unset ELSE Max(B)
Lowered(B) == IF B = {} THEN Unset ELSE Min(B)

(* record_constraint, for every call.                                      *)
Opaque(kind, c) == c.call = "refine" \/ (IsBound(c) /\ ~Readable(kind, c))
Recorded(kind, chain) ==
  [lo |-> Raised(Bounds(kind, chain, {"min", "length"})),
   hi |-> Lowered(Bounds(kind, chain, {"max", "length"})),
   int |-> \E c \in ToSet(chain) : c.call = "int",
   refinements |-> Len(SelectSeq(chain, LAMBDA c : c.call = "refine")),
   dynamic |-> {c.call : c \in {c \in ToSet(chain) : IsBound(c) /\ ~Readable(kind, c)}},
   hash |-> SelectSeq(chain, LAMBDA c : Opaque(kind, c))]

-----------------------------------------------------------------------------
(* Where a schema is written, the name of one may stand for it, or code    *)
(* that is no call of `schema', with what it evaluates to (`is').          *)
Ref(n) == [kind |-> "name", name |-> n]
Code(s) == [kind |-> "code", is |-> s]
NotRead == [kind |-> "not read"]  \* the build fails, with a diagnostic

(* What the program builds: the schema in module m, every name replaced.   *)
RECURSIVE Built(_, _)
Built(m, s) ==
  CASE s.kind = "name" /\ s.name \in DOMAIN Consts[m] -> Built(m, Consts[m][s.name])
    [] s.kind = "name" /\ s.name \notin DOMAIN Consts[m] ->
         Built(Imports[m][s.name].from, Ref(Imports[m][s.name].name))
    [] s.kind = "code" -> s.is
    [] OTHER -> EachChild(s, LAMBDA t : Built(m, t))

(* SchemaScope: the module-level consts, and the imports; none where an    *)
(* import leads, which is one hop away.                                    *)
Scope(m) == [consts |-> Consts[m], imports |-> Imports[m]]
HopScope(m) == [consts |-> Consts[m], imports |-> << >>]

(* A const may be another's name, not in a circle.                         *)
RECURSIVE Followed(_, _, _)
Followed(scope, s, seen) ==
  IF s.kind # "name" \/ s.name \notin DOMAIN scope.consts THEN s
  ELSE IF s.name \in seen THEN NotRead
  ELSE Followed(scope, scope.consts[s.name], seen \cup {s.name})

RECURSIVE Metadata(_, _)
Imported(scope, n) ==
  IF n \notin DOMAIN scope.imports THEN NotRead
  ELSE LET at == scope.imports[n] IN
       IF at.name \notin DOMAIN Consts[at.from] THEN NotRead
       ELSE Metadata(HopScope(at.from), Consts[at.from][at.name])

IfRead(children, s) == IF NotRead \in children THEN NotRead ELSE s

(* A literal is a string, true or false, undefined, or the digits of a     *)
(* number: not a negative one.                                             *)
IsLiteral(v) == v.t \in {"string", "boolean", "absent"} \/ (v.t = "number" /\ v.size >= 0)
AreLiterals(values) == \A v \in values : IsLiteral(v)

(* parse_schema_call.                                                      *)
FieldsOf(scope, fields) == [f \in DOMAIN fields |-> Metadata(scope, fields[f])]
MetadataOfObject(scope, s) ==
  LET fields == FieldsOf(scope, s.fields) IN
  IfRead({fields[f] : f \in DOMAIN fields}, [s EXCEPT !.fields = fields])
MetadataOfTuple(scope, s) ==
  LET members == [i \in DOMAIN s.members |-> Metadata(scope, s.members[i])] IN
  IF members = << >> THEN NotRead ELSE IfRead(ToSet(members), [s EXCEPT !.members = members])
MembersOf(scope, members) == {Metadata(scope, m) : m \in members}
MetadataOfUnion(scope, s) ==
  LET members == MembersOf(scope, s.members) IN
  IF members = {} THEN NotRead ELSE IfRead(members, [kind |-> "union", members |-> members])
MetadataOfOptional(scope, s) ==
  LET inner == Metadata(scope, s.inner) IN IfRead({inner}, [kind |-> "optional", inner |-> inner])
MetadataOfArray(scope, s) ==
  LET items == Metadata(scope, s.items) IN
  IfRead({items}, [s EXCEPT !.items = items, !.chain = Recorded("array", @)])
MetadataOfRecord(scope, s) ==
  LET items == Metadata(scope, s.items) IN
  IfRead({items}, [s EXCEPT !.items = items, !.chain = Recorded("record", @)])
MetadataOfEnum(s) == IF AreLiterals(s.values) THEN s ELSE NotRead
MetadataOfLiteral(s) == IF IsLiteral(s.literal) THEN s ELSE NotRead
Metadata(scope, source) ==
  LET s == Followed(scope, source, {}) IN
  CASE s.kind = "name" -> Imported(scope, s.name)
    [] s.kind \in {"code", "not read"} -> NotRead
    [] s.kind = "boolean" -> s
    [] s.kind \in {"string", "number"} -> [s EXCEPT !.chain = Recorded(s.kind, @)]
    [] s.kind = "literal" -> MetadataOfLiteral(s)
    [] s.kind = "enum" -> MetadataOfEnum(s)
    [] s.kind = "array" -> MetadataOfArray(scope, s)
    [] s.kind = "record" -> MetadataOfRecord(scope, s)
    [] s.kind \in {"optional", "default"} -> MetadataOfOptional(scope, s)
    [] s.kind = "tuple" -> MetadataOfTuple(scope, s)
    [] s.kind = "object" -> MetadataOfObject(scope, s)
    [] s.kind = "union" -> MetadataOfUnion(scope, s)
=============================================================================
