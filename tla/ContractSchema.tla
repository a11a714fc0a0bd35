--------------------------- MODULE ContractSchema ---------------------------
(***************************************************************************)
(* Schemas, as schema.ts builds them to validate values.  A node may carry *)
(* a chain of calls, each a predicate over the value's size (a number's    *)
(* value, a string's length, an array's items, a record's entries).  An    *)
(* argument is a number in the source, or code that computes one.  Numbers *)
(* and lengths count halves, so that some numbers are not integers.        *)
(***************************************************************************)
EXTENDS Integers, Sequences, FiniteSets

CONSTANTS
  Passes,    \* Passes[r]: the sizes predicate r lets pass
  Computed   \* Computed[t]: the number that code t computes

Static(call, n) == [call |-> call, arg |-> n, text |-> ""]
Runtime(call, t) == [call |-> call, arg |-> Computed[t], text |-> t]
Refine(r) == [call |-> "refine", arg |-> 0, text |-> r]

HasChain(s) == s.kind \in {"string", "number", "array", "record"}

(* Values of the game.  Strings, numbers and booleans are atoms.           *)
Atom(t, id, size) == [t |-> t, id |-> id, size |-> size]
Absent == Atom("absent", "", 0)
Number(n) == Atom("number", "", n)
Table(list, fields) == [t |-> "table", list |-> list, fields |-> fields]
Field(v, f) == IF f \in DOMAIN v.fields THEN v.fields[f] ELSE Absent

(* The integer formats and what each admits.                               *)
FormatRange ==
  [u8 |-> <<0, 510>>, i8 |-> <<-256, 254>>, u16 |-> <<0, 131070>>, i16 |-> <<-65536, 65534>>]
InFormat(format, n) ==
  format \in DOMAIN FormatRange =>
    n % 2 = 0 /\ FormatRange[format][1] <= n /\ n <= FormatRange[format][2]

(* A schema with each of its children changed.                             *)
EachChild(s, Do(_)) ==
  CASE s.kind \in {"array", "record"} -> [s EXCEPT !.items = Do(@)]
    [] s.kind \in {"optional", "default"} -> [s EXCEPT !.inner = Do(@)]
    [] s.kind = "tuple" -> [s EXCEPT !.members = [i \in DOMAIN @ |-> Do(@[i])]]
    [] s.kind = "union" -> [s EXCEPT !.members = {Do(m) : m \in @}]
    [] s.kind = "object" -> [s EXCEPT !.fields = [f \in DOMAIN @ |-> Do(@[f])]]
    [] OTHER -> s

-----------------------------------------------------------------------------
(* validate: the structure first, then the chain.                          *)
Passing(c, size) ==
  CASE c.call = "min" -> size >= c.arg
    [] c.call = "max" -> size <= c.arg
    [] c.call = "length" -> size = c.arg
    [] c.call = "int" -> size % 2 = 0
    [] c.call = "refine" -> size \in Passes[c.text]
Meets(chain, size) == \A i \in DOMAIN chain : Passing(chain[i], size)

RECURSIVE Accepts(_, _)

AcceptsNumber(s, v) == v.t = "number" /\ InFormat(s.format, v.size) /\ Meets(s.chain, v.size)
AcceptsOptional(s, v) == v = Absent \/ Accepts(s.inner, v)
(* An array ignores a table's fields, an object those it does not know.    *)
AcceptsArray(s, v) ==
  v.t = "table" /\ (\A i \in DOMAIN v.list : Accepts(s.items, v.list[i])) /\ Meets(s.chain, 2 * Len(v.list))
AcceptsRecord(s, v) ==
  /\ v.t = "table" /\ v.list = <<>>
  /\ \A f \in DOMAIN v.fields : Accepts(s.items, v.fields[f])
  /\ Meets(s.chain, 2 * Cardinality(DOMAIN v.fields))
AcceptsTuple(s, v) ==
  /\ v.t = "table" /\ Len(v.list) = Len(s.members)
  /\ \A i \in DOMAIN s.members : Accepts(s.members[i], v.list[i])
AcceptsObject(s, v) == v.t = "table" /\ \A f \in DOMAIN s.fields : Accepts(s.fields[f], Field(v, f))

(* A discriminated union has a tag, a field in which each member is a      *)
(* literal of its own; the other unions' is "".                            *)
Tagged(s, v) ==
  {m \in s.members : s.tag \in DOMAIN m.fields /\ m.fields[s.tag] = [kind |-> "literal", literal |-> Field(v, s.tag)]}
AcceptsUnion(s, v) ==
  \E m \in (IF s.tag = "" THEN s.members ELSE IF v.t = "table" THEN Tagged(s, v) ELSE {}) : Accepts(m, v)

Accepts(s, v) ==
  CASE s.kind = "boolean" -> v.t = "boolean"
    [] s.kind = "string" -> v.t = "string" /\ Meets(s.chain, v.size)
    [] s.kind = "number" -> AcceptsNumber(s, v)
    [] s.kind = "literal" -> v = s.literal
    [] s.kind = "enum" -> v \in s.values
    [] s.kind \in {"optional", "default"} -> AcceptsOptional(s, v)
    [] s.kind = "array" -> AcceptsArray(s, v)
    [] s.kind = "record" -> AcceptsRecord(s, v)
    [] s.kind = "tuple" -> AcceptsTuple(s, v)
    [] s.kind = "object" -> AcceptsObject(s, v)
    [] s.kind = "union" -> AcceptsUnion(s, v)

-----------------------------------------------------------------------------
(* firstSchemaIssue: the place, a schema and the value found there, that a *)
(* refusal names.  Which of an object's fields is named first is open.     *)
RECURSIVE Issues(_, _)

If(condition, x) == IF condition THEN {x} ELSE {}
IssueHere(s, v) == If(~Accepts(s, v), <<s, v>>)
IssuesForAbsent(s, v) == Issues(s.inner, v)  \* mutant: an absent default has an issue
IssuesOfOptional(s, v) == IF v = Absent THEN {} ELSE Issues(s.inner, v)
(* The first item in order that has one.                                   *)
IssuesInOrder(schemas, values) ==
  LET bad == {i \in DOMAIN schemas : Issues(schemas[i], values[i]) # {}} IN
  IF bad = {} THEN {} ELSE LET i == CHOOSE i \in bad : \A j \in bad : i <= j IN Issues(schemas[i], values[i])
IssuesOfArray(s, v) ==
  LET inside == IssuesInOrder([i \in DOMAIN v.list |-> s.items], v.list) IN
  IF inside # {} THEN inside ELSE If(~Meets(s.chain, 2 * Len(v.list)), <<s, v>>)
IssuesOfRecord(s, v) ==
  LET inside == UNION {Issues(s.items, v.fields[f]) : f \in DOMAIN v.fields} IN
  IF v.list # <<>> THEN {<<s, v>>} \cup inside
  ELSE IF inside # {} THEN inside
  ELSE If(~Meets(s.chain, 2 * Cardinality(DOMAIN v.fields)), <<s, v>>)
IssuesOfTuple(s, v) ==
  IF Len(v.list) # Len(s.members) THEN {<<s, v>>} ELSE IssuesInOrder(s.members, v.list)
IssuesOfTagged(s, v) ==
  IF Tagged(s, v) = {} THEN {<<s, v>>} ELSE UNION {Issues(m, v) : m \in Tagged(s, v)}

Issues(s, v) ==
  CASE s.kind \in {"optional", "default"} -> IssuesOfOptional(s, v)
    [] s.kind \in {"array", "record", "tuple", "object"} /\ v.t # "table" -> {<<s, v>>}
    [] s.kind = "array" -> IssuesOfArray(s, v)
    [] s.kind = "record" -> IssuesOfRecord(s, v)
    [] s.kind = "tuple" -> IssuesOfTuple(s, v)
    [] s.kind = "object" -> UNION {Issues(s.fields[f], Field(v, f)) : f \in DOMAIN s.fields}
    [] s.kind = "union" /\ s.tag # "" /\ v.t = "table" -> IssuesOfTagged(s, v)
    [] OTHER -> IssueHere(s, v)

-----------------------------------------------------------------------------
(* applyDefaults: what a handler or a program is handed.  Only objects and *)
(* arrays are looked into.                                                 *)
RECURSIVE Filled(_, _)

FilledObject(s, v) ==
  LET at == [f \in DOMAIN s.fields \cup DOMAIN v.fields |->
               IF f \in DOMAIN s.fields THEN Filled(s.fields[f], Field(v, f)) ELSE v.fields[f]]
  IN  [v EXCEPT !.fields = [f \in {g \in DOMAIN at : at[g] # Absent} |-> at[f]]]
FilledArray(s, v) == [v EXCEPT !.list = [i \in DOMAIN @ |-> Filled(s.items, @[i])]]
Filled(s, v) ==
  CASE s.kind = "default" /\ v = Absent -> s.value
    [] s.kind = "default" /\ v # Absent -> Filled(s.inner, v)
    [] s.kind = "optional" /\ v # Absent -> Filled(s.inner, v)
    [] s.kind = "object" /\ v.t = "table" -> FilledObject(s, v)
    [] s.kind = "array" /\ v.t = "table" -> FilledArray(s, v)
    [] OTHER -> v

(* The fields a program typed by s gives a value.                          *)
Declared(s) ==
  LET node == IF s.kind \in {"optional", "default"} THEN s.inner ELSE s IN
  IF node.kind = "object" THEN DOMAIN node.fields ELSE {}
=============================================================================
