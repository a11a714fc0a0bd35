--------------------------- MODULE MCContractGate ---------------------------
(* Schemas of every kind, an object with up to two fields, and the values  *)
(* at the edges of their bounds and formats.  Literals are strings, and    *)
(* strings have no chain; a bound is a number or computed, not both; the   *)
(* defaults are values their schema accepts, in objects and arrays.        *)
EXTENDS ContractGate, TLC
CONSTANTS r1, r2, t0, t2

MCFieldOrder == <<"a", "b">>
MCPasses == r1 :> {0, 2, 4} @@ r2 :> {2, 4, 510}
MCComputed == t0 :> 0 @@ t2 :> 2

Str(id) == Atom("string", id, 2)
Chains ==
  {<<>>, <<Static("min", 0)>>, <<Static("min", 2)>>, <<Static("max", 2)>>, <<Static("int", 0)>>,
   <<Static("min", 2), Static("min", 0)>>, <<Static("min", 0), Static("max", 2)>>,
   <<Refine(r1)>>, <<Refine(r2)>>, <<Refine(r1), Refine(r2)>>,
   <<Runtime("min", t0)>>, <<Runtime("min", t2)>>}
Num(format, chain) == [kind |-> "number", format |-> format, chain |-> chain]
Plain == Num("any", <<>>)
String == [kind |-> "string", chain |-> <<>>]
Literal(id) == [kind |-> "literal", literal |-> Str(id)]
Enum(ids) == [kind |-> "enum", values |-> {Str(id) : id \in ids}]
Optional(s) == [kind |-> "optional", inner |-> s]
Default(s, v) == [kind |-> "default", inner |-> s, value |-> v]
Union(members) == [kind |-> "union", members |-> members, tag |-> ""]
Object(fields) == [kind |-> "object", fields |-> fields]
Array(s, chain) == [kind |-> "array", items |-> s, chain |-> chain]

Numbers == {Num("any", c) : c \in Chains} \cup {Num(f, <<>>) : f \in {"u8", "i8", "u16"}}
Names == {String, Literal("x"), Enum({"x"}), Enum({"x", "y"})}
Leaves == Numbers \cup Names \cup {[kind |-> "boolean"]}
Few == {Plain, Num("u8", <<>>), Literal("x"), Enum({"x", "y"})}
Items == {Plain, Num("any", <<Static("min", 2)>>)}
Variant(id, fields) == Object([a |-> Literal(id)] @@ fields)
Variants ==
  {[kind |-> "union", members |-> {Variant("x", [b |-> s])} \cup m, tag |-> "a"] :
     s \in Items, m \in {{}, {Variant("y", << >>)}}}
Containers ==
  {[kind |-> k, items |-> s, chain |-> c] : k \in {"array", "record"}, s \in Items, c \in {<<>>, <<Static("max", 2)>>}}
  \cup {Array(Plain, <<Static("length", 2)>>), Array(Plain, <<Static("max", -2)>>)}
  \cup {[kind |-> "tuple", members |-> m] : m \in {<<Plain>>, <<String>>, <<Plain, String>>}}
  \cup {Union({Plain, Literal("x")}), Union({Plain}), Union({Plain, Enum({"x", "y"})})}
MayBeAbsent(S) == S \cup {Optional(s) : s \in S}
Objects ==
  {Object([a |-> s]) : s \in MayBeAbsent(Few)}
  \cup {Object([a |-> s, b |-> t]) : s \in {Plain, Optional(Plain)}, t \in MayBeAbsent({Plain, Literal("x")})}
Defaults ==
  {Object([a |-> Default(Plain, Number(2))]), Object([a |-> Plain, b |-> Default(Literal("x"), Str("x"))]),
   Array(Object([a |-> Default(Plain, Number(2))]), <<>>), Array(Object([a |-> Plain]), <<>>)}
Encoded == Leaves \cup MayBeAbsent(Few \cup Names \cup Items) \cup Containers \cup Objects \cup Variants
MCSchemas == Encoded \cup Defaults

(* What cannot be read, and what names stand for.                          *)
(* item is a name of this module and, for a thing with a price, of another,*)
(* whose sold is of a third.                                               *)
MCConsts == [here |-> [item |-> Plain, same |-> Ref("item"), knot |-> Ref("knot")],
             there |-> [item |-> Object([a |-> Ref("price")]), price |-> Num("any", <<Static("min", 2)>>), sold |-> Ref("far")],
             far |-> [far |-> Plain]]
MCImports == [here |-> [thing |-> [from |-> "there", name |-> "item"], gone |-> [from |-> "there", name |-> "sold"],
                        late |-> [from |-> "there", name |-> "none"]],
              there |-> [far |-> [from |-> "far", name |-> "far"]], far |-> << >>]
Unseen ==
  {Ref("knot"), Ref("gone"), Ref("late"), Code(Plain), Object([a |-> Code(Plain)]), Array(Ref("gone"), <<>>),
   Optional(Ref("late")), Union({}), [kind |-> "tuple", members |-> <<Code(Plain)>>],
   [kind |-> "literal", literal |-> Number(-2)], [kind |-> "enum", values |-> {Number(-2), Number(2)}]}
Sourced == {Ref("item"), Ref("same"), Ref("thing"), Array(Ref("thing"), <<>>), Object([a |-> Ref("same")])}

(* What the entries are, and how each may be changed.                      *)
Store(kind, scope, version, migrate, s) ==
  [sort |-> "store", kind |-> kind, scope |-> scope, version |-> version, migrate |-> migrate, schema |-> s]
Stores ==
  {Store("store", "s", 1, FALSE, s) : s \in MCSchemas \cup Sourced \cup Unseen}
  \cup {Store("store", "s", n, m, s) : n \in {1, 2}, m \in BOOLEAN, s \in Numbers \cup MayBeAbsent(Few) \cup Defaults}
  \cup {Store(k, c, 1, FALSE, Plain) : k \in {"store", "playerStore"}, c \in {"s", "t"}}

Rates == {[max |-> 1, window |-> 1, key |-> "player"], [max |-> 2, window |-> 1, key |-> "player"],
          [max |-> 5, window |-> 2, key |-> "player"], [max |-> 2, window |-> 1, key |-> "global"]}
Action ==
  [sort |-> "action", export |-> "f", input |-> Plain, output |-> NoSchema, errors |-> << >>,
   idempotent |-> FALSE, authorized |-> FALSE, limit |-> NoLimit]
ErrorData == {NoData, Plain, Num("any", <<Static("min", 2)>>)}
Actions ==
  {[Action EXCEPT !.input = s] : s \in Leaves \cup Objects \cup Defaults}
  \cup {[Action EXCEPT !.output = s] : s \in Leaves \cup Containers \cup MayBeAbsent(Few)}
  \cup {[Action EXCEPT !.limit = l] : l \in Rates}
  \cup {[Action EXCEPT !.errors = [E |-> d]] : d \in ErrorData}
  \cup {[Action EXCEPT !.input = Ref("item")], [Action EXCEPT !.errors = [E |-> Ref("gone")]]}
  \cup {[Action EXCEPT !.idempotent = TRUE], [Action EXCEPT !.authorized = TRUE], [Action EXCEPT !.export = "g"], [Action EXCEPT !.export = NoExport]}

Signal(wire, unreliable, s) == [sort |-> "signal", wire |-> wire, unreliable |-> unreliable, schema |-> s]
Signals == {Signal("binary", FALSE, s) : s \in Encoded} \cup {Signal("table", FALSE, s) : s \in Few}
           \cup {Signal("binary", TRUE, s) : s \in {Plain, Array(Plain, <<>>)}}
Resources == {[sort |-> "resource", scope |-> c, schema |-> s] : c \in {"player", "global"}, s \in Few}
MCEntries == Stores \cup Actions \cup Signals \cup Resources

Atoms == {Absent, Atom("boolean", "true", 0), Str("x"), Str("y")}
         \cup {Number(n) : n \in {-2, 0, 1, 2, 254, 256, 510, 512}}
Held == {Str("x"), Number(1), Number(2), Number(512)}
MCValues ==
  Atoms
  \cup {Table(list, << >>) : list \in {<< >>} \cup {<<x>> : x \in Held} \cup {<<Number(2), y>> : y \in Held}}
  \cup {Table(<<Table(<< >>, f)>>, << >>) : f \in {<< >>, [a |-> Number(1)]}}
  \cup {Table(<< >>, [a |-> x]) : x \in Held}
  \cup {Table(<< >>, [b |-> x]) : x \in Held}
  \cup {Table(<< >>, [a |-> x, b |-> y]) : x \in {Str("x"), Str("y"), Number(1), Number(2)}, y \in Held}
=============================================================================
