---------------------------- MODULE BinaryCodec ----------------------------
(***************************************************************************)
(* The binary encoding of a signal's payload (binary.ts) and what a        *)
(* subscriber makes of a frame (signal-runtime.ts).  A frame is the        *)
(* fingerprint of its schema, here the layout that is hashed, and a        *)
(* sequence of cells, each written in a format; to read one in another     *)
(* format is to misread it.                                                *)
(***************************************************************************)
EXTENDS ContractSchema
LOCAL INSTANCE SequencesExt

CONSTANTS
  FieldOrder,      \* the names of fields, sorted
  UnreliableLimit  \* how many cells an unreliable remote carries

Refused == Atom("refused", "", 0)
Garbage == Atom("garbage", "", 0)

(* sortedKeys; and an order in which the values of an enum, or the members *)
(* of a union, are declared.                                               *)
Sorted(names) == SelectSeq(FieldOrder, LAMBDA f : f \in names)
Listed(S) == SetToSeq(S)

-----------------------------------------------------------------------------
(* schemaLayoutString.  Constraints are no part of it.                     *)
RECURSIVE Layout(_)
LayoutOfPresent(s) == Layout(s.inner)  \* mutant: optional and required fields look the same
LayoutOfOptional(s) == <<"?", Layout(s.inner)>>
Layout(s) ==
  CASE s.kind = "number" -> <<"n", s.format>>
    [] s.kind = "literal" -> <<"l", s.literal>>
    [] s.kind = "enum" -> <<"e", Listed(s.values)>>
    [] s.kind = "optional" -> LayoutOfOptional(s)
    [] s.kind \in {"array", "record"} -> <<s.kind, Layout(s.items)>>
    [] s.kind = "tuple" -> <<"t", [i \in DOMAIN s.members |-> Layout(s.members[i])]>>
    [] s.kind = "union" -> <<"u", [i \in 1 .. Cardinality(s.members) |-> Layout(Listed(s.members)[i])]>>
    [] s.kind = "object" -> <<"o", [f \in DOMAIN s.fields |-> Layout(s.fields[f])]>>
    [] OTHER -> <<s.kind>>

-----------------------------------------------------------------------------
(* encodeValue.                                                            *)
Cell(format, v) == << [as |-> format, is |-> v] >>
Size(n) == Atom("size", "", n)
Key(f) == Atom("key", f, 0)

(* The first member that accepts the value is the one that is written.     *)
MemberFor(s, v) ==
  CHOOSE i \in 1 .. Cardinality(s.members) :
    /\ Accepts(Listed(s.members)[i], v)
    /\ \A j \in 1 .. i - 1 : ~Accepts(Listed(s.members)[j], v)

RECURSIVE Encode(_, _)
Encode(s, v) ==
  CASE s.kind = "string" -> Cell("string", v)
    [] s.kind = "number" -> Cell(s.format, v)
    [] s.kind = "boolean" -> Cell("u8", v)
    [] s.kind = "literal" -> << >>
    [] s.kind = "enum" -> Cell("u32", Size(CHOOSE i \in DOMAIN Listed(s.values) : Listed(s.values)[i] = v))
    [] s.kind = "optional" ->
         IF v = Absent THEN Cell("u8", Size(0)) ELSE Cell("u8", Size(1)) \o Encode(s.inner, v)
    [] s.kind = "array" ->
         Cell("u32", Size(Len(v.list)))
           \o FlattenSeq([i \in DOMAIN v.list |-> Encode(s.items, v.list[i])])
    [] s.kind = "record" ->
         LET keys == Sorted(DOMAIN v.fields) IN
         Cell("u32", Size(Len(keys)))
           \o FlattenSeq([i \in DOMAIN keys |->
                            Cell("string", Key(keys[i])) \o Encode(s.items, v.fields[keys[i]])])
    [] s.kind = "tuple" ->
         FlattenSeq([i \in DOMAIN s.members |-> Encode(s.members[i], v.list[i])])
    [] s.kind = "object" ->
         LET keys == Sorted(DOMAIN s.fields) IN
         FlattenSeq([i \in DOMAIN keys |-> Encode(s.fields[keys[i]], Field(v, keys[i]))])
    [] s.kind = "union" ->
         Cell("u32", Size(MemberFor(s, v))) \o Encode(Listed(s.members)[MemberFor(s, v)], v)

-----------------------------------------------------------------------------
(* decodeValue: what is read, and what is left to read.                    *)
Got(v, rest) == [is |-> v, rest |-> rest]
Take(format, cells) ==
  IF cells = << >> THEN Got(Refused, << >>)
  ELSE Got(IF Head(cells).as = format THEN Head(cells).is ELSE Garbage, Tail(cells))

(* An array or a tuple is pushed item by item; to push nothing does        *)
(* nothing.                                                                *)
Pushed(items) == SelectSeq(items, LAMBDA v : v # Absent)

RECURSIVE Decode(_, _), DecodeAll(_, _)

(* One after the other, for as long as none is refused.                    *)
DecodeAll(schemas, cells) ==
  IF schemas = << >> THEN Got(<< >>, cells)
  ELSE LET first == Decode(Head(schemas), cells)
           others == DecodeAll(Tail(schemas), first.rest)
       IN  Got(<<first.is>> \o others.is, others.rest)

Unless(refused, got) == IF refused THEN Got(Refused, << >>) ELSE got
IsRefused(items) == \E i \in DOMAIN items : items[i] = Refused

DecodeObject(s, cells) ==
  LET keys == Sorted(DOMAIN s.fields)
      all == DecodeAll([i \in DOMAIN keys |-> s.fields[keys[i]]], cells)
      at(f) == all.is[CHOOSE i \in DOMAIN keys : keys[i] = f]
      set == {f \in DOMAIN s.fields : ~(s.fields[f].kind = "optional" /\ at(f) = Absent)}
  IN  Unless(IsRefused(all.is), Got(Table(<< >>, [f \in set |-> at(f)]), all.rest))

DecodeRecord(s, cells) ==
  LET count == Take("u32", cells)
      entry == <<[kind |-> "string"], s.items>>
      all == DecodeAll(FlattenSeq([i \in 1 .. count.is.size |-> entry]), count.rest)
      keys == {all.is[2 * i - 1].id : i \in 1 .. count.is.size}
      at(f) == all.is[2 * (CHOOSE i \in 1 .. count.is.size : all.is[2 * i - 1].id = f)]
  IN  Unless(count.is = Refused \/ IsRefused(all.is),
             Got(Table(<< >>, [f \in keys |-> at(f)]), all.rest))

Decode(s, cells) ==
  CASE s.kind = "string" -> Take("string", cells)
    [] s.kind = "number" -> Take(s.format, cells)
    [] s.kind = "boolean" -> Take("u8", cells)
    [] s.kind = "literal" -> Got(s.literal, cells)
    [] s.kind = "enum" ->
         LET index == Take("u32", cells) IN
         Unless(index.is.size \notin DOMAIN Listed(s.values),
                Got(Listed(s.values)[index.is.size], index.rest))
    [] s.kind = "optional" ->
         LET flag == Take("u8", cells) IN
         IF flag.is = Refused THEN flag
         ELSE IF flag.is = Size(0) THEN Got(Absent, flag.rest)
         ELSE Decode(s.inner, flag.rest)
    [] s.kind = "array" ->
         LET count == Take("u32", cells)
             all == DecodeAll([i \in 1 .. count.is.size |-> s.items], count.rest)
         IN  Unless(count.is = Refused \/ IsRefused(all.is),
                    Got(Table(Pushed(all.is), << >>), all.rest))
    [] s.kind = "tuple" ->
         LET all == DecodeAll(s.members, cells) IN
         Unless(IsRefused(all.is), Got(Table(Pushed(all.is), << >>), all.rest))
    [] s.kind = "object" -> DecodeObject(s, cells)
    [] s.kind = "record" -> DecodeRecord(s, cells)
    [] s.kind = "union" ->
         LET index == Take("u32", cells) IN
         IF index.is.size \notin 1 .. Cardinality(s.members) THEN Got(Refused, << >>)
         ELSE Decode(Listed(s.members)[index.is.size], index.rest)

-----------------------------------------------------------------------------
(* What a signal sends of a payload: nothing that its schema refuses, and  *)
(* of an unreliable one nothing that would be dropped for its size.        *)
Frame(s, v) == [t |-> "buffer", fingerprint |-> Layout(s), cells |-> Encode(s, v)]
Publishable(signal, v) == Accepts(signal.schema, v)
WirePayload(signal, v) ==
  IF signal.wire = "table" THEN v
  ELSE LET frame == Frame(signal.schema, v) IN
       IF signal.unreliable /\ Len(frame.cells) > UnreliableLimit THEN Refused ELSE frame
Sent(signal, v) == IF Publishable(signal, v) THEN WirePayload(signal, v) ELSE Refused

(* A subscriber drops what it cannot decode, and what its own schema does  *)
(* not accept.                                                             *)
DecodePayload(s, frame) ==
  IF frame.fingerprint # Layout(s) THEN Refused ELSE Decode(s, frame.cells).is
ReadWirePayload(signal, payload) ==
  IF signal.wire = "table" THEN payload
  ELSE IF payload.t # "buffer" THEN Refused ELSE DecodePayload(signal.schema, payload)
Handed(signal, payload) ==
  LET v == ReadWirePayload(signal, payload) IN
  IF v # Refused /\ Accepts(signal.schema, v) THEN v ELSE Refused

(* What an encoding can carry at all: an object's undeclared fields are not*)
(* written, and the member that is written may declare fewer than another. *)
RECURSIVE Carried(_, _)
Carried(s, v) ==
  CASE s.kind = "object" ->
         v.list = << >> /\ DOMAIN v.fields \subseteq DOMAIN s.fields
         /\ \A f \in DOMAIN s.fields : Carried(s.fields[f], Field(v, f))
    [] s.kind = "record" -> \A f \in DOMAIN v.fields : Carried(s.items, v.fields[f])
    [] s.kind = "array" -> v.fields = << >> /\ \A i \in DOMAIN v.list : Carried(s.items, v.list[i])
    [] s.kind = "tuple" -> v.fields = << >> /\ \A i \in DOMAIN s.members : Carried(s.members[i], v.list[i])
    [] s.kind = "optional" -> v = Absent \/ Carried(s.inner, v)
    [] s.kind = "union" -> Carried(Listed(s.members)[MemberFor(s, v)], v)
    [] OTHER -> TRUE
=============================================================================
