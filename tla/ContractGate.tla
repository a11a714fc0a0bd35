---------------------------- MODULE ContractGate ----------------------------
(***************************************************************************)
(* An entry of a game's contract over its life: its code is edited, builds *)
(* are compared with the committed snapshot of what was shipped last       *)
(* (contract-gate.ts, contract-diff.ts), and what is shipped reads the     *)
(* records earlier builds saved (store.ts) and serves the clients earlier  *)
(* builds made (signal-runtime.ts).                                        *)
(***************************************************************************)
EXTENDS ContractReport, BinaryCodec

CONSTANTS
  Entries, Values,   \* what the code may define, and what values there are
  Careful   \* whether the project keeps what no diff looks at: a migrate of
            \* records still old, and the names of what it has removed

ASSUME GateAssumption ==
  /\ Careful \in BOOLEAN

VARIABLES
  code,      \* the entry as the code defines it
  snapshot,  \* as the committed snapshot has it, and the shipped build
  written,   \* the version of that snapshot
  client,    \* of the calls, what a client was built against
  record,    \* a store's record in the DataStore: where, version and value
  retired    \* names that were shipped and then removed

vars == <<code, snapshot, written, client, record, retired>>

Place(store) == <<store.kind, store.scope>>
Record(store, v) == [place |-> Place(store), version |-> store.version, value |-> v]
NoRecord == [place |-> <<>>, version |-> 0, value |-> Absent]

(* What a program typed by a schema makes.                                 *)
Writes(s) ==
  {v \in Values : Accepts(s, v) /\ (v.t = "table" => DOMAIN v.fields \subseteq Declared(s))}

(* The names an entry uses: its own, of a field, an error, a rate limit.   *)
Fields(tag, s) ==
  {<<tag, f>> : f \in IF s = NoSchema THEN {} ELSE Declared(BuiltOrNone(s))}
Named(e) ==
  CASE e = Gone \/ ~Compiles(e) -> {}
    [] e.sort = "action" ->
         {<<"entry", "">>} \cup Fields("input", e.input) \cup Fields("output", e.output)
         \cup {<<"error", n>> : n \in DOMAIN e.errors}
         \cup {<<"limit", "">> : l \in {e.limit} \ {NoLimit}}
    [] OTHER -> {<<"entry", "">>} \cup Fields("schema", e.schema)

Init ==
  /\ code \in {e \in Entries : Compiles(e) /\ (e.sort = "store" => e.version = 1 /\ ~e.migrate)}
  /\ snapshot = code /\ client = code
  /\ written \in {1, 2}
  /\ IF code.sort = "store" THEN \E v \in Writes(Running(code).schema) : record = Record(code, v)
     ELSE record = NoRecord
  /\ retired = {}

(* A careful edit does not drop a migrate, nor use a removed name again.   *)
Kept(e) ==
  /\ \A n \in retired : n \notin Named(e)
  /\ (snapshot.sort = "store" /\ e.sort = "store" /\ snapshot.migrate) => e.migrate
Edit(e) ==
  /\ code = snapshot
  /\ Gone \in {e, code} \/ e.sort = code.sort
  /\ Careful => Kept(e)
  /\ code' = e
  /\ UNCHANGED <<snapshot, written, client, record, retired>>

(* unreadableRecordChanges.                                                *)
Report == DiffEntry(Comparable(written, Contract(snapshot)), Comparable(written, Contract(code)))
Unreadable(report) == snapshot.sort = "store" /\ "breaking" \in report
StillLoads(store) ==
  /\ record.place = Place(store)
  /\ record.version = store.version =>
       LET s == Running(store).schema IN Accepts(s, Filled(s, record.value))
  /\ record.version < store.version => store.migrate
  /\ record.version <= store.version
Doubtful(report) == "warning" \in report \/ written = 1  \* constraints-not-compared
LookedInto(report) == Doubtful(report) /\ code.sort = "store" => StillLoads(code)

(* `aruna contract update`, `aruna build` and the deployment of the build. *)
(* Of calls, a change that is reported is only made with the clients.      *)
Ship ==
  /\ (code # snapshot \/ written = 1) /\ Compiles(code)
  /\ LET report == Report IN
     /\ ~Unreadable(report) /\ LookedInto(report)
     /\ client' = IF code.sort = "store" \/ Doubtful(report) \/ "breaking" \in report
                  THEN code ELSE client
  /\ snapshot' = code /\ written' = 2
  /\ retired' = retired \cup (Named(snapshot) \ Named(code))
  /\ UNCHANGED <<code, record>>

(* A client of the shipped build is made.                                  *)
Build ==
  /\ snapshot.sort # "store" /\ code = snapshot
  /\ client' = snapshot
  /\ UNCHANGED <<code, snapshot, written, record, retired>>

(* The shipped build saves: a value of its schema, in which fields it does *)
(* not know may be as they were loaded.                                    *)
Savable(store, held) ==
  LET s == Running(store).schema IN
  {v \in Values :
     /\ Accepts(s, v)
     /\ v.t = "table" =>
          \A f \in DOMAIN v.fields \ Declared(s) : held.t = "table" /\ v.fields[f] = Field(held, f)}
Save ==
  /\ snapshot.sort = "store"
  /\ \E v \in Savable(snapshot, record.value) : record' = Record(snapshot, v)
  /\ UNCHANGED <<code, snapshot, written, client, retired>>

(* The edit is thrown away: it was refused, say.                           *)
Revert == code' = snapshot /\ UNCHANGED <<snapshot, written, client, record, retired>>

Next ==
  \/ \E e \in Entries \cup {Gone} : Edit(e)
  \/ Ship \/ Build \/ Revert \/ Save
Spec == Init /\ [][Next]_vars

-----------------------------------------------------------------------------
(* What a schema's type promises: a default is there.                      *)
RECURSIVE Promised(_)
Promised(s) == IF s.kind = "default" THEN Promised(s.inner) ELSE EachChild(s, Promised)
Delivers(s, v) == Accepts(s, Filled(s, v)) /\ Accepts(Promised(s), Filled(s, v))

(* Whatever the gate let through over time, the shipped build reads what   *)
(* earlier ones saved, as its schema's type promises (contract-gate.ts:3-13*)
(* contract-diff.ts:2023-2034; schema.ts:179-181).                         *)
RecordsLoad ==
  snapshot.sort = "store" =>
    /\ StillLoads(snapshot)
    /\ record.version = snapshot.version => Delivers(Running(snapshot).schema, record.value)

(* A record that is refused is refused with a place in it that is refused, *)
(* and none other has an issue (schema-check.ts:125-128).                  *)
TrueIssues(s) ==
  \A v \in Values :
    (Issues(s, v) = {}) = Accepts(s, v) /\ \A issue \in Issues(s, v) : ~Accepts(issue[1], issue[2])
Builds == {Running(e) : e \in {e \in Entries : Compiles(e)}}
IssueVerdicts == {<<e.schema, TrueIssues(e.schema)>> : e \in {e \in Builds : e.sort = "store"}}
IssuesAreTrue == snapshot.sort = "store" => <<Running(snapshot).schema, TRUE>> \in IssueVerdicts

(* A change that is not reported as breaking or to be looked into breaks   *)
(* no client built before it, nor does one that follows: the server takes  *)
(* what the client sends, hands it what it was promised, still runs a      *)
(* retried call once, and lets it call as often.  Number formats are left  *)
(* out: the diff does not compare them (contract-diff.ts:1173-1177,        *)
(* 1257-1259, 1361-1429, 1432-1451, 1635-1651, 1682-1807, 1924-1931).      *)
Understands(sent, expected) ==
  sent = NoSchema \/ expected = NoSchema \/ \A v \in Writes(Bare(sent)) : Accepts(Bare(expected), v)
Handles(sent, expected) ==
  sent = NoSchema \/ expected = NoSchema \/ \A v \in Writes(Bare(sent)) : Delivers(Bare(expected), v)
CallSchemas ==
  UNION ({{a.output} \cup {a.errors[n] : n \in DOMAIN a.errors} :
            a \in {e \in Builds : e.sort = "action"}}
         \cup {{a.schema} : a \in {e \in Builds : e.sort \in {"signal", "resource"}}}) \ {NoData}
InputSchemas == {a.input : a \in {e \in Builds : e.sort = "action"}}
Inputs == {<<p[1], p[2], Handles(p[1], p[2])>> : p \in InputSchemas \X InputSchemas}
CallVerdicts == {<<p[1], p[2], Understands(p[1], p[2])>> : p \in CallSchemas \X CallSchemas}
Understood(sent, expected) == <<sent, expected, TRUE>> \in CallVerdicts

ServesAction(c, s) ==
  /\ c.export \in {NoExport, s.export} /\ (c.idempotent => s.idempotent)
  /\ NoLimit \notin {c.limit, s.limit} => c.limit.key = s.limit.key /\ ~Tightened(c.limit, s.limit)
  /\ <<c.input, s.input, TRUE>> \in Inputs /\ (c.output = NoSchema) = (s.output = NoSchema)
  /\ Understood(s.output, c.output)
  /\ \A n \in DOMAIN c.errors \cap DOMAIN s.errors :
       c.errors[n] # NoData => s.errors[n] # NoData /\ Understood(s.errors[n], c.errors[n])
ClientsServed ==
  client # Gone /\ client.sort # "store" =>
    /\ snapshot # Gone
    /\ LET c == Running(client)  s == Running(snapshot) IN
       CASE c.sort = "action" -> ServesAction(c, s)
         [] c.sort = "signal" -> c.wire = s.wire /\ Understood(s.schema, c.schema)
         [] c.sort = "resource" -> c.scope = s.scope /\ Understood(s.schema, c.schema)

(* A payload that a server on the new build publishes, in a table or a     *)
(* buffer, reaches a client on the old one as it was sent or not at all,   *)
(* never misread; and it reaches it if the layout is the same and no change*)
(* was reported (signal-runtime.ts:158-197; binary.ts:7-12).               *)
Unreported(before, after) ==
  DiffSignal(Contract(before), Contract(after)) \cap {"breaking", "warning"} = {}
Payloads(e) ==
  {v \in Values : Sent(e, v) # Refused /\ (e.wire = "binary" => Carried(e.schema, v))}
ReadAsSent(mine, theirs) ==
  \A v \in Payloads(theirs) :
    LET got == Handed(mine, Sent(theirs, v)) IN
    /\ got \in {v, Refused}
    /\ Layout(mine.schema) = Layout(theirs.schema) /\ Unreported(mine, theirs) => got = v
IsTyped(e) == e.sort = "signal" /\ e.schema # NoSchema
TypedSignals == {e \in Builds : IsTyped(e)}
FrameVerdicts == {<<p[1], p[2], ReadAsSent(p[1], p[2])>> : p \in TypedSignals \X TypedSignals}
FramesAreRead ==
  IsTyped(snapshot) /\ IsTyped(code) /\ Compiles(code) =>
    <<Running(snapshot), Running(code), TRUE>> \in FrameVerdicts
=============================================================================
