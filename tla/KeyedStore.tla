----------------------------- MODULE KeyedStore -----------------------------
(***************************************************************************)
(* `createStore` of store.ts and the persisted format under it: what a     *)
(* server reads out of a key (readStoreRecord, decodeStoreValue), what it  *)
(* writes back (encodeStoreValue) and the requests in between              *)
(* (runStoreRequest), while servers of several versions serve the key.     *)
(*                                                                         *)
(* The data of a record is abstracted to the version its contents are at:  *)
(* a migration from v to w brings contents at v to w, and would rescale    *)
(* other contents just as well.  One key; a DataStore applies a request at *)
(* once or not at all, but may fail to say so.                             *)
(***************************************************************************)
EXTENDS Integers, Sequences

CONSTANTS
  Calls,          \* calls of the game on the store
  Op,             \* Op[c]: "load", "save", "update", "overwrite" or "remove"
  Version,        \* Version[c]: the store's version where c is made
  Given,          \* Given[c]: the value c brings, as far as writing it goes
  BadKeys,        \* calls whose key is empty or too long
  Foreign,        \* records others leave at the key
  Receipts,       \* purchase receipt ids
  Owners,         \* lock owners
  Nobody,         \* no lock
  RetryAttempts,  \* retry.attempts
  MaxReceipts,    \* STORE_MAX_RECEIPTS
  MaxPreserved,   \* STORE_MAX_PRESERVED_META_BYTES
  MaxBytes        \* STORE_MAX_VALUE_BYTES

Ops == {"load", "save", "update", "overwrite", "remove"}
Values == {"sound", "misfit", "unstorable", "large"}

ASSUME CallsAssumption ==
  /\ Op \in [Calls -> Ops]
  /\ Version \in [Calls -> Nat \ {0}]
  /\ Given \in [Calls -> Values]
  /\ BadKeys \subseteq Calls
ASSUME BoundsAssumption ==
  /\ RetryAttempts \in Nat \ {0}
  /\ MaxReceipts \in Nat
  /\ MaxPreserved \in Nat
  /\ MaxBytes \in Nat
  /\ Nobody \notin Owners

(* The version contents are at, what becomes of them (they pass the schema,*)
(* fail it, stop a migration, cannot be stored) and the room they take.    *)
Contents == [at: Nat, is: {"sound", "misfit", "stuck", "unstorable"}, bytes: Nat]
(* What is at a key.  `marker` is $aruna; `misfit`: a field is out of place*)
(* at the top level, or in the lock or the metadata this version knows;    *)
(* `vital`: m has a must-understand key it does not know; `extra` stands   *)
(* for the other keys it does not know, `known` for the handoff token and  *)
(* the erasure marker.                                                     *)
Metadata == [receipts: Seq(Receipts), known: BOOLEAN, extra: Nat]
Record == [marker: {"absent", "none", "ours", "newer"}, misfit: {"none", "top", "inner"}, vital: BOOLEAN,
           version: Nat, data: Contents, meta: Metadata, lock: Owners \cup {Nobody}]

(* Others write what they claim to: contents at the version they note.     *)
Honest(r) == r.marker # "absent" => r.data.at = IF r.marker = "none" THEN 0 ELSE r.version
ASSUME ForeignAssumption == Foreign \subseteq {r \in Record : Honest(r)}

VARIABLES
  record,   \* what is at the key
  call,     \* call[c]: how far c is
  landed    \* history: landed[c]: how often c's request was applied

vars == <<record, call, landed>>

NoMeta == [receipts |-> << >>, known |-> FALSE, extra |-> 0]
NoContents == [at |-> 0, is |-> "misfit", bytes |-> 0]
NoRecord == [marker |-> "absent", misfit |-> "none", vital |-> FALSE, version |-> 0,
             data |-> NoContents, meta |-> NoMeta, lock |-> Nobody]

-----------------------------------------------------------------------------
(* Reading.                                                                *)

(* readStoreRecord: the marker first, then the closed top level, then the  *)
(* keys of m, and what must be understood before what is merely too much.  *)
Kind(r) ==
  IF r.marker = "absent" THEN "absent"
  ELSE IF r.marker = "none" THEN "legacy"
  ELSE IF r.marker = "newer" THEN "ahead"
  ELSE IF r.misfit = "top" THEN "malformed"
  ELSE IF r.vital THEN "ahead"
  ELSE IF r.misfit = "inner" \/ r.meta.extra > MaxPreserved THEN "malformed"
  ELSE "envelope"

(* The newest n of a list: bounds are enforced on read and on write.       *)
Newest(ids) ==
  IF Len(ids) <= MaxReceipts THEN ids
  ELSE SubSeq(ids, Len(ids) - MaxReceipts + 1, Len(ids))

TrimmedToKnown(meta) ==  \* mutant: what is not understood is dropped
  [meta EXCEPT !.receipts = Newest(@), !.extra = 0]
Trimmed(meta) == [meta EXCEPT !.receipts = Newest(@)]
MetaOf(r) == IF Kind(r) = "envelope" THEN Trimmed(r.meta) ELSE NoMeta
LockOf(r) == IF Kind(r) = "envelope" THEN r.lock ELSE Nobody
(* A value from before the store owned the key is at version 0.            *)
StoredVersion(r) == IF Kind(r) = "envelope" THEN r.version ELSE 0

Default(v) == [at |-> v, is |-> "sound", bytes |-> 1]
(* A permissive migration takes what it is given for contents at `from`.   *)
Migrated(data, from, to) == [data EXCEPT !.at = IF to > from THEN @ + (to - from) ELSE @]

RefusalNewerRead(r, v) ==  \* mutant: whatever migrate() can take is read
  IF Kind(r) = "ahead" THEN "ahead"
  ELSE IF Kind(r) = "malformed" THEN "invalid"
  ELSE IF Kind(r) = "absent" THEN "none"
  ELSE IF StoredVersion(r) # v /\ r.data.is # "sound" THEN "unmigrated"
  ELSE IF r.data.is = "misfit" THEN "invalid"
  ELSE "none"
(* decodeStoreValue at version v: why it has no value to give, or "none".  *)
Refusal(r, v) ==
  IF Kind(r) = "ahead" THEN "ahead"
  ELSE IF Kind(r) = "malformed" THEN "invalid"
  ELSE IF Kind(r) = "absent" THEN "none"
  ELSE IF StoredVersion(r) > v THEN "ahead"
  ELSE IF StoredVersion(r) < v /\ r.data.is # "sound" THEN "unmigrated"
  ELSE IF r.data.is = "misfit" THEN "invalid"
  ELSE "none"
Decoded(r, v) ==
  IF Kind(r) = "absent" THEN Default(v) ELSE Migrated(r.data, StoredVersion(r), v)

-----------------------------------------------------------------------------
(* Writing.                                                                *)

(* createStoreEnvelope, writeEnvelopeMeta.                                 *)
Envelope(v, data, lock, meta) ==
  [marker |-> "ours", misfit |-> "none", vital |-> FALSE, version |-> v,
   data |-> data, meta |-> Trimmed(meta), lock |-> lock]

(* The whole envelope counts.                                              *)
Bytes(r) == r.data.bytes + r.meta.extra + Len(r.meta.receipts)

(* encodeStoreValue: schema, then storability, then size.                  *)
Rejection(r) ==
  IF r.data.is = "misfit" THEN "invalid"
  ELSE IF r.data.is = "unstorable" \/ Bytes(r) > MaxBytes THEN "unstorable"
  ELSE "none"

(* The value a call brings, or its transform makes of what it is given.    *)
Brought(c) ==
  [at |-> Version[c], is |-> IF Given[c] = "large" THEN "sound" ELSE Given[c],
   bytes |-> IF Given[c] = "large" THEN MaxBytes ELSE 1]
Computed(c, data) ==
  IF Op[c] = "update" THEN [Brought(c) EXCEPT !.at = data.at] ELSE Brought(c)

(* The transform of a save or an update: the next record, with the lock and*)
(* the metadata of the one it read, and why there is none.                 *)
Through(c) == Op[c] \in {"save", "update"}
NextRecord(c) ==
  Envelope(Version[c], Computed(c, Decoded(record, Version[c])), LockOf(record), MetaOf(record))
Objection(c) ==
  IF Refusal(record, Version[c]) # "none" THEN Refusal(record, Version[c])
  ELSE Rejection(NextRecord(c))
(* overwrite looks at nothing that is there.                               *)
Overwriting(c) == Envelope(Version[c], Brought(c), Nobody, NoMeta)

-----------------------------------------------------------------------------
(* Calls.                                                                  *)

(* `failure`: what a transform objected to, captured over the attempts.    *)
NewCall == [stage |-> "new", attempt |-> 0, outcome |-> "none", value |-> NoContents, failure |-> "none"]
Running(c) == call[c].stage = "running"
End(c, outcome, value) ==
  call' = [call EXCEPT ![c].stage = "ended", ![c].outcome = outcome, ![c].value = value]
(* A captured failure is the answer, whatever a later attempt came to.     *)
Settle(c, outcome, value) ==
  IF call[c].failure # "none" THEN End(c, call[c].failure, NoContents) ELSE End(c, outcome, value)

Init ==
  /\ record \in Foreign \cup {NoRecord}
  /\ call = [c \in Calls |-> NewCall]
  /\ landed = [c \in Calls |-> 0]

(* validateStoreKey, and overwrite's value, come before any request.       *)
Begin(c) ==
  /\ call[c].stage = "new"
  /\ LET early == IF c \in BadKeys THEN "key"
                  ELSE IF Op[c] = "overwrite" THEN Rejection(Overwriting(c)) ELSE "none"
     IN IF early # "none" THEN End(c, early, NoContents)
        ELSE call' = [call EXCEPT ![c].stage = "running", ![c].attempt = 1]
  /\ UNCHANGED <<record, landed>>

(* What a request does when the DataStore applies it.                      *)
Write(c, next) == record' = next /\ landed' = [landed EXCEPT ![c] = @ + 1]
Applied(c) ==
  \/ Through(c) /\ Objection(c) = "none" /\ Write(c, NextRecord(c))
  \/ Op[c] = "overwrite" /\ Write(c, Overwriting(c))
  \/ Op[c] = "remove" /\ Write(c, NoRecord)

(* The write is applied and answered: what was written is decoded again.   *)
Written(c) ==
  /\ Running(c) /\ Applied(c)
  /\ IF Through(c) /\ Refusal(record', Version[c]) # "none"
     THEN Settle(c, Refusal(record', Version[c]), NoContents)
     ELSE Settle(c, "ok", record'.data)

(* The transform cancels the write, and what stopped it is the answer.     *)
Cancelled(c) ==
  /\ Running(c) /\ Through(c)
  /\ Objection(c) # "none" /\ End(c, Objection(c), NoContents)
  /\ UNCHANGED <<record, landed>>

Loaded(c) ==
  /\ Running(c) /\ Op[c] = "load"
  /\ LET refusal == Refusal(record, Version[c]) IN
     IF refusal # "none" THEN End(c, refusal, NoContents)
     ELSE End(c, "ok", Decoded(record, Version[c]))
  /\ UNCHANGED <<record, landed>>

(* Another attempt follows, after a backoff, or the last error is final.   *)
TryAgain(c, error, failure) ==
  IF call[c].attempt < RetryAttempts
  THEN call' = [call EXCEPT ![c].attempt = @ + 1, ![c].failure = failure]
  ELSE End(c, IF failure # "none" THEN failure ELSE error, NoContents)

(* A request fails before it is applied, or after; or after its transform  *)
(* objected.                                                               *)
Fails(c) ==
  /\ Running(c)
  /\ \/ Applied(c) /\ TryAgain(c, "request", call[c].failure)
     \/ /\ \/ TryAgain(c, "request", call[c].failure)
           \/ Through(c) /\ Objection(c) # "none" /\ TryAgain(c, "request", Objection(c))
        /\ UNCHANGED <<record, landed>>
(* The budget is empty, or the service throttles.                          *)
Throttled(c) ==
  /\ Running(c) /\ TryAgain(c, "throttled", call[c].failure)
  /\ UNCHANGED <<record, landed>>
(* No API access: not retried.                                             *)
Unavailable(c) ==
  /\ Running(c) /\ Settle(c, "unavailable", NoContents)
  /\ UNCHANGED <<record, landed>>

(* A player store, a script, or another version of the game or of Aruna.   *)
WrittenByOthers(r) == record' = r /\ UNCHANGED <<call, landed>>

Step(c) == Written(c) \/ Cancelled(c) \/ Loaded(c) \/ Fails(c) \/ Throttled(c) \/ Unavailable(c)
Next ==
  \/ \E c \in Calls : Begin(c) \/ Step(c)
  \/ \E r \in Foreign : WrittenByOthers(r)

Spec == Init /\ [][Next]_vars

-----------------------------------------------------------------------------
(* Properties.                                                             *)

Outcomes == {"none", "ok", "key", "invalid", "unstorable", "unmigrated", "ahead",
             "request", "throttled", "unavailable"}
TypeOK ==
  /\ record \in Record
  /\ call \in [Calls -> [stage: {"new", "running", "ended"}, attempt: 0 .. RetryAttempts,
                        outcome: Outcomes, value: Contents, failure: Outcomes \ {"ok"}]]
  /\ landed \in [Calls -> 0 .. RetryAttempts]

Succeeded(c) == call[c].outcome = "ok"

(* docs/stores.md, "Mixed-version servers": with servers of several        *)
(* versions on a key no migration is run twice, or left out: a record's    *)
(* contents are at the version it notes, and every value a server gets is  *)
(* at the server's.                                                        *)
MigratedOnce ==
  /\ Honest(record)
  /\ \A c \in Calls : Succeeded(c) /\ Op[c] # "remove" => call[c].value.at = Version[c]

(* A write that is answered was applied, one that was refused before any   *)
(* retry was not, and none is applied more often than it was tried.  After *)
(* a retry a refusal may be an earlier attempt's, and the write made.      *)
AnswersAreTrue ==
  \A c \in Calls :
    /\ Succeeded(c) /\ Op[c] # "load" => landed[c] > 0
    /\ call[c].stage = "ended" /\ ~Succeeded(c) /\ RetryAttempts > 1 /\ call[c].attempt <= 1
         => landed[c] = 0
    /\ landed[c] <= call[c].attempt

(* store.ts:5-22: what the store says it holds and did is so.              *)
StoreIsTrue == MigratedOnce /\ AnswersAreTrue

(* store.ts:8-12, 191-213: a save or an update replaces only what the      *)
(* server can read, keeps the lock and the metadata, what it does not      *)
(* understand included, never goes back a version, and leaves a record the *)
(* server can read.                                                        *)
CarriedForward ==
  [][\A c \in Calls : Through(c) /\ landed'[c] # landed[c] =>
       /\ Refusal(record, Version[c]) = "none"
       /\ Kind(record) = "envelope" =>
            /\ record'.lock = record.lock
            /\ [record'.meta EXCEPT !.receipts = << >>] = [record.meta EXCEPT !.receipts = << >>]
            /\ record'.meta.receipts = Newest(record.meta.receipts)
            /\ record.version <= record'.version
       /\ Refusal(record', Version[c]) = "none"]_vars
=============================================================================
