---------------------------- MODULE RuntimeProofs ----------------------------
(***************************************************************************)
(* The plain key-value store: however many servers of however many         *)
(* versions call it, and whatever else is written to the key, migrations   *)
(* run once, answers are true, and what a record carries goes along.       *)
(*                                                                         *)
(* The ordered channel: whatever is published, to whomever, and however    *)
(* frames are split, whoever stays reads all of it, in order unless a      *)
(* handler yields, but for the rest of a frame whose handler throws; and   *)
(* the metrics account for every item.                                     *)
(***************************************************************************)
EXTENDS KeyedStore, SignalChannel, WellFoundedInduction, FiniteSetTheorems,
        SequenceTheorems, TLAPS

-----------------------------------------------------------------------------
(* THE KEY-VALUE STORE                                                     *)

-----------------------------------------------------------------------------
(* Reading and writing records.                                            *)

LEMMA NewestType ==
  ASSUME NEW ids \in Seq(Receipts)
  PROVE  Newest(ids) \in Seq(Receipts) /\ Len(Newest(ids)) <= MaxReceipts
<1> DEFINE first == Len(ids) - MaxReceipts + 1
<1>1. MaxReceipts \in Nat /\ Len(ids) \in Nat BY BoundsAssumption
<1>2. CASE Len(ids) <= MaxReceipts BY <1>2 DEF Newest
<1>3. CASE ~(Len(ids) <= MaxReceipts)
  <2>1. first \in 1 .. Len(ids) + 1 BY <1>1, <1>3
  <2>2. \A i \in first .. Len(ids) : ids[i] \in Receipts BY <1>1, <2>1
  <2>3. /\ SubSeq(ids, first, Len(ids)) \in Seq(Receipts)
        /\ Len(SubSeq(ids, first, Len(ids))) =
             IF first <= Len(ids) THEN Len(ids) - first + 1 ELSE 0
    BY <1>1, <2>1, <2>2, SubSeqProperties
  <2>4. Newest(ids) = SubSeq(ids, first, Len(ids)) BY <1>3 DEF Newest
  <2> QED BY <1>1, <2>1, <2>3, <2>4
<1> QED BY <1>2, <1>3

(* Reading what was written trims nothing more.                            *)
LEMMA NewestOnce ==
  ASSUME NEW ids \in Seq(Receipts)
  PROVE  Newest(Newest(ids)) = Newest(ids)
BY NewestType DEF Newest

LEMMA TrimmedType ==
  ASSUME NEW meta \in Metadata
  PROVE  Trimmed(meta) \in Metadata /\ Trimmed(meta).extra = meta.extra
BY NewestType DEF Trimmed, Metadata

LEMMA NoMetaType == NoMeta \in Metadata /\ Trimmed(NoMeta) \in Metadata /\ NoMeta.extra = 0
<1>1. NoMeta \in Metadata /\ NoMeta.extra = 0 BY DEF NoMeta, Metadata
<1> QED BY <1>1, TrimmedType

LEMMA MetaType ==
  ASSUME NEW r \in Record
  PROVE  MetaOf(r) \in Metadata /\ MetaOf(r).extra <= MaxPreserved /\ LockOf(r) \in Owners \cup {Nobody}
<1>1. r.meta \in Metadata /\ r.lock \in Owners \cup {Nobody} BY DEF Record
<1>2. CASE Kind(r) = "envelope"
  <2>1. r.meta.extra <= MaxPreserved BY <1>1, <1>2, BoundsAssumption DEF Kind, Metadata
  <2> QED BY <1>1, <1>2, <2>1, TrimmedType DEF MetaOf, LockOf
<1>3. CASE Kind(r) # "envelope"
  BY <1>1, <1>3, NoMetaType, BoundsAssumption DEF MetaOf, LockOf
<1> QED BY <1>2, <1>3

LEMMA EnvelopeType ==
  ASSUME NEW v \in Nat, NEW data \in Contents, NEW lock \in Owners \cup {Nobody},
         NEW meta \in Metadata, meta.extra <= MaxPreserved
  PROVE  /\ Envelope(v, data, lock, meta) \in Record
         /\ Kind(Envelope(v, data, lock, meta)) = "envelope"
<1> DEFINE r == Envelope(v, data, lock, meta)
<1>1. Trimmed(meta) \in Metadata /\ Trimmed(meta).extra <= MaxPreserved
  BY TrimmedType
<1>2. r \in Record BY <1>1 DEF Envelope, Record
<1>3. /\ r.marker = "ours" /\ r.misfit = "none" /\ ~r.vital /\ r.meta = Trimmed(meta)
  BY DEF Envelope
<1>4. Kind(r) = "envelope" BY <1>1, <1>3, BoundsAssumption DEF Kind, Metadata
<1> QED BY <1>2, <1>4

(* A server gets contents at its version out of an honest record.          *)
LEMMA DecodedAt ==
  ASSUME NEW r \in Record, Honest(r), NEW v \in Nat, Refusal(r, v) = "none"
  PROVE  /\ Decoded(r, v) \in Contents
         /\ Decoded(r, v).at = v
         /\ StoredVersion(r) <= v
<1>1. r.data \in Contents /\ r.version \in Nat BY DEF Record
<1>2. CASE Kind(r) = "absent"
  BY <1>2 DEF Decoded, Default, Contents, StoredVersion
<1>3. CASE Kind(r) \in {"legacy", "envelope"}
  <2>1. r.marker # "absent" /\ (Kind(r) = "legacy" <=> r.marker = "none")
    BY <1>3 DEF Kind
  <2>2. StoredVersion(r) \in Nat /\ r.data.at = StoredVersion(r)
    BY <1>1, <1>3, <2>1 DEF Honest, StoredVersion
  <2>3. StoredVersion(r) <= v BY <1>3, <2>2 DEF Refusal
  <2>4. Decoded(r, v) = [r.data EXCEPT !.at = IF v > StoredVersion(r)
                           THEN r.data.at + (v - StoredVersion(r)) ELSE r.data.at]
    BY <1>1, <1>3 DEF Decoded, Migrated, Contents
  <2> QED BY <1>1, <2>2, <2>3, <2>4 DEF Contents
<1>4. Kind(r) \in {"absent", "legacy", "envelope"}
  BY DEF Refusal, Kind
<1> QED BY <1>2, <1>3, <1>4

(* What a save or an update writes, unless it objects.                     *)
LEMMA NextRecordFacts ==
  ASSUME TypeOK, Honest(record), NEW c \in Calls, Objection(c) = "none"
  PROVE  /\ NextRecord(c) \in Record
         /\ Kind(NextRecord(c)) = "envelope"
         /\ NextRecord(c).marker = "ours"
         /\ NextRecord(c).version = Version[c]
         /\ NextRecord(c).data.at = Version[c]
         /\ NextRecord(c).meta = Trimmed(MetaOf(record))
         /\ NextRecord(c).lock = LockOf(record)
         /\ Refusal(record, Version[c]) = "none"
         /\ Refusal(NextRecord(c), Version[c]) = "none"
<1> DEFINE v == Version[c]
           data == Computed(c, Decoded(record, v))
<1>1. v \in Nat BY CallsAssumption
<1>2. record \in Record BY DEF TypeOK
<1>3. Refusal(record, v) = "none" BY DEF Objection
<1>4. Decoded(record, v) \in Contents /\ Decoded(record, v).at = v
  BY <1>1, <1>2, <1>3, DecodedAt
<1>5. Brought(c) \in Contents /\ Brought(c).at = v /\ Brought(c).is # "stuck"
  BY <1>1, CallsAssumption, BoundsAssumption DEF Brought, Contents, Values
<1>6. data \in Contents /\ data.at = v /\ data.is # "stuck"
  BY <1>4, <1>5 DEF Computed, Contents
<1>7. NextRecord(c) = Envelope(v, data, LockOf(record), MetaOf(record))
  BY DEF NextRecord
<1>8. NextRecord(c) \in Record /\ Kind(NextRecord(c)) = "envelope"
  <2> HIDE DEF data, v
  <2>1. /\ MetaOf(record) \in Metadata /\ MetaOf(record).extra <= MaxPreserved
        /\ LockOf(record) \in Owners \cup {Nobody}
    BY <1>2, MetaType
  <2>2. data \in Contents BY <1>6
  <2>3. /\ Envelope(v, data, LockOf(record), MetaOf(record)) \in Record
        /\ Kind(Envelope(v, data, LockOf(record), MetaOf(record))) = "envelope"
    BY <1>1, <2>1, <2>2, EnvelopeType
  <2> QED BY <1>7, <2>3
<1>9. /\ NextRecord(c).data = data /\ NextRecord(c).version = v
      /\ NextRecord(c).meta = Trimmed(MetaOf(record)) /\ NextRecord(c).lock = LockOf(record)
      /\ NextRecord(c).marker = "ours"
  <2> HIDE DEF data, v
  <2> QED BY <1>7 DEF Envelope
<1>10. Rejection(NextRecord(c)) = "none" BY <1>3 DEF Objection
<1>11. data.is # "misfit" BY <1>9, <1>10 DEF Rejection
<1>12. StoredVersion(NextRecord(c)) = v BY <1>8, <1>9 DEF StoredVersion
<1>13. Refusal(NextRecord(c), v) = "none"
  <2> HIDE DEF data, v
  <2> QED BY <1>1, <1>8, <1>9, <1>11, <1>12 DEF Refusal
<1> QED BY <1>3, <1>6, <1>8, <1>9, <1>13

-----------------------------------------------------------------------------
(* The inductive invariant: how far a call is bounds how often it landed.  *)

CallOk(c) ==
  /\ call[c].stage = "new" => /\ call[c].attempt = 0 /\ landed[c] = 0 /\ call[c].outcome = "none"
                             /\ call[c].failure = "none"
  /\ Running(c) => /\ call[c].attempt >= 1 /\ landed[c] < call[c].attempt
                   /\ call[c].outcome = "none"
                   /\ call[c].failure # "none" => call[c].attempt > 1
IInv == TypeOK /\ (\A c \in Calls : CallOk(c)) /\ MigratedOnce /\ AnswersAreTrue
(* How each kind of step changes the state.                                *)
LEMMA EndType ==
  ASSUME TypeOK, NEW c \in Calls, NEW outcome \in Outcomes, NEW got \in Contents,
         End(c, outcome, got)
  PROVE  /\ call' \in [Calls -> [stage: {"new", "running", "ended"}, attempt: 0 .. RetryAttempts,
                               outcome: Outcomes, value: Contents, failure: Outcomes \ {"ok"}]]
         /\ call'[c].stage = "ended" /\ call'[c].attempt = call[c].attempt
         /\ call'[c].outcome = outcome /\ call'[c].value = got
         /\ \A d \in Calls \ {c} : call'[d] = call[d]
BY DEF End, TypeOK

LEMMA NextAttemptType ==
  ASSUME TypeOK, NEW c \in Calls, NEW n \in 0 .. RetryAttempts, NEW stage \in {"new", "running"},
         call' = [call EXCEPT ![c].stage = stage, ![c].attempt = n]
  PROVE  /\ call' \in [Calls -> [stage: {"new", "running", "ended"}, attempt: 0 .. RetryAttempts,
                               outcome: Outcomes, value: Contents, failure: Outcomes \ {"ok"}]]
         /\ call'[c].stage = stage /\ call'[c].attempt = n
         /\ call'[c].outcome = call[c].outcome /\ call'[c].failure = call[c].failure
         /\ \A d \in Calls \ {c} : call'[d] = call[d]
BY DEF TypeOK

(* What settles a call: its answer, or a failure captured before.          *)
LEMMA SettleEnds ==
  ASSUME TypeOK, NEW c \in Calls, NEW outcome \in Outcomes, NEW got \in Contents, Settle(c, outcome, got)
  PROVE  \/ call[c].failure = "none" /\ End(c, outcome, got)
         \/ \E said \in Outcomes \ {"ok", "none"} : call[c].failure = said /\ End(c, said, NoContents)
<1>1. call[c].failure \in Outcomes \ {"ok"}
  BY DEF TypeOK
<1> QED BY <1>1 DEF Settle

(* What a call says and did, by itself.                                    *)
CallTrue(c) ==
  /\ Succeeded(c) /\ Op[c] # "remove" => call[c].value.at = Version[c]
  /\ Succeeded(c) /\ Op[c] # "load" => landed[c] > 0
  /\ call[c].stage = "ended" /\ ~Succeeded(c) /\ RetryAttempts > 1 /\ call[c].attempt <= 1
       => landed[c] = 0
  /\ landed[c] <= call[c].attempt
Good(c) == CallOk(c) /\ CallTrue(c)

LEMMA IInvParts == IInv <=> TypeOK /\ Honest(record) /\ \A c \in Calls : Good(c)
BY DEF IInv, MigratedOnce, AnswersAreTrue, Good, CallTrue

(* A step of c leaves the other calls as they were.                        *)
LEMMA OthersKeep ==
  ASSUME IInv, NEW c \in Calls,
         \A d \in Calls \ {c} : call'[d] = call[d] /\ landed'[d] = landed[d]
  PROVE  \A d \in Calls \ {c} : Good(d)'
BY IInvParts DEF Good, CallOk, CallTrue, Running, Succeeded

LEMMA WriteType ==
  ASSUME TypeOK, NEW c \in Calls, landed[c] < RetryAttempts, NEW next \in Record, Write(c, next)
  PROVE  /\ record' \in Record /\ landed' \in [Calls -> 0 .. RetryAttempts]
         /\ landed'[c] = landed[c] + 1
         /\ \A d \in Calls \ {c} : landed'[d] = landed[d]
BY BoundsAssumption DEF Write, TypeOK

(* What a request leaves at the key when it is applied.                    *)
LEMMA AppliedFacts ==
  ASSUME IInv, NEW c \in Calls, Running(c), Applied(c)
  PROVE  /\ record' \in Record /\ Honest(record')
         /\ landed' \in [Calls -> 0 .. RetryAttempts]
         /\ landed'[c] = landed[c] + 1 /\ Op[c] # "load"
         /\ \A d \in Calls \ {c} : landed'[d] = landed[d]
         /\ Op[c] # "remove" => record'.data.at = Version[c]
         /\ Through(c) => /\ record' = NextRecord(c) /\ Objection(c) = "none"
                          /\ Refusal(record', Version[c]) = "none"
<1>1. TypeOK /\ Honest(record) /\ CallOk(c) BY IInvParts DEF Good
<1>2. landed[c] < RetryAttempts
  BY <1>1, BoundsAssumption DEF CallOk, TypeOK
<1>3. CASE Through(c) /\ Objection(c) = "none" /\ Write(c, NextRecord(c))
  <2>1. NextRecord(c) \in Record /\ NextRecord(c).marker = "ours"
        /\ NextRecord(c).version = Version[c] /\ NextRecord(c).data.at = Version[c]
        /\ Refusal(NextRecord(c), Version[c]) = "none"
    BY <1>1, <1>3, NextRecordFacts
  <2>2. record' = NextRecord(c) BY <1>3 DEF Write
  <2>3. Honest(record') BY <2>1, <2>2 DEF Honest
  <2>4. Op[c] \in {"save", "update"} BY <1>3 DEF Through
  <2> QED BY <1>1, <1>2, <1>3, <2>1, <2>2, <2>3, <2>4, WriteType
<1>4. CASE Op[c] = "overwrite" /\ Write(c, Overwriting(c))
  <2>1. Brought(c) \in Contents /\ Brought(c).at = Version[c]
    BY CallsAssumption, BoundsAssumption DEF Brought, Contents, Values
  <2>2. Version[c] \in Nat BY CallsAssumption
  <2>3. Overwriting(c) \in Record
    BY <2>1, <2>2, NoMetaType, EnvelopeType, BoundsAssumption DEF Overwriting
  <2>4. /\ Overwriting(c).marker = "ours" /\ Overwriting(c).version = Version[c]
        /\ Overwriting(c).data = Brought(c)
    BY DEF Overwriting, Envelope
  <2>5. record' = Overwriting(c) BY <1>4 DEF Write
  <2>6. Honest(record') BY <2>1, <2>4, <2>5 DEF Honest
  <2> QED BY <1>1, <1>2, <1>4, <2>1, <2>3, <2>4, <2>5, <2>6, WriteType DEF Through
<1>5. CASE Op[c] = "remove" /\ Write(c, NoRecord)
  <2>1. NoRecord \in Record /\ Honest(NoRecord)
    BY NoMetaType DEF NoRecord, Record, Honest, NoContents, Contents
  <2>2. record' = NoRecord BY <1>5 DEF Write
  <2> QED BY <1>1, <1>2, <1>5, <2>1, <2>2, WriteType DEF Through
<1> QED BY <1>3, <1>4, <1>5 DEF Applied
-----------------------------------------------------------------------------
(* Every step keeps the invariant.                                         *)

(* It is enough that the key and the call that moves are as they should be.*)
LEMMA Kept ==
  ASSUME IInv, NEW c \in Calls, record' \in Record, Honest(record'),
         call' \in [Calls -> [stage: {"new", "running", "ended"}, attempt: 0 .. RetryAttempts,
                             outcome: Outcomes, value: Contents, failure: Outcomes \ {"ok"}]],
         landed' \in [Calls -> 0 .. RetryAttempts],
         \A d \in Calls \ {c} : call'[d] = call[d] /\ landed'[d] = landed[d],
         Good(c)'
  PROVE  IInv'
<1>1. \A d \in Calls : Good(d)' BY OthersKeep
<1>2. TypeOK' BY DEF TypeOK
<1>3. Honest(record)' BY DEF Honest
<1>4. \A d \in Calls : CallOk(d)' /\ CallTrue(d)' BY <1>1 DEF Good
<1>5. MigratedOnce' /\ AnswersAreTrue' BY <1>3, <1>4 DEF MigratedOnce, AnswersAreTrue, CallTrue
<1> QED BY <1>2, <1>4, <1>5 DEF IInv

LEMMA BeginKeeps ==
  ASSUME IInv, NEW c \in Calls, Begin(c)
  PROVE  IInv'
<1> DEFINE early == IF c \in BadKeys THEN "key"
                    ELSE IF Op[c] = "overwrite" THEN Rejection(Overwriting(c)) ELSE "none"
<1>1. TypeOK /\ Honest(record) /\ Good(c) BY IInvParts
<1>2. call[c].stage = "new" /\ UNCHANGED <<record, landed>> BY DEF Begin
<1>3. IF early # "none" THEN End(c, early, NoContents)
      ELSE call' = [call EXCEPT ![c].stage = "running", ![c].attempt = 1]
  BY DEF Begin
<1>4. early \in Outcomes \ {"ok"} BY DEF Outcomes, Rejection
<1>5. NoContents \in Contents BY DEF NoContents, Contents
<1>6. CASE early # "none"
  <2>1. End(c, early, NoContents) BY <1>3, <1>6
  <2> HIDE DEF early
  <2>2. Good(c)'
    BY <1>1, <1>2, <1>4, <1>5, <2>1, EndType DEF Good, CallOk, CallTrue, Running, Succeeded
  <2> QED BY <1>1, <1>2, <1>4, <1>5, <2>1, <2>2, EndType, Kept DEF TypeOK
<1>7. CASE early = "none"
  <2>1. call' = [call EXCEPT ![c].stage = "running", ![c].attempt = 1] BY <1>3, <1>7
  <2>2. 1 \in 0 .. RetryAttempts BY BoundsAssumption
  <2> HIDE DEF early
  <2>3. /\ call' \in [Calls -> [stage: {"new", "running", "ended"}, attempt: 0 .. RetryAttempts,
                               outcome: Outcomes, value: Contents, failure: Outcomes \ {"ok"}]]
        /\ call'[c].stage = "running" /\ call'[c].attempt = 1
        /\ call'[c].outcome = call[c].outcome /\ call'[c].failure = call[c].failure
        /\ \A d \in Calls \ {c} : call'[d] = call[d]
    BY <1>1, <2>1, <2>2, NextAttemptType
  <2>4. call[c].outcome = "none" /\ call[c].failure = "none" /\ landed[c] = 0 /\ landed'[c] = 0
    BY <1>1, <1>2 DEF Good, CallOk
  <2>5. CallOk(c)' BY <2>3, <2>4 DEF CallOk, Running
  <2>6. CallTrue(c)' BY <2>3, <2>4 DEF CallTrue, Succeeded
  <2>7. Good(c)' BY <2>5, <2>6 DEF Good
  <2> QED BY <1>1, <1>2, <2>3, <2>7, Kept DEF TypeOK
<1> QED BY <1>6, <1>7

LEMMA WrittenKeeps ==
  ASSUME IInv, NEW c \in Calls, Written(c)
  PROVE  IInv'
<1>1. TypeOK /\ Honest(record) /\ Good(c) BY IInvParts
<1>2. Running(c) /\ Applied(c) BY DEF Written
<1>3. /\ record' \in Record /\ Honest(record')
      /\ landed' \in [Calls -> 0 .. RetryAttempts]
      /\ landed'[c] = landed[c] + 1 /\ Op[c] # "load"
      /\ \A d \in Calls \ {c} : landed'[d] = landed[d]
      /\ Op[c] # "remove" => record'.data.at = Version[c]
      /\ Through(c) => Refusal(record', Version[c]) = "none"
  BY <1>2, AppliedFacts
<1>4. Settle(c, "ok", record'.data) BY <1>3 DEF Written
<1>5. record'.data \in Contents /\ "ok" \in Outcomes BY <1>3 DEF Record, Outcomes
<1>6. CASE call[c].failure = "none" /\ End(c, "ok", record'.data)
  <2>1. Good(c)'
    BY <1>1, <1>2, <1>3, <1>5, <1>6, EndType DEF Good, CallOk, CallTrue, Running, Succeeded, TypeOK
  <2> QED BY <1>1, <1>3, <1>5, <1>6, <2>1, EndType, Kept
<1>7. ASSUME NEW said \in Outcomes \ {"ok", "none"}, call[c].failure = said, End(c, said, NoContents)
      PROVE  IInv'
  <2>1. NoContents \in Contents BY DEF NoContents, Contents
  <2>2. call[c].attempt > 1 BY <1>1, <1>2, <1>7 DEF Good, CallOk
  <2>3. Good(c)'
    BY <1>1, <1>2, <1>3, <1>7, <2>1, <2>2, EndType DEF Good, CallOk, CallTrue, Running, Succeeded, TypeOK
  <2> QED BY <1>1, <1>3, <1>7, <2>1, <2>3, EndType, Kept
<1> QED BY <1>1, <1>4, <1>5, <1>6, <1>7, SettleEnds

(* The answers that leave the key as it is.                                *)
LEMMA AnswerKeeps ==
  ASSUME IInv, NEW c \in Calls, Running(c), UNCHANGED <<record, landed>>,
         NEW outcome \in Outcomes, NEW got \in Contents, End(c, outcome, got),
         outcome = "ok" => Op[c] = "load" /\ got.at = Version[c]
  PROVE  IInv'
<1>1. TypeOK /\ Honest(record) /\ Good(c) BY IInvParts
<1>2. Good(c)'
  BY <1>1, EndType DEF Good, CallOk, CallTrue, Running, Succeeded, TypeOK
<1> QED BY <1>1, <1>2, EndType, Kept DEF TypeOK

LEMMA CancelledKeeps ==
  ASSUME IInv, NEW c \in Calls, Cancelled(c) \/ Unavailable(c)
  PROVE  IInv'
<1>1. NoContents \in Contents BY DEF NoContents, Contents
<1>2. Objection(c) \in Outcomes \ {"ok"} BY DEF Objection, Refusal, Rejection, Outcomes
<1>3. "unavailable" \in Outcomes BY DEF Outcomes
<1>4. CASE Cancelled(c)
  <2>1. Running(c) /\ UNCHANGED <<record, landed>> /\ End(c, Objection(c), NoContents)
    BY <1>4 DEF Cancelled
  <2> QED BY <1>1, <1>2, <2>1, AnswerKeeps
<1>5. CASE Unavailable(c)
  <2>1. Running(c) /\ UNCHANGED <<record, landed>> /\ Settle(c, "unavailable", NoContents) /\ TypeOK
    BY <1>5, IInvParts DEF Unavailable
  <2>2. \E said \in Outcomes \ {"ok"} : End(c, said, NoContents)
    BY <1>1, <1>3, <2>1, SettleEnds
  <2> QED BY <1>1, <2>1, <2>2, AnswerKeeps
<1> QED BY <1>4, <1>5

LEMMA LoadedKeeps ==
  ASSUME IInv, NEW c \in Calls, Loaded(c)
  PROVE  IInv'
<1> DEFINE refusal == Refusal(record, Version[c])
<1>1. TypeOK /\ Honest(record) /\ Version[c] \in Nat BY IInvParts, CallsAssumption
<1>2. Running(c) /\ Op[c] = "load" /\ UNCHANGED <<record, landed>> BY DEF Loaded
<1>3. NoContents \in Contents BY DEF NoContents, Contents
<1>4. refusal \in Outcomes \ {"ok"} /\ "ok" \in Outcomes BY DEF Refusal, Outcomes
<1>5. CASE refusal # "none"
  <2>1. End(c, refusal, NoContents) BY <1>5 DEF Loaded
  <2> HIDE DEF refusal
  <2> QED BY <1>2, <1>3, <1>4, <2>1, AnswerKeeps
<1>6. CASE refusal = "none"
  <2>1. End(c, "ok", Decoded(record, Version[c])) BY <1>6 DEF Loaded
  <2>2. Decoded(record, Version[c]) \in Contents /\ Decoded(record, Version[c]).at = Version[c]
    BY <1>1, <1>6, DecodedAt DEF TypeOK
  <2> QED BY <1>2, <1>4, <2>1, <2>2, AnswerKeeps
<1> QED BY <1>5, <1>6

(* An attempt that fails, applied or not, is followed by another or ends.  *)
LEMMA TryAgainKeeps ==
  ASSUME IInv, NEW c \in Calls, Running(c), NEW error \in {"request", "throttled"},
         NEW failure \in Outcomes \ {"ok"}, TryAgain(c, error, failure),
         record' \in Record, Honest(record'), landed' \in [Calls -> 0 .. RetryAttempts],
         landed'[c] <= landed[c] + 1,
         \A d \in Calls \ {c} : landed'[d] = landed[d]
  PROVE  IInv'
<1>1. TypeOK /\ Honest(record) /\ Good(c) BY IInvParts
<1>2. NoContents \in Contents /\ error \in Outcomes BY DEF NoContents, Contents, Outcomes
<1>3. call[c].attempt \in 0 .. RetryAttempts /\ landed[c] \in 0 .. RetryAttempts
      /\ landed'[c] \in 0 .. RetryAttempts
  BY <1>1 DEF TypeOK
<1>4. CASE call[c].attempt < RetryAttempts
  <2> DEFINE n == call[c].attempt + 1
  <2>1. n \in 0 .. RetryAttempts BY <1>3, <1>4, BoundsAssumption
  <2>2. call' = [call EXCEPT ![c].attempt = n, ![c].failure = failure] BY <1>4 DEF TryAgain
  <2>3. /\ call' \in [Calls -> [stage: {"new", "running", "ended"}, attempt: 0 .. RetryAttempts,
                               outcome: Outcomes, value: Contents, failure: Outcomes \ {"ok"}]]
        /\ call'[c].stage = "running" /\ call'[c].attempt = n
        /\ call'[c].outcome = call[c].outcome
        /\ \A d \in Calls \ {c} : call'[d] = call[d]
    <3> HIDE DEF n
    <3> DEFINE next == [call[c] EXCEPT !.attempt = n, !.failure = failure]
               S == [stage: {"new", "running", "ended"}, attempt: 0 .. RetryAttempts,
                     outcome: Outcomes, value: Contents, failure: Outcomes \ {"ok"}]
    <3>1. call \in [Calls -> S] /\ call[c].stage = "running" BY <1>1 DEF TypeOK, Running
    <3>2. /\ next \in S /\ next.stage = "running" /\ next.attempt = n
          /\ next.outcome = call[c].outcome
      BY <2>1, <3>1
    <3>3. call' = [call EXCEPT ![c] = next] BY <2>2
    <3> HIDE DEF next, S
    <3>4. call' \in [Calls -> S] /\ call'[c] = next /\ \A d \in Calls \ {c} : call'[d] = call[d]
      BY <3>1, <3>2, <3>3
    <3> QED BY <3>2, <3>4 DEF S
  <2>4. Good(c)'
    BY <1>1, <1>3, <2>3 DEF Good, CallOk, CallTrue, Running, Succeeded
  <2> QED BY <1>1, <2>3, <2>4, Kept
<1>5. CASE ~(call[c].attempt < RetryAttempts)
  <2> DEFINE said == IF failure # "none" THEN failure ELSE error
  <2>1. End(c, said, NoContents) BY <1>5 DEF TryAgain
  <2>2. said \in Outcomes \ {"ok"} BY <1>2
  <2> HIDE DEF said
  <2>3. Good(c)'
    BY <1>1, <1>2, <1>3, <1>5, <2>1, <2>2, EndType, BoundsAssumption
    DEF Good, CallOk, CallTrue, Running, Succeeded
  <2> QED BY <1>1, <1>2, <2>1, <2>2, <2>3, EndType, Kept
<1> QED BY <1>4, <1>5

LEMMA FailsKeeps ==
  ASSUME IInv, NEW c \in Calls, Fails(c) \/ Throttled(c)
  PROVE  IInv'
<1>1. TypeOK /\ Honest(record) BY IInvParts
<1>2. Running(c) BY DEF Fails, Throttled
<1>3. landed[c] \in Nat /\ call[c].failure \in Outcomes \ {"ok"} BY <1>1 DEF TypeOK
<1>4. CASE UNCHANGED <<record, landed>>
  <2>1. Objection(c) \in Outcomes \ {"ok"} BY DEF Objection, Refusal, Rejection, Outcomes
  <2>2. \E error \in {"request", "throttled"}, failure \in Outcomes \ {"ok"} : TryAgain(c, error, failure)
    BY <1>3, <2>1 DEF Fails, Throttled
  <2> QED BY <1>1, <1>2, <1>3, <1>4, <2>2, TryAgainKeeps DEF TypeOK
<1>5. CASE Applied(c) /\ TryAgain(c, "request", call[c].failure)
  <2>1. /\ record' \in Record /\ Honest(record') /\ landed' \in [Calls -> 0 .. RetryAttempts]
        /\ landed'[c] = landed[c] + 1 /\ \A d \in Calls \ {c} : landed'[d] = landed[d]
    BY <1>2, <1>5, AppliedFacts
  <2> QED BY <1>2, <1>3, <1>5, <2>1, TryAgainKeeps
<1> QED BY <1>4, <1>5 DEF Fails, Throttled

LEMMA OthersWriteKeeps ==
  ASSUME IInv, NEW r \in Foreign, WrittenByOthers(r)
  PROVE  IInv'
<1>1. r \in Record /\ Honest(r) BY ForeignAssumption
<1>2. record' = r /\ call' = call /\ landed' = landed BY DEF WrittenByOthers
<1>3. TypeOK /\ \A d \in Calls : Good(d) BY IInvParts
<1>4. \A d \in Calls : CallOk(d)' /\ CallTrue(d)'
  BY <1>2, <1>3 DEF Good, CallOk, CallTrue, Running, Succeeded
<1>5. TypeOK' BY <1>1, <1>2, <1>3 DEF TypeOK
<1>6. Honest(record)' BY <1>1, <1>2 DEF Honest
<1>7. MigratedOnce' /\ AnswersAreTrue' BY <1>4, <1>6 DEF MigratedOnce, AnswersAreTrue, CallTrue
<1> QED BY <1>4, <1>5, <1>7 DEF IInv

LEMMA Starts == Init => IInv
<1> SUFFICES ASSUME Init PROVE IInv OBVIOUS
<1>1. NoRecord \in Record /\ Honest(NoRecord)
  BY NoMetaType DEF NoRecord, Record, Honest, NoContents, Contents
<1>2. record \in Record /\ Honest(record) BY <1>1, ForeignAssumption DEF Init
<1>3. NewCall \in [stage: {"new", "running", "ended"}, attempt: 0 .. RetryAttempts,
                   outcome: Outcomes, value: Contents, failure: Outcomes \ {"ok"}]
  BY BoundsAssumption DEF NewCall, Outcomes, NoContents, Contents
<1>4. TypeOK BY <1>2, <1>3, BoundsAssumption DEF Init, TypeOK
<1>5. \A c \in Calls : Good(c)
  <2> SUFFICES ASSUME NEW c \in Calls PROVE Good(c) OBVIOUS
  <2>1. /\ call[c].stage = "new" /\ call[c].attempt = 0 /\ call[c].outcome = "none"
        /\ landed[c] = 0 /\ call[c].failure = "none"
    BY DEF Init, NewCall
  <2> QED BY <2>1 DEF Good, CallOk, CallTrue, Running, Succeeded
<1> QED BY <1>2, <1>4, <1>5, IInvParts

LEMMA Inductive == IInv /\ [Next]_vars => IInv'
<1> SUFFICES ASSUME IInv, [Next]_vars PROVE IInv' OBVIOUS
<1>1. CASE \E c \in Calls : Begin(c) \/ Step(c)
  <2>1. PICK c \in Calls : Begin(c) \/ Step(c) BY <1>1
  <2> QED BY <2>1, BeginKeeps, WrittenKeeps, CancelledKeeps, LoadedKeeps, FailsKeeps DEF Step
<1>2. CASE \E r \in Foreign : WrittenByOthers(r) BY <1>2, OthersWriteKeeps
<1>3. CASE UNCHANGED vars
  <2>1. record' = record /\ call' = call /\ landed' = landed BY <1>3 DEF vars
  <2>2. TypeOK /\ Honest(record) /\ \A d \in Calls : Good(d) BY IInvParts
  <2>3. \A d \in Calls : CallOk(d)' /\ CallTrue(d)'
    BY <2>1, <2>2 DEF Good, CallOk, CallTrue, Running, Succeeded
  <2>4. TypeOK' /\ Honest(record)' BY <2>1, <2>2 DEF TypeOK, Honest
  <2>5. MigratedOnce' /\ AnswersAreTrue' BY <2>3, <2>4 DEF MigratedOnce, AnswersAreTrue, CallTrue
  <2> QED BY <2>3, <2>4, <2>5 DEF IInv
<1> QED BY <1>1, <1>2, <1>3 DEF Next

LEMMA Invariant == Spec => []IInv
BY Starts, Inductive, PTL DEF Spec

-----------------------------------------------------------------------------
(* The key and the calls stay within their types: no envelope exceeds the  *)
(* metadata it may carry, no call tries more often than configured.        *)
THEOREM TypeCorrect == Spec => []TypeOK
<1>1. IInv => TypeOK BY DEF IInv
<1> QED BY <1>1, Invariant, PTL

(* Servers of whatever versions share a key: a record's contents are at the*)
(* version it notes, a value a server gets is at the server's, and an      *)
(* answer tells whether the write was made.                                *)
THEOREM StoreHolds == Spec => []StoreIsTrue
<1>1. IInv => StoreIsTrue BY DEF IInv, StoreIsTrue
<1> QED BY <1>1, Invariant, PTL

(* Only a request that is applied writes, and a transform objects first.   *)
LEMMA OnlyThroughTransforms ==
  ASSUME IInv, [Next]_vars, NEW c \in Calls, Through(c), landed'[c] # landed[c]
  PROVE  record' = NextRecord(c) /\ Objection(c) = "none"
<1>1. PICK d \in Calls : Running(d) /\ Applied(d)
  BY DEF Next, Step, Begin, Written, Cancelled, Loaded, Fails, Throttled, Unavailable,
         WrittenByOthers, vars
<1>2. \A e \in Calls \ {d} : landed'[e] = landed[e] BY <1>1, AppliedFacts
<1>3. c = d BY <1>2
<1> QED BY <1>1, <1>3, AppliedFacts

(* Whatever a save or an update replaces it could read, and what it leaves *)
(* carries the lock and the metadata of what was there.                    *)
THEOREM RecordsAreCarriedForward == Spec => CarriedForward
<1> DEFINE Carries(c) ==
      Through(c) /\ landed'[c] # landed[c] =>
        /\ Refusal(record, Version[c]) = "none"
        /\ Kind(record) = "envelope" =>
             /\ record'.lock = record.lock
             /\ [record'.meta EXCEPT !.receipts = << >>] = [record.meta EXCEPT !.receipts = << >>]
             /\ record'.meta.receipts = Newest(record.meta.receipts)
             /\ record.version <= record'.version
        /\ Refusal(record', Version[c]) = "none"
<1>1. IInv /\ [Next]_vars => \A c \in Calls : Carries(c)
  <2> SUFFICES ASSUME IInv, [Next]_vars, NEW c \in Calls, Through(c), landed'[c] # landed[c]
               PROVE  Carries(c)
    OBVIOUS
  <2>1. TypeOK /\ Honest(record) /\ Version[c] \in Nat BY IInvParts, CallsAssumption
  <2>2. record' = NextRecord(c) /\ Objection(c) = "none" BY OnlyThroughTransforms
  <2>3. /\ record'.version = Version[c]
        /\ record'.meta = Trimmed(MetaOf(record)) /\ record'.lock = LockOf(record)
        /\ Refusal(record, Version[c]) = "none" /\ Refusal(record', Version[c]) = "none"
    BY <2>1, <2>2, NextRecordFacts
  <2>4. ASSUME Kind(record) = "envelope"
        PROVE  /\ record'.lock = record.lock
               /\ [record'.meta EXCEPT !.receipts = << >>] = [record.meta EXCEPT !.receipts = << >>]
               /\ record'.meta.receipts = Newest(record.meta.receipts)
               /\ record.version <= record'.version
    <3>1. record.meta \in Metadata BY <2>1 DEF TypeOK, Record
    <3>2. record'.meta = Trimmed(Trimmed(record.meta)) BY <2>3, <2>4 DEF MetaOf
    <3>3. Newest(Newest(record.meta.receipts)) = Newest(record.meta.receipts)
      BY <3>1, NewestOnce DEF Metadata
    <3>4. record'.meta = [record.meta EXCEPT !.receipts = Newest(record.meta.receipts)]
      BY <3>1, <3>2, <3>3 DEF Trimmed, Metadata
    <3>5. record'.lock = record.lock BY <2>3, <2>4 DEF LockOf
    <3>6. StoredVersion(record) <= Version[c] BY <2>1, <2>3, DecodedAt DEF TypeOK
    <3>7. record.version <= record'.version BY <2>3, <2>4, <3>6 DEF StoredVersion
    <3> QED BY <3>1, <3>4, <3>5, <3>7 DEF Metadata
  <2> QED BY <2>3, <2>4
<1> QED BY <1>1, Invariant, PTL DEF Spec, CarriedForward

-----------------------------------------------------------------------------
(* THE ORDERED CHANNEL                                                     *)

LEMMA LeastByOrder ==
  ASSUME NEW R, IsWellFoundedOn(R, Nat),
         \A x, y \in Nat : x < y => <<x, y>> \in R,
         NEW T, T \subseteq Nat, T # {}
  PROVE  \E x \in T : \A y \in T : x <= y
<1>1. PICK x \in T : \A y \in T : ~ (<<y, x>> \in R)
  BY WFMin, ZenonT(90)
<1>2. ASSUME NEW y \in T PROVE x <= y
  <2>1. ~ (<<y, x>> \in R)
    BY <1>1
  <2>2. x \in Nat /\ y \in Nat
    OBVIOUS
  <2>3. y < x => <<y, x>> \in R
    BY <2>2
  <2> QED BY <2>1, <2>2, <2>3, SMT
<1> QED BY <1>2

LEMMA Least ==
  ASSUME NEW T, T \subseteq Nat, T # {}
  PROVE  \E x \in T : \A y \in T : x <= y
<1>1. \A x, y \in Nat : x < y => <<x, y>> \in OpToRel(<, Nat)
  BY DEF OpToRel
<1> QED BY <1>1, NatLessThanWellFounded, LeastByOrder

LEMMA AllNaturals ==
  ASSUME NEW T, 0 \in T, \A n \in Nat : n \in T => n + 1 \in T
  PROVE  Nat \subseteq T
<1> SUFFICES ASSUME Nat \ T # {} PROVE FALSE
  OBVIOUS
<1>1. PICK x \in Nat \ T : \A y \in Nat \ T : x <= y
  BY Least
<1>2. x # 0 /\ x - 1 \in Nat /\ ~(x <= x - 1)
  OBVIOUS
<1> QED BY <1>1, <1>2

-----------------------------------------------------------------------------
(* Sequences, one element after the other.                                 *)
LEMMA AllSequences ==
  ASSUME NEW S, NEW T, <<>> \in T,
         \A s \in Seq(S), x \in S : s \in T => Append(s, x) \in T
  PROVE  Seq(S) \subseteq T
<1> DEFINE Reached == {n \in Nat : \A s \in Seq(S) : Len(s) = n => s \in T}
<1>1. 0 \in Reached
  OBVIOUS
<1>2. ASSUME NEW n \in Nat, n \in Reached PROVE n + 1 \in Reached
  <2> SUFFICES ASSUME NEW s \in Seq(S), Len(s) = n + 1 PROVE s \in T
    OBVIOUS
  <2> DEFINE front == SubSeq(s, 1, n)
  <2>1. front \in Seq(S) /\ Len(front) = n /\ s[n + 1] \in S
    OBVIOUS
  <2>2. s = Append(front, s[n + 1])
    OBVIOUS
  <2>3. front \in T
    BY <1>2, <2>1
  <2> HIDE DEF front
  <2> QED BY <2>1, <2>2, <2>3
<1> HIDE DEF Reached
<1>3. Nat \subseteq Reached
  BY <1>1, <1>2, AllNaturals
<1> QED BY <1>3 DEF Reached

(* A step from values in A over elements in B, and where it starts.        *)
FoldsOver(A, B, step, base, s) ==
  /\ base \in A /\ s \in Seq(B)
  /\ \A a \in A, b \in B : step[<<a, b>>] \in A

LEMMA FoldExists ==
  ASSUME NEW A, NEW B, NEW step, NEW base, NEW s, FoldsOver(A, B, step, base, s)
  PROVE  \E f \in [0 .. Len(s) -> A] :
           f[0] = base /\ \A n \in 1 .. Len(s) : f[n] = step[<<f[n - 1], s[n]>>]
<1>0. base \in A /\ s \in Seq(B) /\ \A a \in A, b \in B : step[<<a, b>>] \in A
  BY DEF FoldsOver
<1> DEFINE Upto(m, f) == f[0] = base /\ \A n \in 1 .. m : f[n] = step[<<f[n - 1], s[n]>>]
           Has(m) == m <= Len(s) => \E f \in [0 .. m -> A] : Upto(m, f)
           Reached == {m \in Nat : Has(m)}
<1>1. Has(0)
  <2>1. Upto(0, [n \in 0 .. 0 |-> base]) /\ [n \in 0 .. 0 |-> base] \in [0 .. 0 -> A]
    BY <1>0
  <2> QED BY <2>1
<1>2. ASSUME NEW m \in Nat, Has(m) PROVE Has(m + 1)
  <2> SUFFICES ASSUME m + 1 <= Len(s) PROVE \E f \in [0 .. m + 1 -> A] : Upto(m + 1, f)
    OBVIOUS
  <2>0. m <= Len(s) /\ Len(s) \in Nat
    BY <1>0
  <2>1. PICK f \in [0 .. m -> A] : Upto(m, f)
    BY <1>2, <2>0
  <2> DEFINE g == [n \in 0 .. m + 1 |-> IF n <= m THEN f[n] ELSE step[<<f[m], s[m + 1]>>]]
  <2>2. step[<<f[m], s[m + 1]>>] \in A
    <3>1. s[m + 1] \in B /\ f[m] \in A
      BY <1>0, <2>0
    <3> QED BY <1>0, <3>1
  <2>3. g \in [0 .. m + 1 -> A]
    BY <2>2
  <2>4. Upto(m + 1, g)
    <3>1. \A n \in 0 .. m : g[n] = f[n]
      OBVIOUS
    <3>2. g[m + 1] = step[<<f[m], s[m + 1]>>]
      OBVIOUS
    <3> HIDE DEF g
    <3>3. ASSUME NEW n \in 1 .. m + 1 PROVE g[n] = step[<<g[n - 1], s[n]>>]
      <4>1. n - 1 \in 0 .. m /\ g[n - 1] = f[n - 1]
        BY <3>1
      <4>2. CASE n = m + 1
        <5>1. n - 1 = m
          BY <4>2
        <5> QED BY <3>2, <4>1, <4>2, <5>1
      <4>3. CASE n # m + 1
        <5>1. n \in 0 .. m /\ n \in 1 .. m
          BY <4>3
        <5>2. f[n] = step[<<f[n - 1], s[n]>>]
          BY <2>1, <5>1
        <5> QED BY <3>1, <4>1, <5>1, <5>2
      <4> QED BY <4>2, <4>3
    <3>4. g[0] = base
      BY <2>1, <3>1
    <3> QED BY <3>3, <3>4
  <2> HIDE DEF g, Upto
  <2> QED BY <2>3, <2>4
<1>3. Has(Len(s)) /\ Len(s) \in Nat
  <2> HIDE DEF Has
  <2>1. 0 \in Reached /\ \A m \in Nat : m \in Reached => m + 1 \in Reached
    BY <1>1, <1>2
  <2>2. Nat \subseteq Reached
    <3> HIDE DEF Reached
    <3> QED BY <2>1, AllNaturals
  <2>3. Len(s) \in Nat
    BY <1>0
  <2> QED BY <2>2, <2>3
<1> QED BY <1>3

-----------------------------------------------------------------------------
(* FlattenSeq.                                                             *)
LEMMA Joining ==
  ASSUME NEW S, NEW s \in Seq(S), NEW t \in Seq(S)
  PROVE  s \o t \in Seq(S) /\ <<>> \o s = s /\ s \o <<>> = s
OBVIOUS

LEMMA FlattenExists ==
  ASSUME NEW S, NEW ss \in Seq(Seq(S))
  PROVE  \E f \in [0 .. Len(ss) -> Seq(S)] :
           f[0] = <<>> /\ \A n \in 1 .. Len(ss) : f[n] = f[n - 1] \o ss[n]
<1> DEFINE Q == Seq(S)
           step == [x \in Q \X Q |-> x[1] \o x[2]]
           none == <<>>
<1>2. none \in Q /\ ss \in Seq(Q) /\ \A n \in 1 .. Len(ss) : ss[n] \in Q
  OBVIOUS
<1>1. \A x, y \in Q : step[<<x, y>>] = x \o y
  OBVIOUS
<1>3. \A x, y \in Q : step[<<x, y>>] \in Q
  <2>1. \A x, y \in Q : x \o y \in Q
    OBVIOUS
  <2> HIDE DEF step, Q
  <2> QED BY <1>1, <2>1
<1> HIDE DEF step, Q, none
<1>4. PICK f \in [0 .. Len(ss) -> Q] :
        f[0] = none /\ \A n \in 1 .. Len(ss) : f[n] = step[<<f[n - 1], ss[n]>>]
  <2>1. FoldsOver(Q, Q, step, none, ss)
    BY <1>2, <1>3 DEF FoldsOver
  <2> QED BY <2>1, FoldExists
<1>5. ASSUME NEW n \in 1 .. Len(ss) PROVE f[n] = f[n - 1] \o ss[n]
  <2>0. n - 1 \in 0 .. Len(ss)
    OBVIOUS
  <2>1. f[n - 1] \in Q /\ ss[n] \in Q
    BY <1>2, <2>0
  <2> QED BY <1>1, <1>4, <2>1
<1> QED BY <1>4, <1>5 DEF Q, none

LEMMA FlattenValue ==
  ASSUME NEW S, NEW ss \in Seq(Seq(S)), Len(ss) # 0
  PROVE  \E g :
           /\ FlattenSeq(ss) = g[Len(ss)]
           /\ g[1] = ss[1] /\ \A n \in 2 .. Len(ss) : g[n] = g[n - 1] \o ss[n]
<1> DEFINE Eq(f) == f = [i \in 1 .. Len(ss) |-> IF i = 1 THEN ss[i] ELSE f[i - 1] \o ss[i]]
<1>0. Len(ss) \in Nat /\ Len(ss) >= 1
  OBVIOUS
<1>1. PICK f \in [0 .. Len(ss) -> Seq(S)] :
        f[0] = <<>> /\ \A n \in 1 .. Len(ss) : f[n] = f[n - 1] \o ss[n]
  BY FlattenExists
<1> DEFINE h == [i \in 1 .. Len(ss) |-> f[i]]
<1>2. Eq(h)
  <2>1. ASSUME NEW i \in 1 .. Len(ss) PROVE h[i] = IF i = 1 THEN ss[i] ELSE h[i - 1] \o ss[i]
    <3>1. CASE i = 1
      <4>1. ss[1] \in Seq(S)
        BY <1>0
      <4>2. f[1] = f[1 - 1] \o ss[1]
        <5>1. 1 \in 1 .. Len(ss)
          BY <1>0
        <5> QED BY <1>1, <5>1
      <4>3. 1 - 1 = 0
        OBVIOUS
      <4> QED BY <1>1, <3>1, <4>1, <4>2, <4>3, Joining
    <3>2. CASE i # 1
      <4>1. i - 1 \in 1 .. Len(ss) /\ h[i - 1] = f[i - 1]
        BY <3>2
      <4> QED BY <1>1, <3>2, <4>1
    <3> QED BY <3>1, <3>2
  <2> HIDE DEF h
  <2>2. h = [i \in 1 .. Len(ss) |-> h[i]]
    BY DEF h
  <2>3. [i \in 1 .. Len(ss) |-> h[i]] = [i \in 1 .. Len(ss) |-> IF i = 1 THEN ss[i] ELSE h[i - 1] \o ss[i]]
    BY <2>1
  <2> QED BY <2>2, <2>3
<1> DEFINE g == CHOOSE u : Eq(u)
<1>5. Eq(g)
  <2> HIDE DEF h, Eq
  <2> QED BY <1>2
<1>6. FlattenSeq(ss) = g[Len(ss)]
  BY DEF FlattenSeq
<1> HIDE DEF g
<1>7. g[1] = ss[1]
  BY <1>0, <1>5
<1>8. ASSUME NEW n \in 2 .. Len(ss) PROVE g[n] = g[n - 1] \o ss[n]
  <2>1. n \in 1 .. Len(ss) /\ n # 1
    OBVIOUS
  <2> QED BY <1>5, <2>1
<1> QED BY <1>6, <1>7, <1>8

(* What it adds up to, whatever else the sequences were built from.        *)
LEMMA FlattenIs ==
  ASSUME NEW S, NEW ss \in Seq(Seq(S)), NEW f,
         f[0] = <<>>, \A n \in 1 .. Len(ss) : f[n] = f[n - 1] \o ss[n]
  PROVE  FlattenSeq(ss) = f[Len(ss)]
<1>1. CASE Len(ss) = 0
  BY <1>1 DEF FlattenSeq
<1>2. CASE Len(ss) # 0
  <2>1. PICK g : /\ FlattenSeq(ss) = g[Len(ss)]
                 /\ g[1] = ss[1] /\ \A n \in 2 .. Len(ss) : g[n] = g[n - 1] \o ss[n]
    BY <1>2, FlattenValue
  <2> DEFINE Same(n) == n + 1 <= Len(ss) => g[n + 1] = f[n + 1]
             Reached == {n \in Nat : Same(n)}
  <2>2. Same(0)
    <3>1. 1 \in 1 .. Len(ss) /\ ss[1] \in Seq(S)
      BY <1>2
    <3>2. f[1] = f[1 - 1] \o ss[1]
      BY <3>1
    <3>3. 1 - 1 = 0
      OBVIOUS
    <3>4. f[1] = ss[1]
      BY <3>1, <3>2, <3>3, Joining
    <3> QED BY <2>1, <3>4
  <2>3. ASSUME NEW n \in Nat, Same(n) PROVE Same(n + 1)
    <3> SUFFICES ASSUME n + 2 <= Len(ss) PROVE g[n + 2] = f[n + 2]
      OBVIOUS
    <3>1. n + 2 \in 1 .. Len(ss) /\ n + 2 \in 2 .. Len(ss) /\ (n + 2) - 1 = n + 1
      OBVIOUS
    <3>2. g[n + 1] = f[n + 1]
      BY <2>3
    <3>3. g[n + 2] = g[n + 1] \o ss[n + 2]
      BY <2>1, <3>1
    <3>4. f[n + 2] = f[n + 1] \o ss[n + 2]
      BY <3>1
    <3> QED BY <3>2, <3>3, <3>4
  <2>4. Same(Len(ss) - 1)
    <3> HIDE DEF Same
    <3>1. 0 \in Reached /\ \A n \in Nat : n \in Reached => n + 1 \in Reached
      BY <2>2, <2>3
    <3>2. Nat \subseteq Reached
      <4> HIDE DEF Reached
      <4> QED BY <3>1, AllNaturals
    <3>3. Len(ss) - 1 \in Nat
      BY <1>2
    <3> QED BY <3>2, <3>3
  <2> QED BY <1>2, <2>1, <2>4
<1> QED BY <1>1, <1>2

LEMMA FlattenEmpty == FlattenSeq(<<>>) = <<>>
BY DEF FlattenSeq

LEMMA FlattenAppend ==
  ASSUME NEW S, NEW ss \in Seq(Seq(S)), NEW s \in Seq(S)
  PROVE  FlattenSeq(ss) \in Seq(S) /\ FlattenSeq(Append(ss, s)) = FlattenSeq(ss) \o s
<1> DEFINE tt == Append(ss, s)  n == Len(ss)
<1>1. /\ tt \in Seq(Seq(S)) /\ Len(tt) = n + 1 /\ n \in Nat /\ tt[n + 1] = s
      /\ \A i \in 1 .. n : tt[i] = ss[i]
  OBVIOUS
<1> HIDE DEF tt
<1>2. PICK f \in [0 .. Len(tt) -> Seq(S)] :
        f[0] = <<>> /\ \A i \in 1 .. Len(tt) : f[i] = f[i - 1] \o tt[i]
  BY <1>1, FlattenExists
<1>3. FlattenSeq(tt) = f[n + 1]
  BY <1>1, <1>2, FlattenIs
<1>4. ASSUME NEW i \in 1 .. n PROVE f[i] = f[i - 1] \o ss[i]
  <2>1. i \in 1 .. Len(tt)
    BY <1>1
  <2>2. f[i] = f[i - 1] \o tt[i]
    BY <1>2, <2>1
  <2> QED BY <1>1, <2>2
<1>5. FlattenSeq(ss) = f[n]
  BY <1>2, <1>4, FlattenIs
<1>6. f[n] \in Seq(S) /\ f[n + 1] = f[n] \o s
  <2>1. n + 1 \in 1 .. Len(tt) /\ n \in 0 .. Len(tt) /\ (n + 1) - 1 = n
    BY <1>1
  <2>2. f[n + 1] = f[(n + 1) - 1] \o tt[n + 1]
    BY <1>2, <2>1
  <2> QED BY <1>1, <2>1, <2>2
<1> QED BY <1>3, <1>5, <1>6 DEF tt

LEMMA AssociateConcat ==
  ASSUME NEW S, NEW s \in Seq(S), NEW t \in Seq(S), NEW u \in Seq(S)
  PROVE  (s \o t) \o u = s \o (t \o u)
OBVIOUS

LEMMA FlattenConcat ==
  ASSUME NEW S, NEW ss \in Seq(Seq(S)), NEW tt \in Seq(Seq(S))
  PROVE  FlattenSeq(ss \o tt) = FlattenSeq(ss) \o FlattenSeq(tt)
<1> DEFINE Q == Seq(S)
           Holds(t) == FlattenSeq(ss \o t) = FlattenSeq(ss) \o FlattenSeq(t)
           Reached == {t \in Seq(Q) : Holds(t)}
<1>1. Holds(<<>>)
  <2>1. FlattenSeq(ss) \in Seq(S) /\ ss \o <<>> = ss
    BY <<>> \in Seq(S), FlattenAppend
  <2> QED BY <2>1, Joining, FlattenEmpty
<1>2. ASSUME NEW t \in Seq(Q), NEW x \in Q, Holds(t) PROVE Holds(Append(t, x))
  <2>1. ss \o Append(t, x) = Append(ss \o t, x)
    BY SMTT(30)
  <2>2. ss \o t \in Seq(Q)
    OBVIOUS
  <2>3. FlattenSeq(Append(ss \o t, x)) = FlattenSeq(ss \o t) \o x
    BY <2>2, FlattenAppend
  <2>4. FlattenSeq(Append(t, x)) = FlattenSeq(t) \o x
    BY FlattenAppend
  <2>5. FlattenSeq(ss) \in Seq(S) /\ FlattenSeq(t) \in Seq(S)
    BY FlattenAppend
  <2>6. (FlattenSeq(ss) \o FlattenSeq(t)) \o x = FlattenSeq(ss) \o (FlattenSeq(t) \o x)
    BY <2>5, AssociateConcat, SMTT(30)
  <2> QED BY ONLY <1>2, <2>1, <2>3, <2>4, <2>6, Zenon
<1>3. \A t \in Seq(Q) : Holds(t)
  <2> HIDE DEF Holds, Q
  <2>1. <<>> \in Reached /\ \A t \in Seq(Q), x \in Q : t \in Reached => Append(t, x) \in Reached
    BY <1>1, <1>2
  <2>2. Seq(Q) \subseteq Reached
    <3> HIDE DEF Reached
    <3> QED BY <2>1, AllSequences
  <2> QED BY <2>2
<1> QED BY <1>3

Total(map) == FoldFunction(+, 0, map)
Some(s) == CHOOSE x \in s : TRUE
SumAt(map, g, s) == IF s = {} THEN 0 ELSE map[Some(s)] + g[s \ {Some(s)}]
Summing(map, g) == g = [s \in SUBSET DOMAIN map |-> SumAt(map, g, s)]

LEMMA TotalIs ==
  ASSUME NEW map
  PROVE  Total(map) = (CHOOSE g : Summing(map, g))[DOMAIN map]
BY DEF Total, FoldFunction, FoldFunctionOnSet, MapThenFoldSet, Summing, SumAt, Some

LEMMA SomeIsIn == ASSUME NEW s, s # {} PROVE Some(s) \in s
BY DEF Some

LEMMA OneLess ==
  ASSUME NEW s, IsFiniteSet(s), NEW x \in s
  PROVE  /\ IsFiniteSet(s \ {x}) /\ Cardinality(s) \in Nat /\ Cardinality(s \ {x}) \in Nat
         /\ Cardinality(s) = Cardinality(s \ {x}) + 1
<1>1. IsFiniteSet(s \ {x}) /\ Cardinality(s \ {x}) = Cardinality(s) - 1
  BY FS_RemoveElement
<1> QED BY <1>1, FS_CardinalityType

LEMMA SummingExists ==
  ASSUME NEW map, IsFiniteSet(DOMAIN map)
  PROVE  \E g : Summing(map, g)
<1> DEFINE D == DOMAIN map
           Upto(n, g) == \A s \in SUBSET D : Cardinality(s) <= n => g[s] = SumAt(map, g, s)
           Reached == {n \in Nat : \E g : Upto(n, g)}
<1>0. \A s \in SUBSET D : IsFiniteSet(s) /\ Cardinality(s) \in Nat /\ Cardinality(s) <= Cardinality(D)
  BY FS_Subset, FS_CardinalityType
<1>1. 0 \in Reached
  <2> DEFINE g == [s \in SUBSET D |-> 0]
  <2>1. ASSUME NEW s \in SUBSET D, Cardinality(s) <= 0 PROVE g[s] = SumAt(map, g, s)
    <3>1. s = {}
      BY <1>0, <2>1, FS_EmptySet
    <3> QED BY <3>1 DEF SumAt
  <2> HIDE DEF g
  <2>2. Upto(0, g)
    BY <2>1
  <2> HIDE DEF Upto
  <2> QED BY <2>2
<1>2. ASSUME NEW n \in Nat, n \in Reached PROVE n + 1 \in Reached
  <2>1. PICK g : Upto(n, g)
    BY <1>2
  <2> DEFINE h == [s \in SUBSET D |-> IF Cardinality(s) <= n THEN g[s] ELSE SumAt(map, g, s)]
  <2>2. ASSUME NEW s \in SUBSET D, Cardinality(s) <= n + 1 PROVE h[s] = SumAt(map, h, s)
    <3>1. h[s] = SumAt(map, g, s)
      BY <2>1
    <3>2. CASE s = {}
      BY <3>1, <3>2 DEF SumAt
    <3>3. CASE s # {}
      <4> DEFINE t == s \ {Some(s)}
      <4>1. Some(s) \in s /\ t \in SUBSET D
        BY <3>3, SomeIsIn
      <4>2. Cardinality(t) <= n
        BY <1>0, <2>2, <4>1, OneLess
      <4>3. h[t] = g[t]
        <5> HIDE DEF t
        <5> QED BY <4>1, <4>2
      <4> HIDE DEF h
      <4> QED BY <3>1, <3>3, <4>3 DEF SumAt
    <3> QED BY <3>2, <3>3
  <2> HIDE DEF h
  <2>3. Upto(n + 1, h)
    BY <2>2
  <2> HIDE DEF Upto
  <2> QED BY <2>3
<1> HIDE DEF Reached
<1>3. Nat \subseteq Reached
  BY <1>1, <1>2, AllNaturals
<1>4. PICK g : Upto(Cardinality(D), g)
  <2>1. Cardinality(D) \in Reached
    BY <1>0, <1>3
  <2> QED BY <2>1 DEF Reached
<1> DEFINE h == [s \in SUBSET D |-> g[s]]
<1>5. ASSUME NEW s \in SUBSET D PROVE h[s] = SumAt(map, h, s)
  <2>1. h[s] = SumAt(map, g, s)
    BY <1>0, <1>4
  <2>2. s \ {Some(s)} \in SUBSET D
    OBVIOUS
  <2> QED BY <2>1, <2>2 DEF SumAt
<1>6. h = [s \in SUBSET D |-> h[s]]
  OBVIOUS
<1> HIDE DEF h
<1>7. [s \in SUBSET D |-> h[s]] = [s \in SUBSET D |-> SumAt(map, h, s)]
  BY <1>5
<1> QED BY <1>6, <1>7 DEF Summing

(* Whatever comes first, the rest is the same.                             *)
LEMMA SummingTakesOut ==
  ASSUME NEW map, IsFiniteSet(DOMAIN map), \A x \in DOMAIN map : map[x] \in Nat,
         NEW g, Summing(map, g)
  PROVE  \A s \in SUBSET DOMAIN map :
           g[s] \in Nat /\ \A x \in s : g[s] = map[x] + g[s \ {x}]
<1> DEFINE D == DOMAIN map
           Fine(s) == g[s] \in Nat /\ \A x \in s : g[s] = map[x] + g[s \ {x}]
           Has(n) == \A s \in SUBSET D : Cardinality(s) <= n => Fine(s)
           Reached == {n \in Nat : Has(n)}
<1>0. \A s \in SUBSET D : IsFiniteSet(s) /\ Cardinality(s) \in Nat
  BY FS_Subset, FS_CardinalityType
<1>a. \A s \in SUBSET D : g[s] = SumAt(map, g, s)
  BY DEF Summing
<1>1. Has(0)
  <2> SUFFICES ASSUME NEW s \in SUBSET D, Cardinality(s) <= 0 PROVE Fine(s)
    OBVIOUS
  <2>1. s = {}
    BY <1>0, FS_EmptySet
  <2>2. g[s] = 0
    BY <1>a, <2>1 DEF SumAt
  <2> QED BY <2>1, <2>2
<1>2. ASSUME NEW n \in Nat, Has(n) PROVE Has(n + 1)
  <2> SUFFICES ASSUME NEW s \in SUBSET D, Cardinality(s) <= n + 1, s # {} PROVE Fine(s)
    <3>1. Fine({})
      <4>1. g[{}] = 0
        BY <1>a DEF SumAt
      <4> QED BY <4>1
    <3> HIDE DEF Fine
    <3> QED BY <3>1
  <2> DEFINE c == Some(s)
  <2>1. s # {} /\ c \in s /\ c \in D
    BY SomeIsIn
  <2> HIDE DEF c
  <2>2. g[s] = map[c] + g[s \ {c}]
    BY <1>a, <2>1 DEF SumAt, c
  <2>3. ASSUME NEW x \in s PROVE Fine(s \ {x})
    <3>1. s \ {x} \in SUBSET D /\ Cardinality(s \ {x}) <= n
      BY <1>0, OneLess
    <3> QED BY <1>2, <3>1
  <2>4. ASSUME NEW x \in s PROVE g[s] = map[x] + g[s \ {x}]
    <3>1. CASE x = c
      BY <2>2, <3>1
    <3>2. CASE x # c
      <4>1. c \in s \ {x} /\ x \in s \ {c}
        BY <2>1, <3>2
      <4>2. g[s \ {c}] = map[x] + g[(s \ {c}) \ {x}]
        BY <2>1, <2>3, <4>1
      <4>3. g[s \ {x}] = map[c] + g[(s \ {x}) \ {c}]
        BY <2>3, <4>1
      <4>4. (s \ {c}) \ {x} = (s \ {x}) \ {c}
        OBVIOUS
      <4> DEFINE u == (s \ {x}) \ {c}
      <4>5. u \in SUBSET D /\ Cardinality(s \ {x}) = Cardinality(u) + 1
        BY <1>0, <4>1, OneLess
      <4>6. map[x] \in Nat /\ map[c] \in Nat /\ g[s \ {x}] \in Nat /\ g[s \ {c}] \in Nat
        BY <2>1, <2>3
      <4>7. g[u] \in Nat
        <5>1. u \in SUBSET D /\ Cardinality(u) <= n
          BY <1>0, <4>1, <4>5, OneLess
        <5> HIDE DEF u
        <5> QED BY <1>2, <5>1
      <4>8. g[s \ {c}] = map[x] + g[u]
        BY <4>2, <4>4
      <4>9. g[s \ {x}] = map[c] + g[u]
        BY <4>3
      <4> HIDE DEF u
      <4> QED BY <2>2, <4>6, <4>7, <4>8, <4>9
    <3> QED BY <3>1, <3>2
  <2>5. g[s] \in Nat
    BY <2>1, <2>2, <2>3
  <2> QED BY <2>4, <2>5
<1>3. Nat \subseteq Reached
  <2> HIDE DEF Has
  <2>1. 0 \in Reached /\ \A n \in Nat : n \in Reached => n + 1 \in Reached
    BY <1>1, <1>2
  <2> HIDE DEF Reached
  <2> QED BY <2>1, AllNaturals
<1>4. ASSUME NEW s \in SUBSET D PROVE Fine(s)
  <2>0. Cardinality(s) \in Nat /\ Cardinality(s) <= Cardinality(s)
    BY <1>0
  <2>1. Cardinality(s) \in Reached
    BY <1>3, <2>0
  <2>2. Has(Cardinality(s))
    <3> HIDE DEF Has
    <3> QED BY <2>1
  <2> QED BY <2>0, <2>2
<1> QED BY <1>4

LEMMA SummingAgrees ==
  ASSUME NEW f, NEW h, IsFiniteSet(DOMAIN f), IsFiniteSet(DOMAIN h),
         \A x \in DOMAIN f : f[x] \in Nat, \A x \in DOMAIN h : h[x] \in Nat,
         NEW gf, Summing(f, gf), NEW gh, Summing(h, gh),
         NEW D, D \subseteq DOMAIN f, D \subseteq DOMAIN h, \A x \in D : f[x] = h[x]
  PROVE  gf[D] = gh[D]
<1> DEFINE Has(n) == \A s \in SUBSET D : Cardinality(s) <= n => gf[s] = gh[s]
           Reached == {n \in Nat : Has(n)}
<1>0. \A s \in SUBSET D : IsFiniteSet(s) /\ Cardinality(s) \in Nat
  BY FS_Subset, FS_CardinalityType
<1>1. ASSUME NEW s \in SUBSET D, NEW x \in s
      PROVE  gf[s] = f[x] + gf[s \ {x}] /\ gh[s] = f[x] + gh[s \ {x}]
  <2>1. s \in SUBSET DOMAIN f /\ s \in SUBSET DOMAIN h /\ f[x] = h[x]
    OBVIOUS
  <2>2. gf[s] = f[x] + gf[s \ {x}]
    BY ONLY IsFiniteSet(DOMAIN f), \A y \in DOMAIN f : f[y] \in Nat, Summing(f, gf),
            x \in s, <2>1, SummingTakesOut
  <2>3. gh[s] = h[x] + gh[s \ {x}]
    BY ONLY IsFiniteSet(DOMAIN h), \A y \in DOMAIN h : h[y] \in Nat, Summing(h, gh),
            x \in s, <2>1, SummingTakesOut
  <2> QED BY <2>1, <2>2, <2>3
<1>2. gf[{}] = gh[{}]
  BY DEF Summing, SumAt
<1>3. Has(0)
  BY <1>0, <1>2, FS_EmptySet
<1>4. ASSUME NEW n \in Nat, Has(n) PROVE Has(n + 1)
  <2> SUFFICES ASSUME NEW s \in SUBSET D, Cardinality(s) <= n + 1, s # {} PROVE gf[s] = gh[s]
    BY <1>2
  <2>1. PICK x \in s : TRUE
    OBVIOUS
  <2>2. s \ {x} \in SUBSET D /\ Cardinality(s \ {x}) <= n
    BY <1>0, OneLess
  <2>3. gf[s \ {x}] = gh[s \ {x}]
    BY <1>4, <2>2
  <2> QED BY <1>1, <2>3
<1>5. Nat \subseteq Reached
  <2> HIDE DEF Has
  <2>1. 0 \in Reached /\ \A n \in Nat : n \in Reached => n + 1 \in Reached
    BY <1>3, <1>4
  <2> HIDE DEF Reached
  <2> QED BY <2>1, AllNaturals
<1>6. Cardinality(D) \in Nat /\ Cardinality(D) <= Cardinality(D)
  BY <1>0
<1>7. Has(Cardinality(D))
  <2> HIDE DEF Has
  <2> QED BY <1>5, <1>6
<1> QED BY <1>6, <1>7

LEMMA TotalSums ==
  ASSUME NEW map, IsFiniteSet(DOMAIN map)
  PROVE  \E g : Summing(map, g) /\ Total(map) = g[DOMAIN map]
<1>1. \E g : Summing(map, g)
  BY SummingExists
<1> QED BY <1>1, TotalIs

LEMMA TotalEmpty ==
  ASSUME NEW map, DOMAIN map = {}
  PROVE  Total(map) = 0
<1>1. PICK g : Summing(map, g) /\ Total(map) = g[DOMAIN map]
  BY TotalSums, FS_EmptySet
<1> QED BY <1>1 DEF Summing, SumAt

(* One entry goes up by one.                                               *)
LEMMA TotalRises ==
  ASSUME NEW f, IsFiniteSet(DOMAIN f), \A x \in DOMAIN f : f[x] \in Nat, NEW slot, NEW h,
         h = [k \in DOMAIN f \cup {slot} |->
                (IF k \in DOMAIN f THEN f[k] ELSE 0) + (IF k = slot THEN 1 ELSE 0)]
  PROVE  Total(f) \in Nat /\ Total(h) = Total(f) + 1
<1> DEFINE D == DOMAIN f \ {slot}
<1>1. DOMAIN h = DOMAIN f \cup {slot} /\ IsFiniteSet(DOMAIN h)
  BY FS_AddElement
<1>2. \A x \in DOMAIN h : h[x] \in Nat
  BY <1>1
<1>3. PICK gf : Summing(f, gf) /\ Total(f) = gf[DOMAIN f]
  BY TotalSums
<1>4. PICK gh : Summing(h, gh) /\ Total(h) = gh[DOMAIN h]
  BY <1>1, TotalSums
<1>5. gf[D] = gh[D]
  <2>1. D \subseteq DOMAIN f /\ D \subseteq DOMAIN h /\ \A x \in D : f[x] = h[x]
    BY <1>1
  <2> QED BY <1>1, <1>2, <1>3, <1>4, <2>1, SummingAgrees
<1>6. /\ gf[D] \in Nat /\ gf[DOMAIN f] \in Nat
      /\ slot \in DOMAIN f => gf[DOMAIN f] = f[slot] + gf[D]
  <2>1. D \in SUBSET DOMAIN f /\ DOMAIN f \in SUBSET DOMAIN f
    OBVIOUS
  <2> QED BY <1>3, <2>1, SummingTakesOut, SMTT(30)
<1>7. gh[DOMAIN h] = h[slot] + gh[D]
  <2>1. slot \in DOMAIN h /\ DOMAIN h \in SUBSET DOMAIN h /\ DOMAIN h \ {slot} = D
    BY <1>1
  <2>2. gh[DOMAIN h] = h[slot] + gh[DOMAIN h \ {slot}]
    BY ONLY <1>1, <1>2, <1>4, <2>1, SummingTakesOut, SMTT(30)
  <2> QED BY <2>1, <2>2
<1>8. CASE slot \in DOMAIN f
  <2>1. h[slot] = f[slot] + 1 /\ f[slot] \in Nat
    BY <1>8
  <2> QED BY <1>3, <1>4, <1>5, <1>6, <1>7, <1>8, <2>1
<1>9. CASE slot \notin DOMAIN f
  <2>1. h[slot] = 1
    BY <1>9
  <2>2. D = DOMAIN f
    BY <1>9
  <2> QED BY <1>3, <1>4, <1>5, <1>6, <1>7, <2>1, <2>2
<1> QED BY <1>8, <1>9

LEMMA SameSequence ==
  ASSUME NEW S, NEW s \in Seq(S), NEW t \in Seq(S), Len(s) = Len(t),
         \A i \in 1 .. Len(s) : s[i] = t[i]
  PROVE  s = t
OBVIOUS

LEMMA Single == ASSUME NEW S, NEW x \in S PROVE <<x>> \in Seq(S) /\ <<>> \in Seq(S)
OBVIOUS

-----------------------------------------------------------------------------
(* At: the elements of a sequence at some places.                          *)
Parts(s, places) == [i \in DOMAIN s |-> IF i \in places THEN <<s[i]>> ELSE <<>>]

LEMMA AtIs ==
  ASSUME NEW S, NEW s \in Seq(S), NEW places
  PROVE  Parts(s, places) \in Seq(Seq(S)) /\ At(s, places) = FlattenSeq(Parts(s, places))
<1>1. \A i \in 1 .. Len(s) : Parts(s, places)[i] \in Seq(S)
  BY DEF Parts
<1>2. DOMAIN s = 1 .. Len(s) /\ Len(s) \in Nat
  OBVIOUS
<1> QED BY <1>1, <1>2 DEF At, Parts

LEMMA AtType ==
  ASSUME NEW S, NEW s \in Seq(S), NEW places
  PROVE  At(s, places) \in Seq(S)
<1>1. Parts(s, places) \in Seq(Seq(S)) /\ At(s, places) = FlattenSeq(Parts(s, places))
  BY AtIs
<1>2. <<>> \in Seq(S)
  OBVIOUS
<1> QED BY <1>1, <1>2, FlattenAppend

LEMMA AtEmpty == ASSUME NEW places PROVE At(<<>>, places) = <<>>
<1>1. [i \in DOMAIN <<>> |-> IF i \in places THEN <<(<<>>)[i]>> ELSE <<>>] = <<>>
  OBVIOUS
<1> QED BY <1>1, FlattenEmpty DEF At

LEMMA AtSame ==
  ASSUME NEW s, NEW A, NEW B, \A i \in DOMAIN s : i \in A <=> i \in B
  PROVE  At(s, A) = At(s, B)
<1>1. \A i \in DOMAIN s : (IF i \in A THEN <<s[i]>> ELSE <<>>) = (IF i \in B THEN <<s[i]>> ELSE <<>>)
  OBVIOUS
<1>2. [i \in DOMAIN s |-> IF i \in A THEN <<s[i]>> ELSE <<>>] = [i \in DOMAIN s |-> IF i \in B THEN <<s[i]>> ELSE <<>>]
  BY <1>1
<1> QED BY <1>2 DEF At

LEMMA AtConcat ==
  ASSUME NEW S, NEW s \in Seq(S), NEW t \in Seq(S), NEW places, NEW later,
         \A j \in DOMAIN t : j \in later <=> j + Len(s) \in places
  PROVE  At(s \o t, places) = At(s, places) \o At(t, later)
<1> DEFINE ps == Parts(s, places)  pt == Parts(t, later)  pu == Parts(s \o t, places)
<1>1. s \o t \in Seq(S)
  OBVIOUS
<1>2. /\ ps \in Seq(Seq(S)) /\ At(s, places) = FlattenSeq(ps)
      /\ pt \in Seq(Seq(S)) /\ At(t, later) = FlattenSeq(pt)
  BY AtIs
<1>3. pu \in Seq(Seq(S)) /\ At(s \o t, places) = FlattenSeq(pu)
  BY <1>1, AtIs
<1>4. Len(ps) = Len(s) /\ Len(pt) = Len(t) /\ Len(pu) = Len(s) + Len(t)
  BY DEF Parts
<1>5. ASSUME NEW i \in 1 .. Len(s) + Len(t) PROVE pu[i] = (ps \o pt)[i]
  <2>1. CASE i <= Len(s)
    BY <2>1 DEF Parts
  <2>2. CASE ~(i <= Len(s))
    <3>1. i - Len(s) \in 1 .. Len(t) /\ (s \o t)[i] = t[i - Len(s)]
      BY <2>2
    <3>2. i \in places <=> i - Len(s) \in later
      BY <3>1
    <3>3. (ps \o pt)[i] = pt[i - Len(s)]
      BY <2>2 DEF Parts
    <3> QED BY <3>1, <3>2, <3>3 DEF Parts
  <2> QED BY <2>1, <2>2
<1> HIDE DEF ps, pt, pu
<1>6. pu = ps \o pt
  <2> DEFINE Q == Seq(S)
  <2>1. pu \in Seq(Q) /\ ps \in Seq(Q) /\ pt \in Seq(Q) /\ Len(s) \in Nat /\ Len(t) \in Nat
    BY <1>2, <1>3
  <2> HIDE DEF Q
  <2>2. ps \o pt \in Seq(Q) /\ Len(ps \o pt) = Len(s) + Len(t)
    BY <1>4, <2>1
  <2> QED BY <1>4, <1>5, <2>1, <2>2, SameSequence
<1>7. FlattenSeq(ps \o pt) = FlattenSeq(ps) \o FlattenSeq(pt)
  BY <1>2, FlattenConcat
<1> QED BY ONLY <1>2, <1>3, <1>6, <1>7

LEMMA AtOne ==
  ASSUME NEW x, NEW places
  PROVE  At(<<x>>, places) = IF 1 \in places THEN <<x>> ELSE <<>>
<1> DEFINE part == IF 1 \in places THEN <<x>> ELSE <<>>  Q == Seq({x})
<1>1. <<x>> \in Q /\ part \in Q
  <2>1. <<x>> \in Q /\ <<>> \in Q
    BY x \in {x}, Single
  <2> HIDE DEF Q
  <2> QED BY <2>1
<1>0. <<>> \in Seq(Q)
  OBVIOUS
<1>2. Parts(<<x>>, places) = Append(<<>>, part)
  BY DEF Parts
<1>3. At(<<x>>, places) = FlattenSeq(Append(<<>>, part))
  BY <1>1, <1>2, AtIs
<1>4. FlattenSeq(Append(<<>>, part)) = <<>> \o part
  BY <1>0, <1>1, FlattenEmpty, FlattenAppend
<1> HIDE DEF part
<1>5. <<>> \o part = part
  BY <1>1
<1> QED BY <1>3, <1>4, <1>5 DEF part

-----------------------------------------------------------------------------
(* Items of a kind.                                                        *)
LEMMA OfKindType ==
  ASSUME NEW s \in Seq(Items), NEW kinds
  PROVE  OfKind(s, kinds) \in Seq(Items)
BY AtType DEF OfKind

LEMMA OfKindEmpty == ASSUME NEW kinds PROVE OfKind(<<>>, kinds) = <<>>
BY AtEmpty DEF OfKind

LEMMA OfKindConcat ==
  ASSUME NEW s \in Seq(Items), NEW t \in Seq(Items), NEW kinds
  PROVE  OfKind(s \o t, kinds) = OfKind(s, kinds) \o OfKind(t, kinds)
<1> DEFINE here(u) == {i \in DOMAIN u : u[i].kind \in kinds}
<1>1. \A j \in DOMAIN t : j \in here(t) <=> j + Len(s) \in here(s \o t)
  OBVIOUS
<1>2. \A i \in DOMAIN s : i \in here(s \o t) <=> i \in here(s)
  OBVIOUS
<1>3. At(s, here(s \o t)) = At(s, here(s))
  BY <1>2, AtSame
<1> DEFINE all == here(s \o t)  last == here(t)
<1> HIDE DEF here, all, last
<1>0. \A j \in DOMAIN t : j \in last <=> j + Len(s) \in all
  BY <1>1 DEF all, last
<1>5. At(s \o t, all) = At(s, all) \o At(t, last)
  BY <1>0, AtConcat, SMTT(30)
<1>4. At(s \o t, here(s \o t)) = At(s, here(s \o t)) \o At(t, here(t))
  BY <1>5 DEF all, last
<1> QED BY <1>3, <1>4 DEF OfKind, here

LEMMA OfKindOne ==
  ASSUME NEW x, NEW kinds
  PROVE  OfKind(<<x>>, kinds) = IF x.kind \in kinds THEN <<x>> ELSE <<>>
BY AtOne DEF OfKind

LEMMA SameConcat ==
  ASSUME NEW S, NEW x \in Seq(S), NEW y \in Seq(S), NEW z \in Seq(S),
         Len(z) = Len(x) + Len(y), \A i \in 1 .. Len(x) + Len(y) : z[i] = (x \o y)[i]
  PROVE  z = x \o y
<1>1. x \o y \in Seq(S) /\ Len(x \o y) = Len(x) + Len(y)
  OBVIOUS
<1> QED BY <1>1, SameSequence

LEMMA AtAppend ==
  ASSUME NEW S, NEW s \in Seq(S), NEW x \in S, NEW places
  PROVE  At(Append(s, x), places) = At(s, places) \o (IF Len(s) + 1 \in places THEN <<x>> ELSE <<>>)
<1> DEFINE later == IF Len(s) + 1 \in places THEN {1} ELSE {}
<1>1. <<x>> \in Seq(S) /\ DOMAIN <<x>> = {1} /\ Len(s) \in Nat
  BY Single
<1>2. \A j \in DOMAIN <<x>> : j \in later <=> j + Len(s) \in places
  BY <1>1
<1>3. At(s \o <<x>>, places) = At(s, places) \o At(<<x>>, later)
  <2> DEFINE t == <<x>>
  <2>1. t \in Seq(S) /\ \A j \in DOMAIN t : j \in later <=> j + Len(s) \in places
    BY <1>1, <1>2
  <2> HIDE DEF later, t
  <2>2. At(s \o t, places) = At(s, places) \o At(t, later)
    BY <2>1, AtConcat
  <2> QED BY <2>2 DEF t
<1>4. At(<<x>>, later) = IF Len(s) + 1 \in places THEN <<x>> ELSE <<>>
  BY AtOne
<1> QED BY <1>3, <1>4, AppendIsConcat

LEMMA AtAll ==
  ASSUME NEW S, NEW s \in Seq(S), NEW places, DOMAIN s \subseteq places
  PROVE  At(s, places) = s
<1> DEFINE Holds(t) == At(t, 1 .. Len(t)) = t
           Reached == {t \in Seq(S) : Holds(t)}
<1>1. Holds(<<>>)
  BY AtEmpty
<1>2. ASSUME NEW t \in Seq(S), NEW x \in S, Holds(t) PROVE Holds(Append(t, x))
  <2>1. Len(Append(t, x)) = Len(t) + 1 /\ Len(t) \in Nat /\ Len(t) + 1 \in 1 .. Len(t) + 1
        /\ DOMAIN t = 1 .. Len(t)
    OBVIOUS
  <2>2. At(Append(t, x), 1 .. Len(t) + 1) = At(t, 1 .. Len(t) + 1) \o <<x>>
    BY <2>1, AtAppend
  <2>3. \A i \in DOMAIN t : i \in 1 .. Len(t) + 1 <=> i \in 1 .. Len(t)
    BY <2>1
  <2>4. At(t, 1 .. Len(t) + 1) = At(t, 1 .. Len(t))
    BY <2>3, AtSame
  <2> QED BY <1>2, <2>1, <2>2, <2>4, AppendIsConcat
<1>3. Holds(s)
  <2> HIDE DEF Holds
  <2>1. <<>> \in Reached /\ \A t \in Seq(S), x \in S : t \in Reached => Append(t, x) \in Reached
    BY <1>1, <1>2
  <2>2. Seq(S) \subseteq Reached
    <3> HIDE DEF Reached
    <3> QED BY <2>1, AllSequences
  <2> QED BY <2>2
<1>4. \A i \in DOMAIN s : i \in places <=> i \in 1 .. Len(s)
  OBVIOUS
<1> QED BY <1>3, <1>4, AtSame

LEMMA AtNone ==
  ASSUME NEW S, NEW s \in Seq(S), NEW places, DOMAIN s \cap places = {}
  PROVE  At(s, places) = <<>>
<1> DEFINE Holds(t) == At(t, {}) = <<>>
           Reached == {t \in Seq(S) : Holds(t)}
<1>1. Holds(<<>>)
  BY AtEmpty
<1>2. ASSUME NEW t \in Seq(S), NEW x \in S, Holds(t) PROVE Holds(Append(t, x))
  <2>1. At(Append(t, x), {}) = At(t, {}) \o <<>>
    BY AtAppend, ZenonT(30)
  <2> QED BY <1>2, <2>1, Joining
<1>3. Holds(s)
  <2> HIDE DEF Holds
  <2>1. <<>> \in Reached /\ \A t \in Seq(S), x \in S : t \in Reached => Append(t, x) \in Reached
    BY <1>1, <1>2
  <2>2. Seq(S) \subseteq Reached
    <3> HIDE DEF Reached
    <3> QED BY <2>1, AllSequences
  <2> QED BY <2>2
<1>4. \A i \in DOMAIN s : i \in places <=> i \in {}
  OBVIOUS
<1> QED BY <1>3, <1>4, AtSame

-----------------------------------------------------------------------------
(* Frames: what they hold, and what of it is for a player.                 *)
Recipients == Players \cup {Everyone}
QueuedItems == [to: Recipients, item: Items]
AnyFrames == [to: Recipients, items: Seq(Items)]
Sendable(frames) == \A i \in DOMAIN frames : Len(frames[i].items) \in 1 .. MaxFrameItems

For(p, frames) == Flat(Arriving(p, frames))
ItemsIn(q) == [i \in DOMAIN q |-> q[i].item]
Mine(p, q) == At(ItemsIn(q), {i \in DOMAIN q : q[i].to \in {p, Everyone}})

LEMMA FlatIs ==
  ASSUME NEW frames \in Seq(AnyFrames)
  PROVE  /\ [i \in DOMAIN frames |-> frames[i].items] \in Seq(Seq(Items))
         /\ Flat(frames) \in Seq(Items)
<1>0. \A f \in AnyFrames : f.items \in Seq(Items)
  BY DEF AnyFrames
<1>1. \A i \in 1 .. Len(frames) : frames[i].items \in Seq(Items)
  BY <1>0
<1>2. [i \in DOMAIN frames |-> frames[i].items] \in Seq(Seq(Items))
  BY <1>1
<1> QED BY <1>2, Joining, FlattenAppend, <<>> \in Seq(Items) DEF Flat

LEMMA FlatEmpty == Flat(<<>>) = <<>>
<1>1. [i \in DOMAIN <<>> |-> (<<>>)[i].items] = <<>>
  OBVIOUS
<1> QED BY <1>1, FlattenEmpty DEF Flat

LEMMA FlatConcat ==
  ASSUME NEW a \in Seq(AnyFrames), NEW b \in Seq(AnyFrames)
  PROVE  Flat(a \o b) = Flat(a) \o Flat(b)
<1> DEFINE of(s) == [i \in DOMAIN s |-> s[i].items]
           Q == Seq(Items)
<1>1. a \o b \in Seq(AnyFrames)
  OBVIOUS
<1>2. of(a) \in Seq(Q) /\ of(b) \in Seq(Q) /\ of(a \o b) \in Seq(Q)
  BY <1>1, FlatIs
<1>3. Len(of(a)) = Len(a) /\ Len(of(b)) = Len(b) /\ Len(of(a \o b)) = Len(a) + Len(b)
  OBVIOUS
<1>4. ASSUME NEW i \in 1 .. Len(a) + Len(b) PROVE of(a \o b)[i] = (of(a) \o of(b))[i]
  OBVIOUS
<1> DEFINE x == of(a)  y == of(b)  z == of(a \o b)
<1>5. z = x \o y
  <2>1. Len(z) = Len(x) + Len(y) /\ \A i \in 1 .. Len(x) + Len(y) : z[i] = (x \o y)[i]
    BY <1>3, <1>4
  <2> HIDE DEF x, y, z, Q, of
  <2>2. x \in Seq(Q) /\ y \in Seq(Q) /\ z \in Seq(Q)
    BY <1>2 DEF x, y, z
  <2> QED BY <2>1, <2>2, SameConcat
<1>6. FlattenSeq(x \o y) = FlattenSeq(x) \o FlattenSeq(y)
  <2> HIDE DEF x, y
  <2> QED BY <1>2, FlattenConcat DEF x, y
<1> QED BY <1>5, <1>6 DEF Flat

LEMMA FlatOne ==
  ASSUME NEW f \in AnyFrames
  PROVE  Flat(<<f>>) = f.items /\ f.items \in Seq(Items)
<1>1. [i \in DOMAIN <<f>> |-> <<f>>[i].items] = Append(<<>>, f.items)
  OBVIOUS
<1>2. f.items \in Seq(Items) /\ <<>> \in Seq(Seq(Items))
  BY DEF AnyFrames
<1>3. FlattenSeq(Append(<<>>, f.items)) = <<>> \o f.items
  BY <1>2, FlattenEmpty, FlattenAppend
<1>4. <<>> \o f.items = f.items
  BY <1>2
<1> QED BY <1>1, <1>2, <1>3, <1>4 DEF Flat

LEMMA ArrivingType ==
  ASSUME NEW p, NEW a \in Seq(AnyFrames)
  PROVE  Arriving(p, a) \in Seq(AnyFrames)
BY AtType DEF Arriving

LEMMA ArrivingConcat ==
  ASSUME NEW p, NEW a \in Seq(AnyFrames), NEW b \in Seq(AnyFrames)
  PROVE  Arriving(p, a \o b) = Arriving(p, a) \o Arriving(p, b)
<1> DEFINE his(u) == {i \in DOMAIN u : u[i].to \in {p, Everyone}}
           all == his(a \o b)  last == his(b)
<1>1. \A j \in DOMAIN b : j \in last <=> j + Len(a) \in all
  OBVIOUS
<1>2. \A i \in DOMAIN a : i \in all <=> i \in his(a)
  OBVIOUS
<1>3. At(a, all) = At(a, his(a))
  BY <1>2, AtSame
<1>4. At(a \o b, all) = At(a, all) \o At(b, last)
  <2> HIDE DEF all, last
  <2> QED BY <1>1, AtConcat, SMTT(30)
<1> QED BY <1>3, <1>4 DEF Arriving

LEMMA ForType ==
  ASSUME NEW p, NEW a \in Seq(AnyFrames)
  PROVE  For(p, a) \in Seq(Items)
BY ArrivingType, FlatIs DEF For

LEMMA ForEmpty == ASSUME NEW p PROVE For(p, <<>>) = <<>>
BY AtEmpty, FlatEmpty DEF For, Arriving

LEMMA ForConcat ==
  ASSUME NEW p, NEW a \in Seq(AnyFrames), NEW b \in Seq(AnyFrames)
  PROVE  For(p, a \o b) = For(p, a) \o For(p, b)
<1>1. Arriving(p, a \o b) = Arriving(p, a) \o Arriving(p, b)
  BY ArrivingConcat
<1>2. Arriving(p, a) \in Seq(AnyFrames) /\ Arriving(p, b) \in Seq(AnyFrames)
  BY ArrivingType
<1> QED BY <1>1, <1>2, FlatConcat DEF For

(* All frames are for the same.                                            *)
LEMMA ForSame ==
  ASSUME NEW p, NEW to, NEW a \in Seq(AnyFrames), \A i \in DOMAIN a : a[i].to = to
  PROVE  For(p, a) = IF to \in {p, Everyone} THEN Flat(a) ELSE <<>>
<1> DEFINE his == {i \in DOMAIN a : a[i].to \in {p, Everyone}}
<1>1. CASE to \in {p, Everyone}
  <2>1. DOMAIN a \subseteq his
    BY <1>1
  <2>2. At(a, his) = a
    <3> HIDE DEF his
    <3> QED BY <2>1, AtAll
  <2> QED BY <1>1, <2>2 DEF For, Arriving
<1>2. CASE to \notin {p, Everyone}
  <2>1. DOMAIN a \cap his = {}
    BY <1>2
  <2>2. At(a, his) = <<>>
    <3> HIDE DEF his
    <3> QED BY <2>1, AtNone
  <2> QED BY <1>2, <2>2, FlatEmpty DEF For, Arriving
<1> QED BY <1>1, <1>2

LEMMA ForOne ==
  ASSUME NEW p, NEW f \in AnyFrames
  PROVE  For(p, <<f>>) = IF f.to \in {p, Everyone} THEN f.items ELSE <<>>
<1>1. <<f>> \in Seq(AnyFrames) /\ \A i \in DOMAIN <<f>> : <<f>>[i].to = f.to
  BY Single
<1> QED BY <1>1, ForSame, FlatOne

(* A fire of len items makes count frames, all but the last full.          *)
LEMMA Chunks ==
  ASSUME NEW len \in Nat, NEW M \in Nat \ {0}, NEW count, count = (len + M - 1) \div M
  PROVE  /\ count \in Nat
         /\ count * M >= len
         /\ \A i \in 1 .. count : (i - 1) * M < len /\ (i - 1) * M \in Nat
<1>1. count \in Nat /\ count * M <= len + M - 1 /\ len + M - 1 < count * M + M
  OBVIOUS
<1>2. ASSUME NEW i \in 1 .. count PROVE (i - 1) * M <= (count - 1) * M /\ (i - 1) * M \in Nat
  OBVIOUS
<1>3. (count - 1) * M = count * M - M /\ count * M \in Nat
  BY <1>1
<1> QED BY <1>1, <1>2, <1>3

LEMMA ConcatIs ==
  ASSUME NEW S, NEW s \in Seq(S), NEW t \in Seq(S)
  PROVE  \A i \in 1 .. Len(t) : (s \o t)[Len(s) + i] = t[i]
<1> SUFFICES ASSUME NEW i \in 1 .. Len(t) PROVE (s \o t)[Len(s) + i] = t[i]
  OBVIOUS
<1>1. Len(s) \in Nat /\ Len(t) \in Nat /\ Len(s) + i \in 1 .. Len(s) + Len(t) /\ ~(Len(s) + i <= Len(s))
      /\ (Len(s) + i) - Len(s) = i
  OBVIOUS
<1>2. (s \o t)[Len(s) + i] = t[(Len(s) + i) - Len(s)]
  BY <1>1
<1> QED BY <1>1, <1>2

LEMMA SubSeqJoins ==
  ASSUME NEW S, NEW s \in Seq(S), NEW a \in 0 .. Len(s), NEW b \in a .. Len(s)
  PROVE  /\ SubSeq(s, a + 1, b) \in Seq(S) /\ Len(SubSeq(s, a + 1, b)) = b - a
         /\ SubSeq(s, 1, a) \o SubSeq(s, a + 1, b) = SubSeq(s, 1, b)
<1> DEFINE x == SubSeq(s, 1, a)  y == SubSeq(s, a + 1, b)  z == SubSeq(s, 1, b)
<1>1. x \in Seq(S) /\ y \in Seq(S) /\ z \in Seq(S) /\ Len(x) = a /\ Len(y) = b - a /\ Len(z) = b
  OBVIOUS
<1>2. ASSUME NEW i \in 1 .. b PROVE z[i] = (x \o y)[i]
  <2>1. CASE i <= a
    BY <2>1
  <2>2. CASE ~(i <= a)
    <3>1. (x \o y)[i] = y[i - a] /\ i - a \in 1 .. b - a
      <4> HIDE DEF x, y, z
      <4>1. i - a \in 1 .. b - a /\ a + (i - a) = i
        BY <2>2
      <4>2. (x \o y)[Len(x) + (i - a)] = y[i - a]
        BY ONLY <1>1, <4>1, ConcatIs
      <4> QED BY <1>1, <4>1, <4>2
    <3>2. y[i - a] = s[i - a + (a + 1) - 1]
      BY <3>1
    <3> QED BY <3>1, <3>2
  <2> QED BY <2>1, <2>2
<1> HIDE DEF x, y, z
<1>3. z = x \o y
  <2>1. Len(z) = Len(x) + Len(y) /\ 1 .. Len(x) + Len(y) = 1 .. b
    BY <1>1
  <2> QED BY <1>1, <1>2, <2>1, SameConcat
<1> QED BY <1>1, <1>3 DEF x, y, z

LEMMA SplitIs ==
  ASSUME NEW f \in AnyFrames
  PROVE  /\ Split(f) \in Seq(AnyFrames) /\ Sendable(Split(f))
         /\ \A i \in DOMAIN Split(f) : Split(f)[i].to = f.to
         /\ Flat(Split(f)) = f.items
<1> DEFINE items == f.items  len == Len(items)  M == MaxFrameItems
           count == (len + M - 1) \div M
           end(n) == IF n = count THEN len ELSE n * M
           chunk(i) == SubSeq(items, (i - 1) * M + 1, end(i))
<1>1. items \in Seq(Items) /\ len \in Nat /\ M \in Nat \ {0} /\ f.to \in Recipients
  BY OutboxAssumption DEF AnyFrames
<1>2. /\ count \in Nat /\ count * M >= len
      /\ \A i \in 1 .. count : (i - 1) * M < len /\ (i - 1) * M \in Nat
  <2> HIDE DEF len, M
  <2>1. \A c : c = (len + M - 1) \div M => c \in Nat /\ c * M >= len
          /\ \A i \in 1 .. c : (i - 1) * M < len /\ (i - 1) * M \in Nat
    BY <1>1, Chunks
  <2> QED BY <2>1
<1>3. Split(f) = [i \in 1 .. count |-> Frame(f.to, chunk(i))]
  BY DEF Split
<1> HIDE DEF items, len, M, count
<1>4. ASSUME NEW i \in 1 .. count
      PROVE  /\ end(i) \in (i - 1) * M .. len /\ end(i) - (i - 1) * M \in 1 .. M
             /\ i # count => end(i) = ((i + 1) - 1) * M
  <2>1. (i - 1) * M < len /\ (i - 1) * M \in Nat /\ (i - 1) * M + M = i * M
    BY <1>1, <1>2
  <2>2. CASE i = count
    BY <1>1, <1>2, <2>1, <2>2
  <2>3. CASE i # count
    <3>1. i + 1 \in 1 .. count /\ (i + 1) - 1 = i
      BY <1>2, <2>3
    <3>2. i * M < len /\ i * M \in Nat
      BY <1>2, <3>1
    <3> QED BY <1>1, <2>1, <2>3, <3>1, <3>2
  <2> QED BY <2>2, <2>3
<1> HIDE DEF end
<1>5. ASSUME NEW i \in 1 .. count
      PROVE  /\ chunk(i) \in Seq(Items) /\ Len(chunk(i)) \in 1 .. M
             /\ SubSeq(items, 1, (i - 1) * M) \o chunk(i) = SubSeq(items, 1, end(i))
  <2>1. (i - 1) * M \in 0 .. Len(items) /\ end(i) \in (i - 1) * M .. Len(items)
    BY <1>1, <1>2, <1>4 DEF len
  <2>2. /\ chunk(i) \in Seq(Items) /\ Len(chunk(i)) = end(i) - (i - 1) * M
        /\ SubSeq(items, 1, (i - 1) * M) \o chunk(i) = SubSeq(items, 1, end(i))
    BY <1>1, <2>1, SubSeqJoins
  <2> QED BY <1>4, <2>2
<1> DEFINE frame(i) == Frame(f.to, chunk(i))
<1>6. ASSUME NEW i \in 1 .. count
      PROVE  frame(i) \in AnyFrames /\ frame(i).to = f.to /\ frame(i).items = chunk(i)
  BY <1>1, <1>5 DEF Frame, AnyFrames
<1> HIDE DEF chunk, frame
<1>7. Split(f) \in Seq(AnyFrames) /\ Len(Split(f)) = count /\ \A i \in 1 .. count : Split(f)[i] = frame(i)
  BY <1>2, <1>3, <1>6 DEF frame
<1>8. Sendable(Split(f)) /\ \A i \in DOMAIN Split(f) : Split(f)[i].to = f.to
  <2>1. DOMAIN Split(f) = 1 .. count
    BY <1>7
  <2> QED BY <1>5, <1>6, <1>7, <2>1 DEF Sendable, M
<1> DEFINE head(n) == [i \in 1 .. n |-> frame(i)]
           Has(n) == n <= count => Flat(head(n)) = SubSeq(items, 1, IF n = 0 THEN 0 ELSE end(n))
           Reached == {n \in Nat : Has(n)}
<1>9. Has(0)
  <2>1. head(0) = <<>> /\ SubSeq(items, 1, 0) = <<>>
    BY <1>1
  <2> QED BY <2>1, FlatEmpty
<1>10. ASSUME NEW n \in Nat, Has(n) PROVE Has(n + 1)
  <2> SUFFICES ASSUME n + 1 <= count PROVE Flat(head(n + 1)) = SubSeq(items, 1, end(n + 1))
    OBVIOUS
  <2>1. n + 1 \in 1 .. count /\ \A i \in 1 .. n : i \in 1 .. count
    BY <1>2
  <2>2. head(n) \in Seq(AnyFrames) /\ <<frame(n + 1)>> \in Seq(AnyFrames)
    BY <1>6, <2>1
  <2>3. head(n + 1) = head(n) \o <<frame(n + 1)>>
    OBVIOUS
  <2>4. Flat(head(n + 1)) = Flat(head(n)) \o chunk(n + 1)
    <3> HIDE DEF head
    <3> QED BY <1>6, <2>1, <2>2, <2>3, FlatConcat, FlatOne
  <2>5. (IF n = 0 THEN 0 ELSE end(n)) = ((n + 1) - 1) * M
    <3>1. CASE n = 0
      <4>1. (0 + 1) - 1 = 0 /\ 0 * M = 0
        BY <1>1
      <4> QED BY <3>1, <4>1
    <3>2. CASE n # 0
      <4>1. n \in 1 .. count /\ n # count
        BY <2>1, <3>2, <1>2
      <4> QED BY <1>4, <3>2, <4>1
    <3> QED BY <3>1, <3>2
  <2>6. Flat(head(n)) = SubSeq(items, 1, ((n + 1) - 1) * M)
    <3>1. n <= count
      BY <1>2
    <3> QED BY <1>10, <2>5, <3>1
  <2> QED BY <1>5, <2>1, <2>4, <2>6
<1>11. Has(count)
  <2> HIDE DEF Has
  <2>1. 0 \in Reached /\ \A n \in Nat : n \in Reached => n + 1 \in Reached
    BY <1>9, <1>10
  <2>2. Nat \subseteq Reached
    <3> HIDE DEF Reached
    <3> QED BY <2>1, AllNaturals
  <2> QED BY <1>2, <2>2
<1>12. Flat(head(count)) = items
  <2>1. CASE count = 0
    <3>1. len = 0
      BY <1>1, <1>2, <2>1
    <3>2. SubSeq(items, 1, 0) = items
      BY <1>1, <3>1 DEF len
    <3> QED BY <1>2, <1>11, <2>1, <3>2
  <2>2. CASE count # 0
    <3>1. end(count) = len
      BY DEF end
    <3>2. SubSeq(items, 1, len) = items
      BY <1>1 DEF len
    <3>3. Flat(head(count)) = SubSeq(items, 1, end(count))
      <4> HIDE DEF head
      <4> QED BY <1>2, <1>11, <2>2
    <3> QED BY <3>1, <3>2, <3>3
  <2> QED BY <2>1, <2>2
<1>13. Split(f) = head(count)
  BY <1>3 DEF frame
<1> QED BY <1>7, <1>8, <1>12, <1>13 DEF items

-----------------------------------------------------------------------------
(* Splitting fires changes neither what they hold nor for whom.            *)
SplitAll(fires) == FlattenSeq([i \in DOMAIN fires |-> Split(fires[i])])

LEMMA SplitAllAppend ==
  ASSUME NEW a \in Seq(AnyFrames), NEW f \in AnyFrames
  PROVE  SplitAll(a) \in Seq(AnyFrames) /\ SplitAll(Append(a, f)) = SplitAll(a) \o Split(f)
<1> DEFINE parts(s) == [i \in DOMAIN s |-> Split(s[i])]
<1>1. parts(a) \in Seq(Seq(AnyFrames)) /\ Split(f) \in Seq(AnyFrames)
  <2> DEFINE Q == Seq(AnyFrames)
  <2>1. \A g \in AnyFrames : Split(g) \in Q
    BY SplitIs
  <2> HIDE DEF Q
  <2>2. \A i \in 1 .. Len(a) : Split(a[i]) \in Q
    BY <2>1
  <2>3. parts(a) \in Seq(Q) /\ Split(f) \in Q
    BY <2>1, <2>2
  <2> QED BY <2>3 DEF Q
<1>2. parts(Append(a, f)) = Append(parts(a), Split(f))
  <2>1. DOMAIN Append(a, f) = 1 .. Len(a) + 1 /\ Len(a) \in Nat
    OBVIOUS
  <2>2. \A i \in 1 .. Len(a) + 1 : Append(a, f)[i] = IF i = Len(a) + 1 THEN f ELSE a[i]
    OBVIOUS
  <2> DEFINE y == Append(parts(a), Split(f))
  <2>3. y = [i \in 1 .. Len(a) + 1 |-> IF i = Len(a) + 1 THEN Split(f) ELSE Split(a[i])]
    BY <1>1
  <2>4. parts(Append(a, f)) = [i \in 1 .. Len(a) + 1 |-> IF i = Len(a) + 1 THEN Split(f) ELSE Split(a[i])]
    BY <2>1, <2>2
  <2> QED BY <2>3, <2>4
<1> HIDE DEF parts
<1>3. FlattenSeq(parts(a)) \in Seq(AnyFrames)
      /\ FlattenSeq(Append(parts(a), Split(f))) = FlattenSeq(parts(a)) \o Split(f)
  BY <1>1, FlattenAppend
<1> QED BY <1>2, <1>3 DEF SplitAll, parts

LEMMA SplitAllIs ==
  ASSUME NEW a \in Seq(AnyFrames)
  PROVE  /\ SplitAll(a) \in Seq(AnyFrames) /\ Sendable(SplitAll(a))
         /\ Flat(SplitAll(a)) = Flat(a)
         /\ \A p : For(p, SplitAll(a)) = For(p, a)
<1> DEFINE Holds(s) == /\ SplitAll(s) \in Seq(AnyFrames) /\ Sendable(SplitAll(s))
                       /\ Flat(SplitAll(s)) = Flat(s)
                       /\ \A p : For(p, SplitAll(s)) = For(p, s)
           Reached == {s \in Seq(AnyFrames) : Holds(s)}
<1>1. Holds(<<>>)
  <2>1. SplitAll(<<>>) = <<>>
    <3>1. [i \in DOMAIN <<>> |-> Split((<<>>)[i])] = <<>>
      OBVIOUS
    <3> QED BY <3>1, FlattenEmpty DEF SplitAll
  <2>2. Sendable(<<>>) /\ <<>> \in Seq(AnyFrames)
    BY DEF Sendable
  <2> QED BY <2>1, <2>2
<1>2. ASSUME NEW s \in Seq(AnyFrames), NEW f \in AnyFrames, Holds(s) PROVE Holds(Append(s, f))
  <2>1. SplitAll(s) \in Seq(AnyFrames) /\ SplitAll(Append(s, f)) = SplitAll(s) \o Split(f)
    BY SplitAllAppend
  <2>2. /\ Split(f) \in Seq(AnyFrames) /\ Sendable(Split(f)) /\ Flat(Split(f)) = f.items
        /\ \A i \in DOMAIN Split(f) : Split(f)[i].to = f.to
    BY SplitIs
  <2>3. <<f>> \in Seq(AnyFrames) /\ Append(s, f) = s \o <<f>>
    BY Single, AppendIsConcat
  <2> DEFINE x == SplitAll(s)  y == Split(f)
  <2> HIDE DEF x, y
  <2>4. x \o y \in Seq(AnyFrames) /\ Sendable(x \o y)
    <3>1. /\ x \in Seq(AnyFrames) /\ y \in Seq(AnyFrames)
          /\ \A i \in 1 .. Len(x) : Len(x[i].items) \in 1 .. MaxFrameItems
          /\ \A i \in 1 .. Len(y) : Len(y[i].items) \in 1 .. MaxFrameItems
      BY <1>2, <2>1, <2>2 DEF x, y, Sendable
    <3>2. x \o y \in Seq(AnyFrames) /\ DOMAIN (x \o y) = 1 .. Len(x) + Len(y)
      BY <3>1
    <3>3. ASSUME NEW i \in 1 .. Len(x) + Len(y) PROVE Len((x \o y)[i].items) \in 1 .. MaxFrameItems
      <4>1. CASE i <= Len(x)
        <5>1. (x \o y)[i] = x[i] /\ i \in 1 .. Len(x)
          BY <3>1, <4>1
        <5> QED BY <3>1, <5>1
      <4>2. CASE ~(i <= Len(x))
        <5>1. (x \o y)[i] = y[i - Len(x)] /\ i - Len(x) \in 1 .. Len(y)
          BY <3>1, <4>2
        <5> QED BY <3>1, <5>1
      <4> QED BY <4>1, <4>2
    <3> QED BY <3>2, <3>3 DEF Sendable
  <2>5. Flat(x \o y) = Flat(Append(s, f))
    <3>1. Flat(x \o y) = Flat(x) \o Flat(y)
      BY <2>1, <2>2, FlatConcat DEF x, y
    <3>2. Flat(Append(s, f)) = Flat(s) \o f.items
      BY <2>3, FlatConcat, FlatOne
    <3> QED BY <1>2, <2>2, <3>1, <3>2 DEF x, y
  <2>6. ASSUME NEW p PROVE For(p, x \o y) = For(p, Append(s, f))
    <3>1. For(p, x \o y) = For(p, x) \o For(p, y)
      BY <2>1, <2>2, ForConcat DEF x, y
    <3>2. For(p, s \o <<f>>) = For(p, s) \o For(p, <<f>>)
      BY <2>3, ForConcat
    <3>3. For(p, y) = For(p, <<f>>)
      <4>1. For(p, y) = IF f.to \in {p, Everyone} THEN Flat(y) ELSE <<>>
        BY <2>2, ForSame DEF y
      <4>2. For(p, <<f>>) = IF f.to \in {p, Everyone} THEN f.items ELSE <<>>
        BY ForOne
      <4> QED BY <2>2, <4>1, <4>2 DEF y
    <3> QED BY <1>2, <2>3, <3>1, <3>2, <3>3 DEF x
  <2> QED BY <2>1, <2>4, <2>5, <2>6 DEF x, y
<1>3. Holds(a)
  <2> HIDE DEF Holds
  <2>1. <<>> \in Reached /\ \A s \in Seq(AnyFrames), f \in AnyFrames : s \in Reached => Append(s, f) \in Reached
    BY <1>1, <1>2
  <2>2. Seq(AnyFrames) \subseteq Reached
    <3> HIDE DEF Reached
    <3> QED BY <2>1, AllSequences
  <2> QED BY <2>2
<1> QED BY <1>3

(* A sequence, cut at one of its elements.                                 *)
CutAt(S, s, k, a, b) ==
  /\ a \o b = RemoveAt(s, k) /\ s = a \o (<<s[k]>> \o b)
  /\ \A x \in S : [s EXCEPT ![k] = x] = a \o (<<x>> \o b)
  /\ \A i \in 1 .. Len(b) : k + i \in k + 1 .. Len(s) /\ b[i] = s[k + i]

LEMMA Cut ==
  ASSUME NEW S, NEW s \in Seq(S), NEW k \in 1 .. Len(s)
  PROVE  \E a, b \in Seq(S) : CutAt(S, s, k, a, b)
<1> DEFINE a == SubSeq(s, 1, k - 1)  b == SubSeq(s, k + 1, Len(s))
<1>1. /\ a \in Seq(S) /\ b \in Seq(S) /\ Len(a) = k - 1 /\ Len(b) = Len(s) - k
      /\ k \in Nat /\ Len(s) \in Nat
  OBVIOUS
<1>2. \A i \in 1 .. k - 1 : a[i] = s[i]
  OBVIOUS
<1>3. ASSUME NEW i \in 1 .. Len(b) PROVE k + i \in k + 1 .. Len(s) /\ b[i] = s[k + i]
  <2>1. i \in 1 .. Len(s) - k /\ (k + 1) + i - 1 = k + i
    BY <1>1
  <2>2. b[i] = s[(k + 1) + i - 1]
    BY <2>1
  <2> QED BY <2>1, <2>2
<1>4. a \o b = RemoveAt(s, k)
  BY DEF RemoveAt
<1> HIDE DEF a, b
<1>5. ASSUME NEW x \in S PROVE [s EXCEPT ![k] = x] = a \o (<<x>> \o b)
  <2> DEFINE y == [s EXCEPT ![k] = x]  t == <<x>> \o b
  <2>1. /\ t \in Seq(S) /\ Len(t) = Len(b) + 1 /\ t[1] = x
        /\ \A i \in 1 .. Len(b) : t[i + 1] = b[i]
    <3> DEFINE u == <<x>>
    <3>1. u \in Seq(S) /\ Len(u) = 1 /\ u[1] = x
      BY Single
    <3> HIDE DEF u
    <3>2. t \in Seq(S) /\ Len(t) = Len(b) + 1 /\ t[1] = x
      BY <1>1, <3>1, SMTT(30) DEF u
    <3>3. ASSUME NEW i \in 1 .. Len(b) PROVE t[i + 1] = b[i]
      <4>1. (u \o b)[Len(u) + i] = b[i]
        BY <1>1, <3>1, ConcatIs
      <4>2. Len(u) + i = i + 1
        BY <3>1
      <4> QED BY <4>1, <4>2 DEF u
    <3> QED BY <3>2, <3>3
  <2>2. /\ y \in Seq(S) /\ Len(y) = Len(s) /\ y[k] = x
        /\ \A i \in 1 .. Len(s) : i # k => y[i] = s[i]
    OBVIOUS
  <2> HIDE DEF y, t
  <2>3. ASSUME NEW i \in 1 .. Len(a) + Len(t) PROVE y[i] = (a \o t)[i]
    <3>1. CASE i < k
      <4>1. i \in 1 .. Len(a) /\ i \in 1 .. Len(s) /\ i \in 1 .. k - 1 /\ i # k
        BY <1>1, <3>1
      <4>2. (a \o t)[i] = a[i]
        BY <1>1, <2>1, <4>1
      <4> QED BY <1>2, <2>2, <4>1, <4>2
    <3>2. CASE i = k
      <4>1. (a \o t)[i] = t[1]
        BY <1>1, <2>1, <3>2
      <4> QED BY <2>1, <2>2, <3>2, <4>1
    <3>3. CASE i > k
      <4>0. /\ i \in Nat /\ k \in Nat /\ Len(s) \in Nat /\ k >= 1 /\ k <= Len(s) /\ i > k
            /\ Len(a) = k - 1 /\ Len(b) = Len(s) - k /\ Len(t) = Len(b) + 1 /\ i <= Len(a) + Len(t)
        BY <1>1, <2>1, <3>3
      <4>1. /\ i - k \in 1 .. Len(b) /\ (i - k) + 1 = i - (k - 1) /\ k + (i - k) = i /\ i \in 1 .. Len(s) /\ i # k
            /\ i - (k - 1) \in 1 .. Len(t) /\ Len(a) + (i - (k - 1)) = i
        BY ONLY <4>0
      <4>2. (a \o t)[i] = t[i - (k - 1)]
        <5>1. a \in Seq(S) /\ t \in Seq(S)
          BY <1>1, <2>1
        <5>2. (a \o t)[Len(a) + (i - (k - 1))] = t[i - (k - 1)]
          BY ONLY <4>1, <5>1, ConcatIs
        <5> QED BY <4>1, <5>2
      <4>3. t[(i - k) + 1] = b[i - k] /\ b[i - k] = s[k + (i - k)]
        BY <1>3, <2>1, <4>1
      <4> QED BY <2>2, <4>1, <4>2, <4>3
    <3> QED BY <1>1, <3>1, <3>2, <3>3
  <2>4. Len(y) = Len(a) + Len(t)
    BY <1>1, <2>1, <2>2
  <2>5. y = a \o t
    BY <1>1, <2>1, <2>2, <2>3, <2>4, SameConcat
  <2> QED BY <2>5 DEF y, t
<1>6. s = a \o (<<s[k]>> \o b)
  <2>1. s[k] \in S /\ s = [s EXCEPT ![k] = s[k]]
    OBVIOUS
  <2> QED BY <1>5, <2>1
<1>7. CutAt(S, s, k, a, b)
  BY <1>3, <1>4, <1>5, <1>6 DEF CutAt
<1> QED BY <1>1, <1>7

(* The queue, and how many items of a kind.                                *)
Number(kind, items) == Len(OfKind(items, {kind}))

LEMMA NumberConcat ==
  ASSUME NEW kind, NEW s \in Seq(Items), NEW t \in Seq(Items)
  PROVE  /\ Number(kind, s) \in Nat /\ Number(kind, t) \in Nat
         /\ Number(kind, s \o t) = Number(kind, s) + Number(kind, t)
<1>1. OfKind(s, {kind}) \in Seq(Items) /\ OfKind(t, {kind}) \in Seq(Items)
  BY OfKindType
<1>2. OfKind(s \o t, {kind}) = OfKind(s, {kind}) \o OfKind(t, {kind})
  BY OfKindConcat
<1> QED BY <1>1, <1>2 DEF Number

LEMMA NumberSmall ==
  ASSUME NEW kind
  PROVE  /\ Number(kind, <<>>) = 0
         /\ \A x : Number(kind, <<x>>) = IF x.kind = kind THEN 1 ELSE 0
<1>1. Number(kind, <<>>) = 0
  BY OfKindEmpty DEF Number
<1>2. ASSUME NEW x PROVE Number(kind, <<x>>) = IF x.kind = kind THEN 1 ELSE 0
  <2>1. OfKind(<<x>>, {kind}) = IF x.kind \in {kind} THEN <<x>> ELSE <<>>
    BY OfKindOne
  <2> QED BY <2>1 DEF Number
<1> QED BY <1>1, <1>2

LEMMA ItemsInConcat ==
  ASSUME NEW a \in Seq(QueuedItems), NEW b \in Seq(QueuedItems)
  PROVE  ItemsIn(a) \in Seq(Items) /\ ItemsIn(b) \in Seq(Items) /\ ItemsIn(a \o b) = ItemsIn(a) \o ItemsIn(b)
<1> DEFINE x == ItemsIn(a)  y == ItemsIn(b)  z == ItemsIn(a \o b)
<1>0. \A q \in QueuedItems : q.item \in Items
  BY DEF QueuedItems
<1>1. a \o b \in Seq(QueuedItems) /\ Len(a \o b) = Len(a) + Len(b)
  OBVIOUS
<1>2. x \in Seq(Items) /\ y \in Seq(Items) /\ z \in Seq(Items)
  <2>1. ASSUME NEW s \in Seq(QueuedItems) PROVE ItemsIn(s) \in Seq(Items)
    <3>1. \A i \in 1 .. Len(s) : s[i].item \in Items
      BY <1>0
    <3> QED BY <3>1 DEF ItemsIn
  <2> QED BY <1>1, <2>1
<1>3. Len(x) = Len(a) /\ Len(y) = Len(b) /\ Len(z) = Len(a) + Len(b)
  BY <1>1 DEF ItemsIn
<1>4. ASSUME NEW i \in 1 .. Len(a) + Len(b) PROVE z[i] = (x \o y)[i]
  BY DEF ItemsIn
<1> HIDE DEF x, y, z
<1>5. z = x \o y
  BY <1>2, <1>3, <1>4, SameConcat
<1> QED BY <1>2, <1>5 DEF x, y, z

LEMMA MineType ==
  ASSUME NEW p, NEW a \in Seq(QueuedItems)
  PROVE  Mine(p, a) \in Seq(Items)
BY ItemsInConcat, AtType DEF Mine

LEMMA MineEmpty == ASSUME NEW p PROVE Mine(p, <<>>) = <<>>
<1>1. ItemsIn(<<>>) = <<>>
  BY DEF ItemsIn
<1> QED BY <1>1, AtEmpty DEF Mine

LEMMA MineConcat ==
  ASSUME NEW p, NEW a \in Seq(QueuedItems), NEW b \in Seq(QueuedItems)
  PROVE  Mine(p, a \o b) = Mine(p, a) \o Mine(p, b)
<1> DEFINE his(u) == {i \in DOMAIN u : u[i].to \in {p, Everyone}}
           all == his(a \o b)  last == his(b)
<1>1. \A j \in DOMAIN b : j \in last <=> j + Len(a) \in all
  OBVIOUS
<1>2. \A i \in DOMAIN a : i \in all <=> i \in his(a)
  OBVIOUS
<1>3. /\ ItemsIn(a) \in Seq(Items) /\ ItemsIn(b) \in Seq(Items)
      /\ ItemsIn(a \o b) = ItemsIn(a) \o ItemsIn(b)
      /\ DOMAIN ItemsIn(a) = DOMAIN a /\ DOMAIN ItemsIn(b) = DOMAIN b /\ Len(ItemsIn(a)) = Len(a)
  <2>1. DOMAIN ItemsIn(a) = DOMAIN a /\ DOMAIN ItemsIn(b) = DOMAIN b /\ Len(ItemsIn(a)) = Len(a)
    BY DEF ItemsIn
  <2> QED BY <2>1, ItemsInConcat
<1>4. At(ItemsIn(a), all) = At(ItemsIn(a), his(a))
  BY <1>2, <1>3, AtSame
<1>5. At(ItemsIn(a) \o ItemsIn(b), all) = At(ItemsIn(a), all) \o At(ItemsIn(b), last)
  <2> DEFINE x == ItemsIn(a)  y == ItemsIn(b)
  <2> HIDE DEF all, last, x, y
  <2>1. x \in Seq(Items) /\ y \in Seq(Items) /\ \A j \in DOMAIN y : j \in last <=> j + Len(x) \in all
    BY <1>1, <1>3 DEF x, y
  <2>2. At(x \o y, all) = At(x, all) \o At(y, last)
    BY <2>1, AtConcat
  <2> QED BY <2>2 DEF x, y
<1> QED BY <1>3, <1>4, <1>5 DEF Mine

LEMMA MineOne ==
  ASSUME NEW p, NEW q
  PROVE  Mine(p, <<q>>) = IF q.to \in {p, Everyone} THEN <<q.item>> ELSE <<>>
<1>1. ItemsIn(<<q>>) = <<q.item>>
  BY DEF ItemsIn
<1> QED BY <1>1, AtOne DEF Mine

-----------------------------------------------------------------------------
(* One more item joins the fires.                                          *)
LEMMA JoinedIs ==
  ASSUME NEW fs \in Seq(AnyFrames), NEW q \in QueuedItems
  PROVE  /\ Joined(fs, q) \in Seq(AnyFrames)
         /\ \A p : For(p, Joined(fs, q)) = For(p, fs) \o Mine(p, <<q>>)
         /\ \A kind : Number(kind, Flat(Joined(fs, q))) = Number(kind, Flat(fs)) + Number(kind, <<q.item>>)
<1> DEFINE J == Joined(fs, q)
<1>0. q.item \in Items /\ q.to \in Recipients /\ <<q.item>> \in Seq(Items)
  BY Single DEF QueuedItems
<1>1. CASE ~\E k \in DOMAIN fs : Joins(fs, q, k)
  <2> DEFINE f == Frame(q.to, <<q.item>>)
  <2>1. f \in AnyFrames /\ f.to = q.to /\ f.items = <<q.item>> /\ <<f>> \in Seq(AnyFrames)
    BY <1>0, Single DEF Frame, AnyFrames
  <2> HIDE DEF f
  <2>2. J = fs \o <<f>>
    BY <1>1, <2>1, AppendIsConcat DEF Joined, f
  <2> HIDE DEF J
  <2>3. J \in Seq(AnyFrames)
    BY <2>1, <2>2
  <2>4. ASSUME NEW p PROVE For(p, J) = For(p, fs) \o Mine(p, <<q>>)
    <3>1. For(p, J) = For(p, fs) \o For(p, <<f>>)
      BY <2>1, <2>2, ForConcat
    <3>2. For(p, <<f>>) = IF q.to \in {p, Everyone} THEN <<q.item>> ELSE <<>>
      BY <2>1, ForOne
    <3> QED BY <3>1, <3>2, MineOne
  <2>5. ASSUME NEW kind PROVE Number(kind, Flat(J)) = Number(kind, Flat(fs)) + Number(kind, <<q.item>>)
    <3>1. Flat(J) = Flat(fs) \o <<q.item>>
      BY <2>1, <2>2, FlatConcat, FlatOne
    <3> QED BY <1>0, <3>1, FlatIs, NumberConcat
  <2> QED BY <2>3, <2>4, <2>5 DEF J
<1>2. CASE \E k \in DOMAIN fs : Joins(fs, q, k)
  <2> DEFINE k == CHOOSE k \in DOMAIN fs : Joins(fs, q, k)
             f == fs[k]  g == Frame(f.to, Append(f.items, q.item))
  <2>1. k \in DOMAIN fs /\ Joins(fs, q, k)
    BY <1>2
  <2>2. J = [fs EXCEPT ![k].items = Append(@, q.item)]
    BY <1>2 DEF Joined
  <2> HIDE DEF k
  <2>3. f \in AnyFrames /\ f.to = q.to /\ f.items \in Seq(Items) /\ f.to \in Recipients
    <3>1. f \in AnyFrames
      BY <2>1
    <3>2. f.to = q.to
      BY <2>1 DEF Joins
    <3> HIDE DEF f
    <3> QED BY <3>1, <3>2 DEF AnyFrames
  <2>4. /\ g \in AnyFrames /\ g.to = q.to /\ g.items = f.items \o <<q.item>>
        /\ [f EXCEPT !.items = Append(@, q.item)] = g
    <3> HIDE DEF f
    <3>1. Append(f.items, q.item) \in Seq(Items) /\ Append(f.items, q.item) = f.items \o <<q.item>>
      BY <1>0, <2>3, AppendIsConcat, SMTT(30)
    <3>2. /\ g \in AnyFrames /\ g.to = q.to /\ g.items = f.items \o <<q.item>>
      BY <2>3, <3>1 DEF Frame, AnyFrames
    <3> DEFINE v == Append(f.items, q.item)
    <3>3. \A z \in AnyFrames, u \in Seq(Items) : [z EXCEPT !.items = u] = [to |-> z.to, items |-> u]
      BY DEF AnyFrames
    <3>4. v \in Seq(Items)
      BY <3>1
    <3> HIDE DEF v
    <3>5. [f EXCEPT !.items = v] = Frame(f.to, v)
      BY <2>3, <3>3, <3>4 DEF Frame
    <3> QED BY <3>2, <3>5 DEF v
  <2>5. J = [fs EXCEPT ![k] = g]
    BY <2>2, <2>4
  <2>6. PICK a \in Seq(AnyFrames), b \in Seq(AnyFrames) :
             (/\ fs = a \o (<<f>> \o b)
              /\ \A x \in AnyFrames : [fs EXCEPT ![k] = x] = a \o (<<x>> \o b)
              /\ \A i \in 1 .. Len(b) : k + i \in k + 1 .. Len(fs) /\ b[i] = fs[k + i])
    <3>1. k \in 1 .. Len(fs)
      BY <2>1
    <3>2. PICK a \in Seq(AnyFrames), b \in Seq(AnyFrames) :
            CutAt(AnyFrames, fs, k, a, b)
      <4> HIDE DEF f, g, J
      <4> QED BY <3>1, Cut
    <3> QED BY <3>2 DEF f, CutAt
  <2>7. \A x \in AnyFrames : <<x>> \o b \in Seq(AnyFrames) /\ <<x>> \in Seq(AnyFrames)
    BY Single, Joining
  <2>9. fs = a \o (<<f>> \o b) /\ J = a \o (<<g>> \o b)
    BY <2>4, <2>5, <2>6
  <2>10. \A i \in DOMAIN b : q.to # Everyone /\ b[i].to \notin {q.to, Everyone}
    <3>1. \A m \in k + 1 .. Len(fs) : q.to # Everyone /\ fs[m].to \notin {q.to, Everyone}
      BY <2>1 DEF Joins
    <3> SUFFICES ASSUME NEW i \in DOMAIN b PROVE q.to # Everyone /\ b[i].to \notin {q.to, Everyone}
      OBVIOUS
    <3>2. k + i \in k + 1 .. Len(fs) /\ b[i] = fs[k + i]
      BY <2>6
    <3> QED BY <3>1, <3>2
  <2> HIDE DEF f, g, J
  <2>11. ASSUME NEW p, NEW x \in AnyFrames
         PROVE  For(p, a \o (<<x>> \o b)) = For(p, a) \o (For(p, <<x>>) \o For(p, b))
    <3>1. <<x>> \in Seq(AnyFrames) /\ <<x>> \o b \in Seq(AnyFrames)
      BY <2>7
    <3>2. For(p, <<x>> \o b) = For(p, <<x>>) \o For(p, b)
      BY <3>1, ForConcat
    <3>3. For(p, a \o (<<x>> \o b)) = For(p, a) \o For(p, <<x>> \o b)
      BY <3>1, ForConcat
    <3> QED BY <3>2, <3>3
  <2>12. ASSUME NEW p PROVE For(p, J) = For(p, fs) \o Mine(p, <<q>>)
    <3>1. For(p, a) \in Seq(Items) /\ For(p, b) \in Seq(Items)
      BY ForType
    <3>2. CASE q.to \in {p, Everyone}
      <4>1. For(p, b) = <<>>
        <5>1. \A i \in DOMAIN b : b[i].to \notin {p, Everyone}
          BY <2>10, <3>2
        <5>2. DOMAIN b \cap {i \in DOMAIN b : b[i].to \in {p, Everyone}} = {}
          BY <5>1
        <5>3. Arriving(p, b) = <<>>
          BY <5>2, AtNone DEF Arriving
        <5> QED BY <5>3, FlatEmpty DEF For
      <4>2. For(p, <<f>>) = f.items /\ For(p, <<g>>) = f.items \o <<q.item>> /\ Mine(p, <<q>>) = <<q.item>>
        BY <2>3, <2>4, <3>2, ForOne, MineOne
      <4>3. For(p, fs) = For(p, a) \o f.items
        <5>1. f.items \o <<>> = f.items
          BY <2>3
        <5> QED BY <2>3, <2>9, <2>11, <4>1, <4>2, <5>1
      <4>4. For(p, J) = For(p, a) \o (f.items \o <<q.item>>)
        <5>1. (f.items \o <<q.item>>) \o <<>> = f.items \o <<q.item>>
          BY <1>0, <2>3
        <5> QED BY <2>4, <2>9, <2>11, <4>1, <4>2, <5>1, ZenonT(30)
      <4>5. (For(p, a) \o f.items) \o <<q.item>> = For(p, a) \o (f.items \o <<q.item>>)
        <5> DEFINE u == f.items  v == <<q.item>>  w == For(p, a)
        <5>1. w \in Seq(Items) /\ u \in Seq(Items) /\ v \in Seq(Items)
          BY <1>0, <2>3, <3>1
        <5> HIDE DEF u, v, w
        <5>2. (w \o u) \o v = w \o (u \o v)
          BY <5>1, AssociateConcat, SMTT(30)
        <5> QED BY <5>2 DEF u, v, w
      <4>6. For(p, J) = (For(p, a) \o f.items) \o <<q.item>>
        BY <4>4, <4>5, Zenon
      <4>7. (For(p, a) \o f.items) \o <<q.item>> = For(p, fs) \o Mine(p, <<q>>)
        BY <4>2, <4>3
      <4> QED BY <4>6, <4>7, Zenon
    <3>3. CASE q.to \notin {p, Everyone}
      <4>1. For(p, <<f>>) = <<>> /\ For(p, <<g>>) = <<>> /\ Mine(p, <<q>>) = <<>>
        BY <2>3, <2>4, <3>3, ForOne, MineOne
      <4>2. For(p, J) = For(p, fs)
        BY <2>3, <2>4, <2>9, <2>11, <4>1
      <4>3. For(p, fs) \o <<>> = For(p, fs)
        <5> DEFINE w == For(p, fs)
        <5>1. w \in Seq(Items)
          BY ForType
        <5> HIDE DEF w
        <5>2. w \o <<>> = w
          BY <5>1
        <5> QED BY <5>2 DEF w
      <4> QED BY <4>1, <4>2, <4>3
    <3> QED BY <3>2, <3>3
  <2>13. ASSUME NEW kind PROVE Number(kind, Flat(J)) = Number(kind, Flat(fs)) + Number(kind, <<q.item>>)
    <3>1. ASSUME NEW x \in AnyFrames
          PROVE  /\ x.items \in Seq(Items) /\ Number(kind, Flat(a)) \in Nat /\ Number(kind, x.items) \in Nat
                 /\ Number(kind, Flat(b)) \in Nat
                 /\ Number(kind, Flat(a \o (<<x>> \o b)))
                      = Number(kind, Flat(a)) + (Number(kind, x.items) + Number(kind, Flat(b)))
      <4>1. Flat(a) \in Seq(Items) /\ Flat(b) \in Seq(Items) /\ x.items \in Seq(Items)
            /\ x.items \o Flat(b) \in Seq(Items)
        BY FlatIs, FlatOne, Joining
      <4>2. Flat(a \o (<<x>> \o b)) = Flat(a) \o (x.items \o Flat(b))
        <5>1. <<x>> \in Seq(AnyFrames) /\ <<x>> \o b \in Seq(AnyFrames)
          BY <2>7
        <5>2. Flat(<<x>> \o b) = Flat(<<x>>) \o Flat(b)
          BY <5>1, FlatConcat
        <5>3. Flat(a \o (<<x>> \o b)) = Flat(a) \o Flat(<<x>> \o b)
          BY <5>1, FlatConcat
        <5> QED BY <5>2, <5>3, FlatOne
      <4> QED BY <4>1, <4>2, NumberConcat
    <3>2. Number(kind, g.items) = Number(kind, f.items) + Number(kind, <<q.item>>) /\ Number(kind, <<q.item>>) \in Nat
      BY <1>0, <2>3, <2>4, NumberConcat
    <3>3. Number(kind, Flat(fs)) = Number(kind, Flat(a)) + (Number(kind, f.items) + Number(kind, Flat(b)))
          /\ Number(kind, f.items) \in Nat /\ Number(kind, Flat(a)) \in Nat /\ Number(kind, Flat(b)) \in Nat
      BY <2>3, <2>9, <3>1
    <3>4. Number(kind, Flat(J)) = Number(kind, Flat(a)) + (Number(kind, g.items) + Number(kind, Flat(b)))
      BY <2>4, <2>9, <3>1
    <3> QED BY <3>2, <3>3, <3>4
  <2>14. J \in Seq(AnyFrames)
    BY <2>4, <2>7, <2>9
  <2> QED BY <2>12, <2>13, <2>14 DEF J
<1> QED BY <1>1, <1>2

LEMMA OneMore ==
  ASSUME NEW S, NEW s \in Seq(S), NEW n \in Nat, n + 1 <= Len(s)
  PROVE  /\ SubSeq(s, 1, n) \in Seq(S) /\ s[n + 1] \in S
         /\ SubSeq(s, 1, n + 1) = SubSeq(s, 1, n) \o <<s[n + 1]>>
<1> DEFINE x == SubSeq(s, n + 1, n + 1)  y == <<s[n + 1]>>
<1>1. n \in 0 .. Len(s) /\ n + 1 \in n .. Len(s) /\ n + 1 \in 1 .. Len(s) /\ (n + 1) - n = 1
  OBVIOUS
<1>2. x \in Seq(S) /\ Len(x) = 1 /\ SubSeq(s, 1, n) \o x = SubSeq(s, 1, n + 1)
  BY <1>1, SubSeqJoins
<1>3. x[1] = s[n + 1]
  BY <1>1
<1>4. s[n + 1] \in S /\ y \in Seq(S) /\ Len(y) = 1 /\ y[1] = s[n + 1]
  BY <1>1, Single
<1>5. x = y
  <2> HIDE DEF x, y
  <2> QED BY <1>2, <1>3, <1>4, SameSequence
<1>6. SubSeq(s, 1, n) \in Seq(S)
  OBVIOUS
<1> QED BY <1>2, <1>4, <1>5, <1>6

(* What the fires hold, and for whom, is what was queued.                  *)
Carries(frames, q) ==
  /\ frames \in Seq(AnyFrames)
  /\ \A p : For(p, frames) = Mine(p, q)
  /\ \A kind : Number(kind, Flat(frames)) = Number(kind, ItemsIn(q))

LEMMA CarriesEmpty == Carries(<<>>, <<>>)
<1>1. ItemsIn(<<>>) = <<>>
  BY DEF ItemsIn
<1>2. <<>> \in Seq(AnyFrames)
  OBVIOUS
<1> QED BY <1>1, <1>2, ForEmpty, MineEmpty, FlatEmpty DEF Carries

LEMMA CarriesJoined ==
  ASSUME NEW frames, NEW q \in Seq(QueuedItems), NEW x \in QueuedItems, Carries(frames, q)
  PROVE  Carries(Joined(frames, x), q \o <<x>>)
<1>1. frames \in Seq(AnyFrames) /\ <<x>> \in Seq(QueuedItems)
  BY Single DEF Carries
<1>2. /\ Joined(frames, x) \in Seq(AnyFrames)
      /\ \A p : For(p, Joined(frames, x)) = For(p, frames) \o Mine(p, <<x>>)
      /\ \A kind : Number(kind, Flat(Joined(frames, x))) = Number(kind, Flat(frames)) + Number(kind, <<x.item>>)
  BY <1>1, JoinedIs
<1>3. \A p : Mine(p, q \o <<x>>) = Mine(p, q) \o Mine(p, <<x>>)
  <2> DEFINE t == <<x>>
  <2>1. t \in Seq(QueuedItems)
    BY <1>1
  <2> HIDE DEF t
  <2>2. \A p : Mine(p, q \o t) = Mine(p, q) \o Mine(p, t)
    BY <2>1, MineConcat
  <2> QED BY <2>2 DEF t
<1>4. ASSUME NEW kind
      PROVE  Number(kind, ItemsIn(q \o <<x>>)) = Number(kind, ItemsIn(q)) + Number(kind, <<x.item>>)
  <2>1. ItemsIn(<<x>>) = <<x.item>>
    BY DEF ItemsIn
  <2> DEFINE t == <<x>>
  <2>2. t \in Seq(QueuedItems)
    BY <1>1
  <2> HIDE DEF t
  <2>3. ItemsIn(q) \in Seq(Items) /\ ItemsIn(t) \in Seq(Items) /\ ItemsIn(q \o t) = ItemsIn(q) \o ItemsIn(t)
    BY <2>2, ItemsInConcat
  <2>4. Number(kind, ItemsIn(q) \o ItemsIn(t)) = Number(kind, ItemsIn(q)) + Number(kind, ItemsIn(t))
    BY <2>3, NumberConcat
  <2> QED BY <2>1, <2>3, <2>4 DEF t
<1>5. \A p : For(p, Joined(frames, x)) = Mine(p, q \o <<x>>)
  BY <1>2, <1>3 DEF Carries
<1>6. \A kind : Number(kind, Flat(Joined(frames, x))) = Number(kind, ItemsIn(q \o <<x>>))
  BY <1>2, <1>4 DEF Carries
<1> QED BY <1>2, <1>5, <1>6 DEF Carries

LEMMA FiresIs ==
  ASSUME NEW q \in Seq(QueuedItems)
  PROVE  Carries(Fires(q), q)
<1> DEFINE A == Seq(AnyFrames)
           step == [x \in A \X QueuedItems |-> Joined(x[1], x[2])]
           Eq(u) == u = [n \in 0 .. Len(q) |-> IF n = 0 THEN <<>> ELSE Joined(u[n - 1], q[n])]
<1>0. Len(q) \in Nat /\ \A n \in 1 .. Len(q) : q[n] \in QueuedItems
  OBVIOUS
<1>1. \A a \in A, b \in QueuedItems : step[<<a, b>>] = Joined(a, b) /\ Joined(a, b) \in A
  <2>1. \A a \in A, b \in QueuedItems : Joined(a, b) \in A
    BY JoinedIs
  <2> HIDE DEF A
  <2> QED BY <2>1
<1>2. FoldsOver(A, QueuedItems, step, <<>>, q)
  <2>1. <<>> \in A
    OBVIOUS
  <2> HIDE DEF A, step
  <2> QED BY <1>1, <2>1 DEF FoldsOver
<1>3. PICK f \in [0 .. Len(q) -> A] :
        f[0] = <<>> /\ \A n \in 1 .. Len(q) : f[n] = step[<<f[n - 1], q[n]>>]
  <2> HIDE DEF A, step
  <2> QED BY <1>2, FoldExists
<1>4. Eq(f)
  <2>1. ASSUME NEW n \in 0 .. Len(q) PROVE f[n] = IF n = 0 THEN <<>> ELSE Joined(f[n - 1], q[n])
    <3>1. CASE n = 0
      BY <1>3, <3>1
    <3>2. CASE n # 0
      <4>1. n \in 1 .. Len(q) /\ n - 1 \in 0 .. Len(q)
        BY <1>0, <3>2
      <4>2. f[n - 1] \in A /\ q[n] \in QueuedItems
        <5> HIDE DEF A
        <5> QED BY <1>0, <4>1
      <4>3. f[n] = step[<<f[n - 1], q[n]>>]
        <5> HIDE DEF A, step
        <5> QED BY <1>3, <4>1
      <4> HIDE DEF A, step
      <4> QED BY <1>1, <3>2, <4>2, <4>3
    <3> QED BY <3>1, <3>2
  <2> HIDE DEF A
  <2>2. f = [n \in 0 .. Len(q) |-> f[n]]
    OBVIOUS
  <2>3. [n \in 0 .. Len(q) |-> f[n]]
          = [n \in 0 .. Len(q) |-> IF n = 0 THEN <<>> ELSE Joined(f[n - 1], q[n])]
    BY <2>1
  <2> QED BY <2>2, <2>3
<1> DEFINE g == CHOOSE u : Eq(u)
<1>5. Eq(g)
  <2> HIDE DEF Eq
  <2> QED BY <1>4
<1>6. Fires(q) = g[Len(q)]
  BY DEF Fires
<1> HIDE DEF g, A, step
<1>7. g[0] = <<>> /\ \A n \in 1 .. Len(q) : g[n] = Joined(g[n - 1], q[n])
  BY <1>0, <1>5
<1> DEFINE Has(n) == n <= Len(q) => Carries(g[n], SubSeq(q, 1, n))
           Reached == {n \in Nat : Has(n)}
<1>8. Has(0)
  <2>1. SubSeq(q, 1, 0) = <<>>
    OBVIOUS
  <2> QED BY <1>7, <2>1, CarriesEmpty
<1>9. ASSUME NEW n \in Nat, Has(n) PROVE Has(n + 1)
  <2> SUFFICES ASSUME n + 1 <= Len(q) PROVE Carries(g[n + 1], SubSeq(q, 1, n + 1))
    OBVIOUS
  <2>1. n + 1 \in 1 .. Len(q) /\ (n + 1) - 1 = n /\ n <= Len(q)
    BY <1>0
  <2>2. g[n + 1] = Joined(g[n], q[n + 1])
    BY <1>7, <2>1
  <2>3. /\ SubSeq(q, 1, n) \in Seq(QueuedItems) /\ q[n + 1] \in QueuedItems
        /\ SubSeq(q, 1, n + 1) = SubSeq(q, 1, n) \o <<q[n + 1]>>
    BY OneMore
  <2>4. Carries(g[n], SubSeq(q, 1, n))
    BY <1>9, <2>1
  <2>5. Carries(Joined(g[n], q[n + 1]), SubSeq(q, 1, n) \o <<q[n + 1]>>)
    BY <2>3, <2>4, CarriesJoined
  <2> QED BY <2>2, <2>3, <2>5
<1>10. Has(Len(q))
  <2> HIDE DEF Has
  <2>1. 0 \in Reached /\ \A n \in Nat : n \in Reached => n + 1 \in Reached
    BY <1>8, <1>9
  <2>2. Nat \subseteq Reached
    <3> HIDE DEF Reached
    <3> QED BY <2>1, AllNaturals
  <2> QED BY <1>0, <2>2
<1>11. SubSeq(q, 1, Len(q)) = q
  OBVIOUS
<1> QED BY <1>0, <1>6, <1>10, <1>11

(* A flush sends the queue: to every player its items in order, in frames  *)
(* that may be sent.                                                       *)
LEMMA FramesIs ==
  ASSUME NEW q \in Seq(QueuedItems)
  PROVE  Carries(Frames(q), q) /\ Sendable(Frames(q))
<1>1. Frames(q) = SplitAll(Fires(q))
  BY DEF Frames, SplitAll
<1>2. Carries(Fires(q), q)
  BY FiresIs
<1> DEFINE a == Fires(q)
<1> HIDE DEF a
<1>3. a \in Seq(AnyFrames)
  BY <1>2 DEF Carries, a
<1>4. /\ SplitAll(a) \in Seq(AnyFrames) /\ Sendable(SplitAll(a))
      /\ Flat(SplitAll(a)) = Flat(a)
      /\ \A p : For(p, SplitAll(a)) = For(p, a)
  BY <1>3, SplitAllIs
<1> QED BY <1>1, <1>2, <1>4 DEF Carries, a

Kinds == {"signal", "response", "state"}
IdCounts == UNION {[ids -> Nat] : ids \in SUBSET (Signals \cup {Other})}
AllCounts == [frames: Nat, response: Nat, signal: Nat, state: Nat, signals: IdCounts]

(* What the metrics keep of the signals: few ids, and all of the signals.  *)
FewIds(m) ==
  /\ m \in AllCounts
  /\ IsFiniteSet(DOMAIN m.signals) /\ Cardinality(DOMAIN m.signals \ {Other}) <= MaxKeys
  /\ Total(m.signals) = m.signal

LEMMA IdCountsIs ==
  /\ \A map \in IdCounts : DOMAIN map \subseteq Signals \cup {Other} /\ \A x \in DOMAIN map : map[x] \in Nat
  /\ \A ids \in SUBSET (Signals \cup {Other}) : [ids -> Nat] \subseteq IdCounts
BY DEF IdCounts

LEMMA FewIdsStart == FewIds(NoCounts)
<1>1. DOMAIN NoCounts.signals = {} /\ NoCounts.signals \in [{} -> Nat] /\ NoCounts.signal = 0
  BY DEF NoCounts
<1>2. NoCounts \in AllCounts
  <2>1. NoCounts.signals \in IdCounts
    <3>1. [{} -> Nat] \subseteq IdCounts
      BY IdCountsIs
    <3> QED BY <1>1, <3>1
  <2> HIDE DEF IdCounts
  <2> QED BY <2>1 DEF NoCounts, AllCounts
<1>3. {} \ {Other} = {} /\ IsFiniteSet({}) /\ Cardinality({}) = 0
  BY FS_EmptySet
<1> QED BY <1>1, <1>2, <1>3, TotalEmpty, OutboxAssumption DEF FewIds

LEMMA BumpedIs ==
  ASSUME NEW map \in IdCounts, NEW id \in Signals,
         IsFiniteSet(DOMAIN map), Cardinality(DOMAIN map \ {Other}) <= MaxKeys
  PROVE  LET m == Bumped(map, Slot(map, id)) IN
         /\ m \in IdCounts /\ IsFiniteSet(DOMAIN m) /\ Cardinality(DOMAIN m \ {Other}) <= MaxKeys
         /\ Total(map) \in Nat /\ Total(m) = Total(map) + 1
<1> DEFINE slot == Slot(map, id)  m == Bumped(map, slot)  ids == DOMAIN map
<1>1. /\ ids \subseteq Signals \cup {Other} /\ \A x \in ids : map[x] \in Nat
      /\ slot \in Signals \cup {Other} /\ MaxKeys \in Nat
  BY IdCountsIs, OutboxAssumption DEF Slot
<1>2. slot \in ids \/ slot = Other \/ Cardinality(ids) < MaxKeys
  BY DEF Slot
<1> HIDE DEF slot
<1>3. m = [k \in ids \cup {slot} |-> (IF k \in ids THEN map[k] ELSE 0) + (IF k = slot THEN 1 ELSE 0)]
  BY DEF Bumped
<1> HIDE DEF m
<1>4. Total(map) \in Nat /\ Total(m) = Total(map) + 1
  BY <1>1, <1>3, TotalRises
<1>5. m \in [ids \cup {slot} -> Nat] /\ DOMAIN m = ids \cup {slot}
  BY <1>1, <1>3
<1>6. m \in IdCounts
  <2>1. ids \cup {slot} \in SUBSET (Signals \cup {Other})
    BY <1>1
  <2> QED BY <1>5, <2>1, IdCountsIs
<1>7. /\ IsFiniteSet(ids \cup {slot}) /\ Cardinality(ids) \in Nat /\ Cardinality(ids \cup {slot}) \in Nat
      /\ Cardinality(ids \cup {slot}) <= Cardinality(ids) + 1
  BY FS_AddElement, FS_CardinalityType
<1>8. Cardinality(DOMAIN m \ {Other}) <= MaxKeys
  <2>1. CASE slot \in ids \/ slot = Other
    <3>1. DOMAIN m \ {Other} = ids \ {Other}
      BY <1>5, <2>1
    <3> QED BY <3>1
  <2>2. CASE Cardinality(ids) < MaxKeys
    <3>1. /\ Cardinality(DOMAIN m \ {Other}) <= Cardinality(ids \cup {slot})
          /\ Cardinality(DOMAIN m \ {Other}) \in Nat
      BY <1>5, <1>7, FS_Subset, FS_CardinalityType
    <3> QED BY <1>1, <1>7, <2>2, <3>1
  <2> QED BY <1>2, <2>1, <2>2
<1> QED BY <1>4, <1>5, <1>6, <1>7, <1>8 DEF m, slot

LEMMA ItemKinds == \A x \in Items : x.kind \in Kinds /\ (x.kind = "signal" => x.id \in Signals)
BY DEF Items, Kinds

OneMoreOf(kind, m, o, map) == o = [m EXCEPT ![kind] = @ + 1, !.signals = map]

LEMMA ObservedType ==
  ASSUME NEW m \in AllCounts, NEW x \in Items
  PROVE  /\ Observed(m, x) \in AllCounts
         /\ Observed(m, x).signals = IF x.kind = "signal" THEN Bumped(m.signals, Slot(m.signals, x.id)) ELSE m.signals
         /\ \A kind \in Kinds : Observed(m, x)[kind] = m[kind] + (IF x.kind = kind THEN 1 ELSE 0) /\ m[kind] \in Nat
<1> DEFINE map == IF x.kind = "signal" THEN Bumped(m.signals, Slot(m.signals, x.id)) ELSE m.signals
<1>1. x.kind \in Kinds /\ (x.kind = "signal" => x.id \in Signals)
  BY ItemKinds
<1>2. m.signals \in IdCounts
  BY DEF AllCounts
<1>3. map \in IdCounts
  <2>1. CASE x.kind = "signal"
    <3> DEFINE slot == Slot(m.signals, x.id)  ids == DOMAIN m.signals
    <3>1. /\ slot \in Signals \cup {Other} /\ ids \subseteq Signals \cup {Other}
          /\ \A y \in ids : m.signals[y] \in Nat
      BY <1>1, <1>2, <2>1, IdCountsIs DEF Slot
    <3> HIDE DEF slot
    <3>2. Bumped(m.signals, slot) \in [ids \cup {slot} -> Nat]
      BY <3>1 DEF Bumped
    <3>3. ids \cup {slot} \in SUBSET (Signals \cup {Other})
      BY <3>1
    <3>4. Bumped(m.signals, slot) \in IdCounts
      BY <3>2, <3>3, IdCountsIs
    <3> QED BY <2>1, <3>4 DEF slot
  <2>2. CASE x.kind # "signal"
    BY <1>2, <2>2
  <2> QED BY <2>1, <2>2
<1>4. Observed(m, x) = [m EXCEPT ![x.kind] = @ + 1, !.signals = map]
  BY DEF Observed
<1> HIDE DEF map, IdCounts
<1>5. m.signal \in Nat /\ m.response \in Nat /\ m.state \in Nat /\ m.frames \in Nat
  BY DEF AllCounts
<1>6. ASSUME NEW k \in Kinds, NEW u \in IdCounts, NEW o, OneMoreOf(k, m, o, u)
      PROVE  /\ o \in AllCounts /\ o.signals = u
             /\ \A kind \in Kinds : o[kind] = m[kind] + (IF k = kind THEN 1 ELSE 0) /\ m[kind] \in Nat
  <2>0. /\ m = [frames |-> m.frames, response |-> m.response, signal |-> m.signal, state |-> m.state, signals |-> m.signals]
        /\ o = [m EXCEPT ![k] = @ + 1, !.signals = u]
    BY <1>6 DEF AllCounts, OneMoreOf
  <2>1. CASE k = "signal"
    <3>1. o = [frames |-> m.frames, response |-> m.response, signal |-> m.signal + 1, state |-> m.state, signals |-> u]
      BY <2>0, <2>1
    <3>2. /\ o.frames = m.frames /\ o.response = m.response /\ o.signal = m.signal + 1
          /\ o.state = m.state /\ o.signals = u
      BY <3>1
    <3>3. o \in AllCounts
      BY <1>5, <3>1 DEF AllCounts
    <3> QED BY <1>5, <2>1, <3>2, <3>3 DEF Kinds
  <2>2. CASE k = "response"
    <3>1. o = [frames |-> m.frames, response |-> m.response + 1, signal |-> m.signal, state |-> m.state, signals |-> u]
      BY <2>0, <2>2
    <3>2. /\ o.frames = m.frames /\ o.response = m.response + 1 /\ o.signal = m.signal
          /\ o.state = m.state /\ o.signals = u
      BY <3>1
    <3>3. o \in AllCounts
      BY <1>5, <3>1 DEF AllCounts
    <3> QED BY <1>5, <2>2, <3>2, <3>3 DEF Kinds
  <2>3. CASE k = "state"
    <3>1. o = [frames |-> m.frames, response |-> m.response, signal |-> m.signal, state |-> m.state + 1, signals |-> u]
      BY <2>0, <2>3
    <3>2. /\ o.frames = m.frames /\ o.response = m.response /\ o.signal = m.signal
          /\ o.state = m.state + 1 /\ o.signals = u
      BY <3>1
    <3>3. o \in AllCounts
      BY <1>5, <3>1 DEF AllCounts
    <3> QED BY <1>5, <2>3, <3>2, <3>3 DEF Kinds
  <2> QED BY <2>1, <2>2, <2>3 DEF Kinds
<1> DEFINE o == Observed(m, x)
<1> HIDE DEF o
<1>7. /\ o \in AllCounts /\ o.signals = map
      /\ \A kind \in Kinds : o[kind] = m[kind] + (IF x.kind = kind THEN 1 ELSE 0) /\ m[kind] \in Nat
  <2> DEFINE k == x.kind
  <2> HIDE DEF k
  <2>1. k \in Kinds /\ map \in IdCounts /\ OneMoreOf(k, m, o, map)
    BY <1>1, <1>3, <1>4 DEF k, o, OneMoreOf
  <2> HIDE DEF Kinds, AllCounts
  <2>2. /\ o \in AllCounts /\ o.signals = map
        /\ \A kind \in Kinds : o[kind] = m[kind] + (IF k = kind THEN 1 ELSE 0) /\ m[kind] \in Nat
    BY ONLY <2>1, <1>6
  <2> QED BY <2>2 DEF k
<1> QED BY <1>7 DEF map, o

LEMMA ObservedIs ==
  ASSUME NEW m, FewIds(m), NEW x \in Items
  PROVE  FewIds(Observed(m, x))
<1> DEFINE o == Observed(m, x)
<1>1. /\ o \in AllCounts /\ m \in AllCounts
      /\ o.signals = IF x.kind = "signal" THEN Bumped(m.signals, Slot(m.signals, x.id)) ELSE m.signals
      /\ o.signal = m.signal + (IF x.kind = "signal" THEN 1 ELSE 0) /\ m.signal \in Nat
  BY ObservedType DEF FewIds, Kinds
<1>2. m.signals \in IdCounts
  BY <1>1 DEF AllCounts
<1> HIDE DEF o
<1>3. CASE x.kind = "signal"
  <2>1. x.id \in Signals
    BY <1>3, ItemKinds
  <2> QED BY <1>1, <1>2, <1>3, <2>1, BumpedIs DEF FewIds, o
<1>4. CASE x.kind # "signal"
  BY <1>1, <1>4 DEF FewIds, o
<1> QED BY <1>3, <1>4

(* The metrics went from m to o over items.                                *)
Counts(m, o, items) ==
  FewIds(o) /\ \A kind \in Kinds : o[kind] = m[kind] + Number(kind, items)

LEMMA KindsAreNat == ASSUME NEW m \in AllCounts PROVE \A kind \in Kinds : m[kind] \in Nat
BY DEF AllCounts, Kinds

LEMMA CountsOne ==
  ASSUME NEW m \in AllCounts, NEW o, NEW items \in Seq(Items), NEW x \in Items, Counts(m, o, items)
  PROVE  Counts(m, Observed(o, x), items \o <<x>>)
<1>1. FewIds(o) /\ o \in AllCounts
  BY DEF Counts, FewIds
<1>2. FewIds(Observed(o, x))
  BY <1>1, ObservedIs
<1>3. \A kind \in Kinds : Observed(o, x)[kind] = o[kind] + (IF x.kind = kind THEN 1 ELSE 0)
  BY <1>1, ObservedType
<1>4. ASSUME NEW kind \in Kinds
      PROVE  Observed(o, x)[kind] = m[kind] + Number(kind, items \o <<x>>)
  <2>1. <<x>> \in Seq(Items)
    BY Single
  <2> DEFINE t == <<x>>
  <2>2. Number(kind, t) = IF x.kind = kind THEN 1 ELSE 0
    BY NumberSmall
  <2> HIDE DEF t
  <2>3. Number(kind, items \o t) = Number(kind, items) + Number(kind, t) /\ Number(kind, items) \in Nat
    BY <2>1, NumberConcat DEF t
  <2>4. o[kind] = m[kind] + Number(kind, items) /\ m[kind] \in Nat
    BY KindsAreNat DEF Counts
  <2>5. Observed(o, x)[kind] = m[kind] + Number(kind, items \o t)
    BY <1>3, <2>2, <2>3, <2>4
  <2> QED BY <2>5 DEF t
<1> QED BY <1>2, <1>4 DEF Counts

LEMMA ObserveAllIs ==
  ASSUME NEW m, FewIds(m), NEW frames \in Seq(AnyFrames), Sendable(frames)
  PROVE  Counts(m, ObserveAll(m, frames), Flat(frames))
<1> DEFINE items == Flat(frames)  len == Len(items)
           step == [x \in AllCounts \X Items |-> Observed(x[1], x[2])]
           Eq(u) == u = [n \in 0 .. len |-> IF n = 0 THEN m ELSE Observed(u[n - 1], items[n])]
<1>0. m \in AllCounts /\ items \in Seq(Items) /\ len \in Nat /\ \A n \in 1 .. len : items[n] \in Items
  <2>1. m \in AllCounts
    BY DEF FewIds
  <2>2. items \in Seq(Items)
    BY FlatIs
  <2> HIDE DEF items
  <2> QED BY <2>1, <2>2
<1>a. FlattenSeq([i \in DOMAIN frames |-> ItemsOf(frames[i])]) = items
  <2>1. \A i \in DOMAIN frames : ItemsOf(frames[i]) = frames[i].items
    BY DEF ItemsOf, Sendable
  <2>2. [i \in DOMAIN frames |-> ItemsOf(frames[i])] = [i \in DOMAIN frames |-> frames[i].items]
    BY <2>1
  <2> QED BY <2>2 DEF Flat
<1> HIDE DEF items
<1>1. \A a \in AllCounts, b \in Items : step[<<a, b>>] = Observed(a, b) /\ Observed(a, b) \in AllCounts
  <2>1. \A a \in AllCounts, b \in Items : Observed(a, b) \in AllCounts
    BY ObservedType
  <2> QED BY <2>1
<1>2. FoldsOver(AllCounts, Items, step, m, items)
  <2> HIDE DEF step
  <2> QED BY <1>0, <1>1 DEF FoldsOver
<1>3. PICK f \in [0 .. len -> AllCounts] :
        f[0] = m /\ \A n \in 1 .. len : f[n] = step[<<f[n - 1], items[n]>>]
  <2> HIDE DEF step
  <2> QED BY <1>2, FoldExists
<1> HIDE DEF step, len
<1>4. Eq(f)
  <2>1. ASSUME NEW n \in 0 .. len PROVE f[n] = IF n = 0 THEN m ELSE Observed(f[n - 1], items[n])
    <3>1. CASE n = 0
      BY <1>3, <3>1
    <3>2. CASE n # 0
      <4>1. n \in 1 .. len /\ n - 1 \in 0 .. len
        BY <1>0, <3>2
      <4>2. f[n - 1] \in AllCounts /\ items[n] \in Items
        BY <1>0, <4>1
      <4>3. f[n] = step[<<f[n - 1], items[n]>>]
        BY <1>3, <4>1
      <4> QED BY <1>1, <3>2, <4>2, <4>3
    <3> QED BY <3>1, <3>2
  <2>2. f = [n \in 0 .. len |-> f[n]]
    OBVIOUS
  <2>3. [n \in 0 .. len |-> f[n]]
          = [n \in 0 .. len |-> IF n = 0 THEN m ELSE Observed(f[n - 1], items[n])]
    BY <2>1
  <2> QED BY <2>2, <2>3
<1> DEFINE g == CHOOSE u : Eq(u)
<1>5. Eq(g)
  <2> HIDE DEF Eq
  <2> QED BY <1>4
<1>6. ObserveAll(m, frames) = [g[len] EXCEPT !.frames = @ + Len(frames)]
  BY <1>a DEF ObserveAll, len
<1> HIDE DEF g
<1>7. g[0] = m /\ \A n \in 1 .. len : g[n] = Observed(g[n - 1], items[n])
  BY <1>0, <1>5
<1> DEFINE Has(n) == n <= len => Counts(m, g[n], SubSeq(items, 1, n))
           Reached == {n \in Nat : Has(n)}
<1>8. Has(0)
  <2>1. SubSeq(items, 1, 0) = <<>>
    BY <1>0
  <2>2. \A kind \in Kinds : Number(kind, <<>>) = 0 /\ m[kind] \in Nat
    BY <1>0, NumberSmall, KindsAreNat
  <2>3. Counts(m, m, <<>>)
    BY <2>2 DEF Counts
  <2> HIDE DEF Eq
  <2> QED BY <1>7, <2>1, <2>3
<1>9. ASSUME NEW n \in Nat, Has(n) PROVE Has(n + 1)
  <2> SUFFICES ASSUME n + 1 <= len PROVE Counts(m, g[n + 1], SubSeq(items, 1, n + 1))
    OBVIOUS
  <2>1. n + 1 \in 1 .. len /\ (n + 1) - 1 = n /\ n <= len
    BY <1>0
  <2>2. g[n + 1] = Observed(g[n], items[n + 1])
    BY <1>7, <2>1
  <2>3. /\ SubSeq(items, 1, n) \in Seq(Items) /\ items[n + 1] \in Items
        /\ SubSeq(items, 1, n + 1) = SubSeq(items, 1, n) \o <<items[n + 1]>>
    BY <1>0, OneMore DEF len
  <2>4. Counts(m, g[n], SubSeq(items, 1, n))
    BY <1>9, <2>1
  <2>5. Counts(m, Observed(g[n], items[n + 1]), SubSeq(items, 1, n) \o <<items[n + 1]>>)
    BY <1>0, <2>3, <2>4, CountsOne
  <2> QED BY <2>2, <2>3, <2>5
<1>10. Has(len)
  <2> HIDE DEF Has
  <2>1. 0 \in Reached /\ \A n \in Nat : n \in Reached => n + 1 \in Reached
    BY <1>8, <1>9
  <2>2. Nat \subseteq Reached
    <3> HIDE DEF Reached
    <3> QED BY <2>1, AllNaturals
  <2> QED BY <1>0, <2>2
<1>11. SubSeq(items, 1, len) = items
  BY <1>0 DEF len
<1> DEFINE o == g[len]
<1> HIDE DEF o
<1>12. Counts(m, o, items)
  BY <1>0, <1>10, <1>11 DEF o
<1>13. Counts(m, [o EXCEPT !.frames = @ + Len(frames)], items)
  <2> DEFINE z == [o EXCEPT !.frames = @ + Len(frames)]
  <2>1. o \in AllCounts /\ Len(frames) \in Nat
    BY <1>12 DEF Counts, FewIds
  <2>2. o.frames \in Nat
    BY <2>1 DEF AllCounts
  <2>3. /\ o = [frames |-> o.frames, response |-> o.response, signal |-> o.signal, state |-> o.state, signals |-> o.signals]
        /\ z = [frames |-> o.frames + Len(frames), response |-> o.response, signal |-> o.signal,
                state |-> o.state, signals |-> o.signals]
    BY <2>1 DEF AllCounts
  <2> HIDE DEF z
  <2>4. z \in AllCounts /\ z.signals = o.signals /\ z.signal = o.signal /\ z.response = o.response /\ z.state = o.state
    BY <2>1, <2>2, <2>3 DEF AllCounts
  <2>5. \A kind \in Kinds : z[kind] = o[kind]
    BY <2>4 DEF Kinds
  <2> QED BY <1>12, <2>4, <2>5 DEF Counts, FewIds, z
<1> QED BY <1>6, <1>13 DEF items, o

Copies(g, x) == [i \in DOMAIN g |-> x]
Owed(p, g, x) == At(Copies(g, x), {i \in DOMAIN g : g[i] \in {p, Everyone}})
QueuedFor(g, x) == [i \in DOMAIN g |-> Queued(g[i], x)]

(* Frames that a client reads.                                             *)
SentFrames == {f \in AnyFrames : Len(f.items) \in 1 .. MaxFrameItems}

LEMMA SentFramesIs ==
  \A frames : frames \in Seq(SentFrames) <=> frames \in Seq(AnyFrames) /\ Sendable(frames)
<1>1. ASSUME NEW frames \in Seq(SentFrames) PROVE frames \in Seq(AnyFrames) /\ Sendable(frames)
  BY DEF SentFrames, Sendable
<1>2. ASSUME NEW frames \in Seq(AnyFrames), Sendable(frames) PROVE frames \in Seq(SentFrames)
  <2>1. \A i \in 1 .. Len(frames) : frames[i] \in SentFrames
    BY <1>2 DEF SentFrames, Sendable
  <2> QED BY <2>1
<1> QED BY <1>1, <1>2

LEMMA CopiesIs ==
  ASSUME NEW g \in Seq(Recipients), NEW x
  PROVE  Copies(g, x) \in Seq({x}) /\ DOMAIN Copies(g, x) = DOMAIN g /\ Len(Copies(g, x)) = Len(g)
BY DEF Copies

LEMMA OneKind ==
  ASSUME NEW x \in Items, NEW s \in Seq({x}), NEW kinds
  PROVE  s \in Seq(Items) /\ OfKind(s, kinds) = IF x.kind \in kinds THEN s ELSE <<>>
<1> DEFINE here == {i \in DOMAIN s : s[i].kind \in kinds}
<1>0. s \in Seq(Items) /\ \A i \in DOMAIN s : s[i] = x
  OBVIOUS
<1>1. CASE x.kind \in kinds
  <2>1. DOMAIN s \subseteq here
    BY <1>0, <1>1
  <2>2. At(s, here) = s
    <3> HIDE DEF here
    <3> QED BY <1>0, <2>1, AtAll
  <2> QED BY <1>0, <1>1, <2>2 DEF OfKind
<1>2. CASE x.kind \notin kinds
  <2>1. DOMAIN s \cap here = {}
    BY <1>0, <1>2
  <2>2. At(s, here) = <<>>
    <3> HIDE DEF here
    <3> QED BY <1>0, <2>1, AtNone
  <2> QED BY <1>0, <1>2, <2>2 DEF OfKind
<1> QED BY <1>1, <1>2

LEMMA NumberOfCopies ==
  ASSUME NEW g \in Seq(Recipients), NEW x \in Items, NEW kind
  PROVE  Number(kind, Copies(g, x)) = IF x.kind = kind THEN Len(g) ELSE 0
<1> DEFINE s == Copies(g, x)
<1>1. s \in Seq({x}) /\ Len(s) = Len(g)
  BY CopiesIs
<1> HIDE DEF s
<1>2. OfKind(s, {kind}) = IF x.kind \in {kind} THEN s ELSE <<>>
  BY <1>1, OneKind
<1> QED BY <1>1, <1>2 DEF Number, s

LEMMA OwedType ==
  ASSUME NEW p, NEW g \in Seq(Recipients), NEW x \in Items
  PROVE  Owed(p, g, x) \in Seq({x}) /\ Owed(p, g, x) \in Seq(Items)
<1>1. Owed(p, g, x) \in Seq({x})
  BY CopiesIs, AtType DEF Owed
<1> QED BY <1>1, OneKind

LEMMA QueuedForIs ==
  ASSUME NEW g \in Seq(Recipients), NEW x \in Items
  PROVE  /\ QueuedFor(g, x) \in Seq(QueuedItems) /\ Len(QueuedFor(g, x)) = Len(g)
         /\ ItemsIn(QueuedFor(g, x)) = Copies(g, x)
         /\ \A p : Mine(p, QueuedFor(g, x)) = Owed(p, g, x)
<1> DEFINE q == QueuedFor(g, x)
<1>0. DOMAIN q = DOMAIN g /\ \A i \in DOMAIN g : q[i].to = g[i] /\ q[i].item = x
  BY DEF QueuedFor, Queued
<1>1. q \in Seq(QueuedItems) /\ Len(q) = Len(g)
  <2>1. \A i \in 1 .. Len(g) : Queued(g[i], x) \in QueuedItems
    BY DEF Queued, QueuedItems
  <2> QED BY <2>1 DEF QueuedFor
<1> HIDE DEF q
<1>2. ItemsIn(q) = Copies(g, x)
  BY <1>0 DEF ItemsIn, Copies
<1>3. ASSUME NEW p PROVE Mine(p, q) = Owed(p, g, x)
  <2>1. {i \in DOMAIN q : q[i].to \in {p, Everyone}} = {i \in DOMAIN g : g[i] \in {p, Everyone}}
    BY <1>0
  <2> QED BY <1>2, <2>1 DEF Mine, Owed
<1> QED BY <1>1, <1>2, <1>3 DEF q

LEMMA CopiesAppend ==
  ASSUME NEW g \in Seq(Recipients), NEW to \in Recipients, NEW x \in Items
  PROVE  /\ Copies(Append(g, to), x) = Append(Copies(g, x), x)
         /\ \A p : Owed(p, Append(g, to), x)
                     = Owed(p, g, x) \o (IF to \in {p, Everyone} THEN <<x>> ELSE <<>>)
<1> DEFINE h == Append(g, to)  c == Copies(g, x)
<1>0. DOMAIN g = 1 .. Len(g) /\ Len(g) \in Nat /\ DOMAIN h = 1 .. Len(g) + 1 /\ h[Len(g) + 1] = to
      /\ \A i \in 1 .. Len(g) : h[i] = g[i]
  OBVIOUS
<1>1. c \in Seq({x}) /\ Len(c) = Len(g) /\ DOMAIN c = DOMAIN g
  BY CopiesIs
<1>2. Copies(h, x) = Append(c, x)
  <2> HIDE DEF h
  <2>1. Append(c, x) = [i \in 1 .. Len(g) + 1 |-> x]
    BY <1>0, <1>1 DEF Copies
  <2> QED BY <1>0, <2>1 DEF Copies
<1> HIDE DEF h, c
<1>3. ASSUME NEW p PROVE Owed(p, h, x) = Owed(p, g, x) \o (IF to \in {p, Everyone} THEN <<x>> ELSE <<>>)
  <2> DEFINE all == {i \in DOMAIN h : h[i] \in {p, Everyone}}
             his == {i \in DOMAIN g : g[i] \in {p, Everyone}}
  <2>1. \A i \in DOMAIN c : i \in all <=> i \in his
    BY <1>0, <1>1
  <2>2. Len(c) + 1 \in all <=> to \in {p, Everyone}
    BY <1>0, <1>1
  <2> HIDE DEF all, his
  <2>3. At(Append(c, x), all) = At(c, all) \o (IF Len(c) + 1 \in all THEN <<x>> ELSE <<>>)
    BY <1>1, AtAppend
  <2>4. At(c, all) = At(c, his)
    BY <2>1, AtSame
  <2> QED BY <1>2, <2>2, <2>3, <2>4 DEF Owed, all, his, c
<1> QED BY <1>2, <1>3 DEF h, c

LEMMA AloneIs ==
  ASSUME NEW g \in Seq(Recipients), NEW x \in Items
  PROVE  /\ Alone(g, x) \in Seq(SentFrames)
         /\ Flat(Alone(g, x)) = Copies(g, x)
         /\ \A p : For(p, Alone(g, x)) = Owed(p, g, x)
<1> DEFINE Holds(s) == /\ Alone(s, x) \in Seq(SentFrames)
                       /\ Flat(Alone(s, x)) = Copies(s, x)
                       /\ \A p : For(p, Alone(s, x)) = Owed(p, s, x)
           Reached == {s \in Seq(Recipients) : Holds(s)}
<1>1. Holds(<<>>)
  <2>1. Alone(<<>>, x) = <<>> /\ Copies(<<>>, x) = <<>>
    BY DEF Alone, Copies
  <2>2. <<>> \in Seq(SentFrames)
    OBVIOUS
  <2> QED BY <2>1, <2>2, FlatEmpty, ForEmpty, AtEmpty DEF Owed
<1>2. ASSUME NEW s \in Seq(Recipients), NEW to \in Recipients, Holds(s) PROVE Holds(Append(s, to))
  <2> DEFINE f == Frame(to, <<x>>)  a == Alone(s, x)
  <2>1. f \in SentFrames /\ f \in AnyFrames /\ f.to = to /\ f.items = <<x>>
    <3>1. <<x>> \in Seq(Items) /\ Len(<<x>>) = 1 /\ 1 \in 1 .. MaxFrameItems
      BY Single, OutboxAssumption
    <3> QED BY <3>1 DEF Frame, AnyFrames, SentFrames
  <2>2. a \in Seq(SentFrames) /\ a \in Seq(AnyFrames) /\ Len(a) = Len(s)
    <3>1. Len(a) = Len(s)
      BY DEF Alone
    <3> QED BY <1>2, <3>1, SentFramesIs
  <2>3. Alone(Append(s, to), x) = a \o <<f>>
    <3>1. DOMAIN Append(s, to) = 1 .. Len(s) + 1 /\ Len(s) \in Nat
          /\ \A i \in 1 .. Len(s) + 1 : Append(s, to)[i] = IF i = Len(s) + 1 THEN to ELSE s[i]
      OBVIOUS
    <3>2. Alone(Append(s, to), x) = [i \in 1 .. Len(s) + 1 |-> IF i = Len(s) + 1 THEN f ELSE Frame(s[i], <<x>>)]
      BY <3>1 DEF Alone
    <3>3. Append(a, f) = [i \in 1 .. Len(s) + 1 |-> IF i = Len(s) + 1 THEN f ELSE Frame(s[i], <<x>>)]
      BY <2>2 DEF Alone
    <3>4. Append(a, f) = a \o <<f>>
      <4> HIDE DEF a, f
      <4> QED BY <2>1, <2>2, AppendIsConcat
    <3> QED BY <3>2, <3>3, <3>4
  <2> HIDE DEF a, f
  <2>4. <<f>> \in Seq(AnyFrames) /\ <<f>> \in Seq(SentFrames)
    BY <2>1, Single
  <2>5. a \o <<f>> \in Seq(SentFrames)
    BY <2>2, <2>4, Joining
  <2>6. Flat(a \o <<f>>) = Copies(Append(s, to), x)
    <3>1. Flat(a \o <<f>>) = Flat(a) \o <<x>>
      BY <2>1, <2>2, <2>4, FlatConcat, FlatOne
    <3>2. Flat(a) = Copies(s, x)
      BY <1>2 DEF a
    <3>3. Copies(s, x) \in Seq({x})
      BY CopiesIs
    <3>4. Append(Copies(s, x), x) = Copies(s, x) \o <<x>>
      BY <3>3, AppendIsConcat
    <3> QED BY <3>1, <3>2, <3>4, CopiesAppend, ZenonT(30)
  <2>7. ASSUME NEW p PROVE For(p, a \o <<f>>) = Owed(p, Append(s, to), x)
    <3>1. For(p, a \o <<f>>) = For(p, a) \o For(p, <<f>>)
      BY <2>2, <2>4, ForConcat
    <3>2. For(p, <<f>>) = IF to \in {p, Everyone} THEN <<x>> ELSE <<>>
      BY <2>1, ForOne
    <3>3. For(p, a) = Owed(p, s, x)
      BY <1>2 DEF a
    <3> DEFINE more == IF to \in {p, Everyone} THEN <<x>> ELSE <<>>
    <3>4. Owed(p, Append(s, to), x) = Owed(p, s, x) \o more
      BY CopiesAppend
    <3> HIDE DEF more
    <3> QED BY <3>1, <3>2, <3>3, <3>4 DEF more
  <2> QED BY <2>3, <2>5, <2>6, <2>7
<1>3. Holds(g)
  <2> HIDE DEF Holds
  <2>1. <<>> \in Reached /\ \A s \in Seq(Recipients), to \in Recipients : s \in Reached => Append(s, to) \in Reached
    BY <1>1, <1>2
  <2>2. Seq(Recipients) \subseteq Reached
    <3> HIDE DEF Reached
    <3> QED BY <2>1, AllSequences
  <2> QED BY <2>2
<1> QED BY <1>3

LEMMA UpToFailingType ==
  ASSUME NEW g \in Seq(Recipients)
  PROVE  UpToFailing(g) \in Seq(Recipients)
<1> DEFINE failing == {i \in DOMAIN g : g[i] \in gone}
<1>1. CASE failing = {}
  BY <1>1 DEF UpToFailing
<1>2. CASE failing # {}
  <2>1. failing \subseteq Nat /\ \A i \in failing : i \in 1 .. Len(g)
    OBVIOUS
  <2> DEFINE k == CHOOSE i \in failing : \A j \in failing : i <= j
  <2>2. \E i \in failing : \A j \in failing : i <= j
    <3> HIDE DEF failing
    <3> QED BY <1>2, <2>1, Least
  <2>3. k \in 1 .. Len(g)
    <3> HIDE DEF failing
    <3> QED BY <2>1, <2>2
  <2>4. UpToFailing(g) = SubSeq(g, 1, k)
    BY <1>2 DEF UpToFailing
  <2> HIDE DEF k
  <2>5. SubSeq(g, 1, k) \in Seq(Recipients)
    BY <2>3
  <2> QED BY <2>4, <2>5
<1> QED BY <1>1, <1>2

-----------------------------------------------------------------------------
(* What items carry.                                                       *)
LEMMA HeldConcat ==
  ASSUME NEW s \in Seq(Items), NEW t \in Seq(Items)
  PROVE  Held(s \o t) = Held(s) \cup Held(t)
<1> DEFINE u == s \o t
<1>0. Len(s) \in Nat /\ Len(t) \in Nat /\ DOMAIN s = 1 .. Len(s) /\ DOMAIN t = 1 .. Len(t)
      /\ DOMAIN u = 1 .. Len(s) + Len(t)
  OBVIOUS
<1>1. ASSUME NEW h \in Held(u) PROVE h \in Held(s) \cup Held(t)
  <2>1. PICK i \in DOMAIN u : h \in u[i].holds
    BY DEF Held
  <2>2. CASE i <= Len(s)
    <3>1. u[i] = s[i] /\ i \in DOMAIN s
      BY <2>2
    <3> HIDE DEF u
    <3> QED BY <2>1, <3>1 DEF Held
  <2>3. CASE ~(i <= Len(s))
    <3>1. u[i] = t[i - Len(s)] /\ i - Len(s) \in DOMAIN t
      BY <2>3
    <3> HIDE DEF u
    <3> QED BY <2>1, <3>1 DEF Held
  <2> QED BY <2>2, <2>3
<1>2. ASSUME NEW h \in Held(s) PROVE h \in Held(u)
  <2>1. PICK i \in DOMAIN s : h \in s[i].holds
    BY DEF Held
  <2>2. u[i] = s[i] /\ i \in DOMAIN u
    OBVIOUS
  <2> HIDE DEF u
  <2> QED BY <2>1, <2>2 DEF Held
<1>3. ASSUME NEW h \in Held(t) PROVE h \in Held(u)
  <2>1. PICK i \in DOMAIN t : h \in t[i].holds
    BY DEF Held
  <2>2. u[Len(s) + i] = t[i] /\ Len(s) + i \in DOMAIN u
    <3>1. u[Len(s) + i] = t[i]
      BY <1>0, ConcatIs
    <3>2. Len(s) + i \in 1 .. Len(s) + Len(t)
      BY <1>0
    <3> QED BY <1>0, <3>1, <3>2
  <2> HIDE DEF u
  <2> QED BY <2>1, <2>2 DEF Held
<1> QED BY <1>1, <1>2, <1>3

LEMMA HeldSmall == Held(<<>>) = {} /\ \A x : Held(<<x>>) = x.holds
BY DEF Held

-----------------------------------------------------------------------------
(* A queue holds one state for a player.                                   *)
IsState(q, i) == q[i].item.kind = "state"
OneState(q) ==
  /\ \A i \in DOMAIN q : IsState(q, i) => q[i].to \in Players
  /\ \A i, j \in DOMAIN q : IsState(q, i) /\ IsState(q, j) /\ q[i].to = q[j].to => i = j

LEMMA StatesAreAlike == \A x, y \in Items : x.kind = "state" /\ y.kind = "state" => x.id = y.id
BY DEF Items

LEMMA OneStateQueued ==
  ASSUME NEW q \in Seq(QueuedItems), OneState(q), NEW g \in Seq(Recipients),
         NEW x \in Items, x.kind # "state"
  PROVE  OneState(q \o QueuedFor(g, x))
<1> DEFINE t == QueuedFor(g, x)  r == q \o t
<1>1. t \in Seq(QueuedItems) /\ \A i \in DOMAIN t : t[i].item = x
  <2>1. t \in Seq(QueuedItems)
    BY QueuedForIs
  <2> QED BY <2>1 DEF QueuedFor, Queued
<1> HIDE DEF t
<1>2. ASSUME NEW i \in DOMAIN r, IsState(r, i) PROVE i \in DOMAIN q /\ r[i] = q[i] /\ IsState(q, i)
  <2>1. CASE i <= Len(q)
    <3>1. i \in DOMAIN q /\ r[i] = q[i]
      BY <1>1, <2>1
    <3> HIDE DEF r
    <3> QED BY <1>2, <3>1 DEF IsState
  <2>2. CASE ~(i <= Len(q))
    <3>1. i - Len(q) \in DOMAIN t /\ r[i] = t[i - Len(q)]
      BY <1>1, <2>2
    <3> HIDE DEF r
    <3> QED BY <1>1, <1>2, <3>1 DEF IsState
  <2> QED BY <2>1, <2>2
<1> HIDE DEF r
<1> QED BY <1>2 DEF OneState, r, t

(* None of them is a state for p.                                          *)
LEMMA NoStates ==
  ASSUME NEW p, NEW q \in Seq(QueuedItems),
         \A i \in DOMAIN q : IsState(q, i) => q[i].to \notin {p, Everyone}
  PROVE  States(Mine(p, q)) = <<>>
<1> DEFINE None(s) == \A i \in DOMAIN s : IsState(s, i) => s[i].to \notin {p, Everyone}
           Holds(s) == None(s) => States(Mine(p, s)) = <<>>
           Reached == {s \in Seq(QueuedItems) : Holds(s)}
<1>1. Holds(<<>>)
  BY MineEmpty, OfKindEmpty DEF States
<1>2. ASSUME NEW s \in Seq(QueuedItems), NEW x \in QueuedItems, Holds(s) PROVE Holds(Append(s, x))
  <2> SUFFICES ASSUME None(Append(s, x)) PROVE States(Mine(p, Append(s, x))) = <<>>
    OBVIOUS
  <2>1. None(s) /\ (x.item.kind = "state" => x.to \notin {p, Everyone})
    <3> DEFINE t == Append(s, x)
    <3>1. /\ \A i \in DOMAIN s : t[i] = s[i] /\ i \in DOMAIN t
          /\ t[Len(s) + 1] = x /\ Len(s) + 1 \in DOMAIN t
      OBVIOUS
    <3> HIDE DEF t
    <3>2. None(t)
      BY DEF t
    <3> QED BY <3>1, <3>2 DEF IsState
  <2> HIDE DEF None
  <2>2. <<x>> \in Seq(QueuedItems) /\ Append(s, x) = s \o <<x>>
    BY Single, AppendIsConcat
  <2> DEFINE t == <<x>>
  <2> HIDE DEF t
  <2>3. Mine(p, s \o t) = Mine(p, s) \o Mine(p, t)
    BY <2>2, MineConcat DEF t
  <2>4. Mine(p, s) \in Seq(Items) /\ Mine(p, t) \in Seq(Items)
    BY <2>2, MineType DEF t
  <2>5. States(Mine(p, s) \o Mine(p, t)) = States(Mine(p, s)) \o States(Mine(p, t))
    BY <2>4, OfKindConcat DEF States
  <2>6. States(Mine(p, t)) = <<>>
    <3>1. Mine(p, t) = IF x.to \in {p, Everyone} THEN <<x.item>> ELSE <<>>
      BY MineOne DEF t
    <3>2. OfKind(<<x.item>>, {"state"}) = IF x.item.kind \in {"state"} THEN <<x.item>> ELSE <<>>
      BY OfKindOne
    <3> QED BY <2>1, <3>1, <3>2, OfKindEmpty DEF States
  <2>7. States(Mine(p, s)) = <<>>
    BY <1>2, <2>1
  <2>8. <<>> \o <<>> = <<>>
    OBVIOUS
  <2> QED BY <2>2, <2>3, <2>5, <2>6, <2>7, <2>8 DEF t
<1>3. Holds(q)
  <2> HIDE DEF Holds
  <2>1. <<>> \in Reached /\ \A s \in Seq(QueuedItems), x \in QueuedItems : s \in Reached => Append(s, x) \in Reached
    BY <1>1, <1>2
  <2>2. Seq(QueuedItems) \subseteq Reached
    <3> HIDE DEF Reached
    <3> QED BY <2>1, AllSequences
  <2> QED BY <2>2
<1> QED BY <1>3

(* Of a player's items s, the last state, if any, gave way to one with x.  *)
GaveWay(s, r, x) ==
  /\ Plain(r) = Plain(s) /\ Held(r) = Held(s) \cup x.holds
  /\ \E older, old \in Seq(Items), y \in Items :
       y.n = x.n /\ States(s) = older \o old /\ States(r) = older \o <<y>>

LEMMA PlainConcat ==
  ASSUME NEW s \in Seq(Items), NEW t \in Seq(Items)
  PROVE  /\ Plain(s) \in Seq(Items) /\ Plain(t) \in Seq(Items) /\ Plain(s \o t) = Plain(s) \o Plain(t)
         /\ States(s) \in Seq(Items) /\ States(t) \in Seq(Items) /\ States(s \o t) = States(s) \o States(t)
BY OfKindConcat, OfKindType, ZenonT(30) DEF Plain, States

LEMMA StateAlone ==
  ASSUME NEW x \in Items, x.kind = "state"
  PROVE  <<x>> \in Seq(Items) /\ Plain(<<x>>) = <<>> /\ States(<<x>>) = <<x>> /\ Held(<<x>>) = x.holds
<1>1. "state" \notin {"signal", "response"} /\ "state" \in {"state"}
  OBVIOUS
<1> QED BY <1>1, Single, OfKindOne, HeldSmall DEF Plain, States

(* Between a and b, z gave way to y.                                       *)
LEMMA GivesWay ==
  ASSUME NEW a \in Seq(Items), NEW b \in Seq(Items), States(b) = <<>>,
         NEW z \in Items, z.kind = "state", NEW y \in Items, y.kind = "state",
         NEW x, y.n = x.n, y.holds = x.holds \cup z.holds
  PROVE  GaveWay(a \o (<<z>> \o b), a \o (<<y>> \o b), x)
<1>1. ASSUME NEW w \in Items, w.kind = "state"
      PROVE  LET s == a \o (<<w>> \o b) IN
             /\ s \in Seq(Items) /\ Plain(s) = Plain(a) \o Plain(b) /\ States(s) = States(a) \o <<w>>
             /\ Held(s) = Held(a) \cup w.holds \cup Held(b)
  <2> DEFINE u == <<w>>
  <2>1. u \in Seq(Items) /\ Plain(u) = <<>> /\ States(u) = u /\ Held(u) = w.holds
    BY <1>1, StateAlone
  <2> HIDE DEF u
  <2>2. u \o b \in Seq(Items) /\ a \o (u \o b) \in Seq(Items)
    BY <2>1
  <2>3. /\ Plain(u \o b) = Plain(b) /\ States(u \o b) = u /\ Held(u \o b) = w.holds \cup Held(b)
    <3>1. Plain(u \o b) = <<>> \o Plain(b) /\ States(u \o b) = u \o <<>>
          /\ Plain(b) \in Seq(Items)
      BY <2>1, PlainConcat
    <3>2. u \o <<>> = u /\ <<>> \o Plain(b) = Plain(b)
      BY <2>1, <3>1, Joining
    <3>3. Held(u \o b) = Held(u) \cup Held(b)
      BY <2>1, HeldConcat
    <3> QED BY <2>1, <3>1, <3>2, <3>3
  <2>4. Plain(a \o (u \o b)) = Plain(a) \o Plain(u \o b) /\ States(a \o (u \o b)) = States(a) \o States(u \o b)
    BY <2>2, PlainConcat
  <2>5. Held(a \o (u \o b)) = Held(a) \cup Held(u \o b)
    BY <2>2, HeldConcat
  <2>6. Held(a \o (u \o b)) = Held(a) \cup w.holds \cup Held(b)
    BY <2>3, <2>5
  <2> QED BY <2>2, <2>3, <2>4, <2>6 DEF u
<1> DEFINE s == a \o (<<z>> \o b)  r == a \o (<<y>> \o b)
<1>2. /\ Plain(s) = Plain(a) \o Plain(b) /\ States(s) = States(a) \o <<z>>
      /\ Held(s) = Held(a) \cup z.holds \cup Held(b)
  BY <1>1
<1>3. /\ Plain(r) = Plain(a) \o Plain(b) /\ States(r) = States(a) \o <<y>>
      /\ Held(r) = Held(a) \cup y.holds \cup Held(b)
  BY <1>1
<1> HIDE DEF s, r
<1>4. States(a) \in Seq(Items) /\ <<z>> \in Seq(Items)
  BY PlainConcat, Single
<1>5. Held(r) = Held(s) \cup x.holds
  BY <1>2, <1>3
<1>6. Plain(r) = Plain(s)
  BY <1>2, <1>3
<1>7. GaveWay(s, r, x)
  BY <1>2, <1>3, <1>4, <1>5, <1>6 DEF GaveWay
<1> QED BY <1>7 DEF s, r

(* Nothing gave way, x is the last.                                        *)
LEMMA ComesLast ==
  ASSUME NEW s \in Seq(Items), NEW x \in Items, x.kind = "state"
  PROVE  GaveWay(s, s \o <<x>>, x)
<1> DEFINE u == <<x>>
<1>1. u \in Seq(Items) /\ Plain(u) = <<>> /\ States(u) = u /\ Held(u) = x.holds
  BY StateAlone
<1>2. <<>> \in Seq(Items)
  OBVIOUS
<1> HIDE DEF u
<1>3. /\ Plain(s) \in Seq(Items) /\ States(s) \in Seq(Items)
      /\ Plain(s \o u) = Plain(s) \o Plain(u) /\ States(s \o u) = States(s) \o States(u)
      /\ Held(s \o u) = Held(s) \cup Held(u)
  BY <1>1, PlainConcat, HeldConcat
<1>4. Plain(s) \o <<>> = Plain(s) /\ States(s) \o <<>> = States(s)
  BY <1>3, Joining
<1>5. States(s) = States(s) \o <<>> /\ States(s \o u) = States(s) \o <<x>>
  BY <1>1, <1>3, <1>4 DEF u
<1>6. GaveWay(s, s \o u, x)
  BY <1>1, <1>2, <1>3, <1>4, <1>5 DEF GaveWay
<1> QED BY <1>6 DEF u

LEMMA ReplacedIs ==
  ASSUME NEW q \in Seq(QueuedItems), OneState(q), NEW p \in Players, NEW x \in Items, x.kind = "state",
         NEW r, r = Replaced(q, p, x)
  PROVE  /\ r \in Seq(QueuedItems) /\ OneState(r)
         /\ \A u \in Players : u # p => Mine(u, r) = Mine(u, q)
         /\ GaveWay(Mine(p, q), Mine(p, r), x)
         /\ \A kind : Number(kind, ItemsIn(r)) \in Number(kind, ItemsIn(q)) ..
              Number(kind, ItemsIn(q)) + (IF kind = "state" THEN 1 ELSE 0)
<1> DEFINE match(i) == SameKey(q[i], p, x)
<1>0. p \in Recipients /\ p # Everyone /\ (\A u \in Players : u # Everyone)
  BY OutboxAssumption DEF Recipients
<1>1. ASSUME NEW i \in DOMAIN q PROVE match(i) <=> IsState(q, i) /\ q[i].to = p
  <2>1. q[i].item \in Items
    <3>1. q[i] \in QueuedItems
      OBVIOUS
    <3> QED BY <3>1 DEF QueuedItems
  <2>2. IsState(q, i) => q[i].item.id = x.id
    BY <2>1, StatesAreAlike DEF IsState
  <2> QED BY <2>2 DEF SameKey, IsState
<1>2. CASE ~\E i \in DOMAIN q : match(i)
  <2> DEFINE f == Queued(p, x)  t == <<f>>
  <2>1. f \in QueuedItems /\ f.to = p /\ f.item = x
    BY <1>0 DEF Queued, QueuedItems
  <2>2. r = Append(q, f)
    BY <1>2 DEF Replaced
  <2> HIDE DEF f
  <2>3. t \in Seq(QueuedItems) /\ r = q \o t /\ r \in Seq(QueuedItems) /\ Len(q) \in Nat
    BY <2>1, <2>2, Single, AppendIsConcat
  <2>4. OneState(r)
    <3>1. /\ DOMAIN r = 1 .. Len(q) + 1 /\ DOMAIN q = 1 .. Len(q)
          /\ \A i \in 1 .. Len(q) + 1 : r[i] = IF i = Len(q) + 1 THEN f ELSE q[i]
      BY <2>1, <2>2
    <3>2. ASSUME NEW i \in DOMAIN r, IsState(r, i)
          PROVE  \/ i = Len(q) + 1 /\ r[i].to = p
                 \/ i \in DOMAIN q /\ IsState(q, i) /\ r[i].to = q[i].to /\ q[i].to # p
      <4>1. CASE i = Len(q) + 1
        BY <2>1, <3>1, <4>1
      <4>2. CASE i # Len(q) + 1
        <5>1. i \in DOMAIN q /\ r[i] = q[i]
          BY <3>1, <4>2
        <5> QED BY <1>1, <1>2, <3>2, <5>1 DEF IsState
      <4> QED BY <4>1, <4>2
    <3> QED BY <3>2 DEF OneState
  <2>5. ASSUME NEW u PROVE Mine(u, r) = Mine(u, q) \o (IF p \in {u, Everyone} THEN <<x>> ELSE <<>>)
                           /\ Mine(u, q) \in Seq(Items)
    <3>1. Mine(u, t) = IF p \in {u, Everyone} THEN <<x>> ELSE <<>>
      BY <2>1, MineOne
    <3> HIDE DEF t
    <3> QED BY <2>3, <3>1, MineConcat, MineType, ZenonT(30)
  <2>6. \A u \in Players : u # p => Mine(u, r) = Mine(u, q)
    <3> SUFFICES ASSUME NEW u \in Players, u # p PROVE Mine(u, r) = Mine(u, q)
      OBVIOUS
    <3>1. Mine(u, r) = Mine(u, q) \o <<>> /\ Mine(u, q) \in Seq(Items)
      BY <1>0, <2>5
    <3> QED BY <3>1, Joining
  <2>7. GaveWay(Mine(p, q), Mine(p, r), x)
    <3>1. Mine(p, r) = Mine(p, q) \o <<x>> /\ Mine(p, q) \in Seq(Items)
      BY <2>5
    <3>2. GaveWay(Mine(p, q), Mine(p, q) \o <<x>>, x)
      BY <3>1, ComesLast
    <3> QED BY <3>1, <3>2
  <2>8. ASSUME NEW kind
        PROVE  Number(kind, ItemsIn(r)) \in Number(kind, ItemsIn(q)) ..
                 Number(kind, ItemsIn(q)) + (IF kind = "state" THEN 1 ELSE 0)
    <3>1. ItemsIn(t) = <<x>>
      BY <2>1 DEF ItemsIn
    <3>2. Number(kind, <<x>>) = IF kind = "state" THEN 1 ELSE 0
      BY NumberSmall
    <3> HIDE DEF t
    <3>3. ItemsIn(q) \in Seq(Items) /\ ItemsIn(t) \in Seq(Items) /\ ItemsIn(r) = ItemsIn(q) \o ItemsIn(t)
      BY <2>3, ItemsInConcat
    <3>4. Number(kind, ItemsIn(r)) = Number(kind, ItemsIn(q)) + Number(kind, ItemsIn(t))
          /\ Number(kind, ItemsIn(q)) \in Nat
      BY <3>3, NumberConcat
    <3> QED BY <3>1, <3>2, <3>4
  <2> QED BY <2>3, <2>4, <2>6, <2>7, <2>8
<1>3. CASE \E i \in DOMAIN q : match(i)
  <2>1. PICK k \in DOMAIN q : match(k)
    BY <1>3
  <2>2. IsState(q, k) /\ q[k].to = p /\ q[k] \in QueuedItems /\ k \in 1 .. Len(q)
    BY <1>1, <2>1
  <2>3. \A i \in DOMAIN q : IsState(q, i) /\ q[i].to = p => i = k
    BY <2>2 DEF OneState
  <2>4. \A i \in DOMAIN q : match(i) <=> i = k
    BY <1>1, <2>1, <2>3
  <2> DEFINE z == q[k].item
             y == [x EXCEPT !.holds = @ \cup z.holds]
             f == Queued(p, y)
  <2>5. z \in Items /\ z.kind = "state"
    BY <2>2 DEF QueuedItems, IsState
  <2>6. y \in Items /\ y.kind = "state" /\ y.n = x.n /\ y.holds = x.holds \cup z.holds
    <3> HIDE DEF z
    <3> QED BY <2>5 DEF Items
  <2>7. r = [q EXCEPT ![k] = f]
    <3>1. r = [i \in DOMAIN q |-> IF match(i) THEN Queued(p, [x EXCEPT !.holds = @ \cup q[i].item.holds]) ELSE q[i]]
      BY <1>3 DEF Replaced
    <3>2. \A i \in DOMAIN q :
            (IF match(i) THEN Queued(p, [x EXCEPT !.holds = @ \cup q[i].item.holds]) ELSE q[i])
              = IF i = k THEN f ELSE q[i]
      <4> HIDE DEF match
      <4> QED BY <2>4
    <3> HIDE DEF match, f
    <3>3. r = [i \in DOMAIN q |-> IF i = k THEN f ELSE q[i]]
      BY <3>1, <3>2
    <3> QED BY <3>3
  <2> HIDE DEF y, match
  <2>8. f \in QueuedItems /\ f.to = p /\ f.item = y
    BY <1>0, <2>6 DEF Queued, QueuedItems
  <2> HIDE DEF f
  <2>9. OneState(r)
    <3>1. DOMAIN r = DOMAIN q /\ \A i \in DOMAIN q : r[i].to = q[i].to /\ (IsState(r, i) <=> IsState(q, i))
      <4>1. DOMAIN r = DOMAIN q /\ \A i \in DOMAIN q : r[i] = IF i = k THEN f ELSE q[i]
        BY <2>7
      <4> QED BY <2>2, <2>6, <2>8, <4>1 DEF IsState
    <3> QED BY <3>1 DEF OneState
  <2>10. PICK a \in Seq(QueuedItems), b \in Seq(QueuedItems) : CutAt(QueuedItems, q, k, a, b)
    BY <2>2, Cut
  <2>11. /\ q = a \o (<<q[k]>> \o b) /\ r = a \o (<<f>> \o b)
         /\ \A i \in 1 .. Len(b) : k + i \in k + 1 .. Len(q) /\ b[i] = q[k + i]
    BY <2>7, <2>8, <2>10 DEF CutAt
  <2>12. ASSUME NEW w \in QueuedItems
         PROVE  /\ a \o (<<w>> \o b) \in Seq(QueuedItems)
                /\ \A u : Mine(u, a \o (<<w>> \o b)) = Mine(u, a) \o (Mine(u, <<w>>) \o Mine(u, b))
                /\ \A kind : Number(kind, ItemsIn(a \o (<<w>> \o b)))
                     = Number(kind, ItemsIn(a)) + ((IF w.item.kind = kind THEN 1 ELSE 0) + Number(kind, ItemsIn(b)))
                /\ \A kind : Number(kind, ItemsIn(a)) \in Nat /\ Number(kind, ItemsIn(b)) \in Nat
    <3> DEFINE t == <<w>>
    <3>1. ItemsIn(t) = <<w.item>>
      BY DEF ItemsIn
    <3>2. \A kind : Number(kind, ItemsIn(t)) = IF w.item.kind = kind THEN 1 ELSE 0
      BY <3>1, NumberSmall
    <3>3. t \in Seq(QueuedItems)
      BY Single
    <3> HIDE DEF t
    <3>4. t \o b \in Seq(QueuedItems) /\ a \o (t \o b) \in Seq(QueuedItems)
      BY <3>3
    <3>5. ASSUME NEW u PROVE Mine(u, a \o (t \o b)) = Mine(u, a) \o (Mine(u, t) \o Mine(u, b))
      <4>1. Mine(u, t \o b) = Mine(u, t) \o Mine(u, b)
        BY <3>3, MineConcat
      <4> DEFINE v == t \o b
      <4> HIDE DEF v
      <4>2. v \in Seq(QueuedItems)
        BY <3>4 DEF v
      <4>3. Mine(u, a \o v) = Mine(u, a) \o Mine(u, v)
        BY <4>2, MineConcat
      <4> QED BY <4>1, <4>3 DEF v
    <3>6. /\ ItemsIn(a) \in Seq(Items) /\ ItemsIn(b) \in Seq(Items) /\ ItemsIn(t) \in Seq(Items)
          /\ ItemsIn(t \o b) \in Seq(Items)
          /\ ItemsIn(a \o (t \o b)) = ItemsIn(a) \o ItemsIn(t \o b) /\ ItemsIn(t \o b) = ItemsIn(t) \o ItemsIn(b)
      BY <3>3, <3>4, ItemsInConcat
    <3>7. ASSUME NEW kind
          PROVE  /\ Number(kind, ItemsIn(a \o (t \o b)))
                     = Number(kind, ItemsIn(a)) + (Number(kind, ItemsIn(t)) + Number(kind, ItemsIn(b)))
                 /\ Number(kind, ItemsIn(a)) \in Nat /\ Number(kind, ItemsIn(b)) \in Nat
      <4> DEFINE c == ItemsIn(a)  d == ItemsIn(b)  e == ItemsIn(t)
      <4>1. c \in Seq(Items) /\ d \in Seq(Items) /\ e \in Seq(Items) /\ e \o d \in Seq(Items)
            /\ ItemsIn(a \o (t \o b)) = c \o (e \o d)
        BY <3>6
      <4> HIDE DEF c, d, e
      <4>2. Number(kind, e \o d) = Number(kind, e) + Number(kind, d)
            /\ Number(kind, e) \in Nat /\ Number(kind, d) \in Nat
        BY <4>1, NumberConcat
      <4> DEFINE v == e \o d
      <4> HIDE DEF v
      <4>3. v \in Seq(Items)
        BY <4>1 DEF v
      <4>4. Number(kind, c \o v) = Number(kind, c) + Number(kind, v) /\ Number(kind, c) \in Nat
        BY <4>1, <4>3, NumberConcat
      <4> QED BY <4>1, <4>2, <4>4 DEF v, c, d, e
    <3> QED BY <3>2, <3>4, <3>5, <3>7 DEF t
  <2>13. q[k].to = p /\ q[k].item = z /\ q[k] \in QueuedItems
    BY <2>2
  <2> DEFINE old == q[k]
  <2> HIDE DEF z, old
  <2>14. old.to = p /\ old.item = z /\ old \in QueuedItems /\ q = a \o (<<old>> \o b)
    BY <2>11, <2>13 DEF old
  <2>15. r \in Seq(QueuedItems)
    BY <2>8, <2>11, <2>12
  <2>16. ASSUME NEW u \in Players, u # p PROVE Mine(u, r) = Mine(u, q)
    <3>1. p \notin {u, Everyone}
      BY <1>0, <2>16
    <3>2. Mine(u, <<old>>) = <<>> /\ Mine(u, <<f>>) = <<>>
      BY <2>8, <2>14, <3>1, MineOne
    <3>3. /\ Mine(u, a \o (<<old>> \o b)) = Mine(u, a) \o (Mine(u, <<old>>) \o Mine(u, b))
          /\ Mine(u, a \o (<<f>> \o b)) = Mine(u, a) \o (Mine(u, <<f>>) \o Mine(u, b))
      BY <2>8, <2>12, <2>14
    <3> QED BY ONLY <2>11, <2>14, <3>2, <3>3
  <2>17. GaveWay(Mine(p, q), Mine(p, r), x)
    <3>1. Mine(p, <<old>>) = <<z>> /\ Mine(p, <<f>>) = <<y>>
      BY <2>8, <2>14, MineOne
    <3>2. Mine(p, a) \in Seq(Items) /\ Mine(p, b) \in Seq(Items)
      BY MineType
    <3>3. States(Mine(p, b)) = <<>>
      <4>1. ASSUME NEW i \in DOMAIN b, IsState(b, i) PROVE b[i].to \notin {p, Everyone}
        <5>1. i \in 1 .. Len(b)
          OBVIOUS
        <5>2. k + i \in k + 1 .. Len(q) /\ b[i] = q[k + i]
          BY <2>11, <5>1
        <5>3. k + i \in DOMAIN q /\ k + i # k /\ IsState(q, k + i)
          BY <2>2, <4>1, <5>1, <5>2 DEF IsState
        <5>4. q[k + i].to # p /\ q[k + i].to \in Players
          BY <2>3, <5>3 DEF OneState
        <5> QED BY <1>0, <5>2, <5>4
      <4> QED BY <4>1, NoStates
    <3>4. GaveWay(Mine(p, a) \o (<<z>> \o Mine(p, b)), Mine(p, a) \o (<<y>> \o Mine(p, b)), x)
      <4> DEFINE c == Mine(p, a)  d == Mine(p, b)
      <4> HIDE DEF c, d
      <4>1. c \in Seq(Items) /\ d \in Seq(Items) /\ States(d) = <<>>
        BY <3>2, <3>3 DEF c, d
      <4>2. GaveWay(c \o (<<z>> \o d), c \o (<<y>> \o d), x)
        BY <2>5, <2>6, <4>1, GivesWay
      <4> QED BY <4>2 DEF c, d
    <3>5. Mine(p, q) = Mine(p, a) \o (<<z>> \o Mine(p, b))
      BY <2>12, <2>14, <3>1
    <3>6. Mine(p, r) = Mine(p, a) \o (<<y>> \o Mine(p, b))
      BY <2>8, <2>11, <2>12, <3>1
    <3> QED BY <3>4, <3>5, <3>6
  <2>18. ASSUME NEW kind
         PROVE  Number(kind, ItemsIn(r)) = Number(kind, ItemsIn(q)) /\ Number(kind, ItemsIn(q)) \in Nat
    <3>1. old.item.kind = f.item.kind
      BY <2>5, <2>6, <2>8, <2>14
    <3>2. /\ Number(kind, ItemsIn(a \o (<<old>> \o b)))
               = Number(kind, ItemsIn(a)) + ((IF old.item.kind = kind THEN 1 ELSE 0) + Number(kind, ItemsIn(b)))
          /\ Number(kind, ItemsIn(a \o (<<f>> \o b)))
               = Number(kind, ItemsIn(a)) + ((IF f.item.kind = kind THEN 1 ELSE 0) + Number(kind, ItemsIn(b)))
          /\ Number(kind, ItemsIn(a)) \in Nat /\ Number(kind, ItemsIn(b)) \in Nat
      BY <2>8, <2>12, <2>14
    <3>3. Number(kind, ItemsIn(r)) = Number(kind, ItemsIn(q))
      BY ONLY <2>11, <2>14, <3>1, <3>2
    <3>4. Number(kind, ItemsIn(q)) \in Nat
      BY <2>14, <3>2
    <3> QED BY <3>3, <3>4
  <2>19. ASSUME NEW kind
         PROVE  Number(kind, ItemsIn(r)) \in Number(kind, ItemsIn(q)) ..
                  Number(kind, ItemsIn(q)) + (IF kind = "state" THEN 1 ELSE 0)
    BY <2>18
  <2> QED BY <2>9, <2>15, <2>16, <2>17, <2>19
<1> QED BY <1>2, <1>3

-----------------------------------------------------------------------------
(* What a step of the channel comes to.                                    *)
New(x) == x \in Items /\ x.n = made + 1 /\ x.holds = {made + 1}

Enqueue(g, x) ==
  /\ batching /\ x.kind # "state"
  /\ queue' = queue \o QueuedFor(g, x)
  /\ Count(Len(g), x) /\ Owe(g, x)
  /\ UNCHANGED <<wire, counts>>
FireAlone(g, x) ==
  /\ ~batching /\ (x.kind = "state" => \E p \in Players : g = <<p>>)
  /\ Deliver(Alone(g, x)) /\ counts' = ObserveAll(counts, Alone(g, x))
  /\ Count(Len(g), x) /\ Owe(g, x)
  /\ UNCHANGED queue
Replace(p, x) ==
  /\ batching /\ x.kind = "state"
  /\ queue' = Replaced(queue, p, x)
  /\ Count(1, x) /\ Owe(<<p>>, x)
  /\ UNCHANGED <<wire, counts>>

Produce ==
  /\ \E x \in Items :
       /\ New(x)
       /\ \/ \E g \in Seq(Recipients) : Enqueue(g, x) \/ FireAlone(g, x)
          \/ x.kind = "signal" /\ FireLoose(x)
          \/ \E p \in Players : Replace(p, x)
  /\ UNCHANGED <<modes, reading, gone>>
Idle == UNCHANGED <<modes, wireVars, reading, gone, history>>
Consume ==
  \/ Flush
  \/ \E p \in Players : Leave(p) \/ Receive(p) \/ HandlerEnds(p)

LEMMA ItemIsNew ==
  ASSUME made \in Nat
  PROVE  /\ \A s \in Signals : New(Item("signal", s)) /\ Item("signal", s).kind = "signal"
         /\ New(Item("response", "none")) /\ Item("response", "none").kind = "response"
         /\ New(Item("state", "none")) /\ Item("state", "none").kind = "state"
BY DEF New, Item, Items

LEMMA OneRecipient ==
  ASSUME NEW p \in Recipients
  PROVE  <<p>> \in Seq(Recipients) /\ UpToFailing(<<p>>) = <<p>>
<1>1. <<p>> \in Seq(Recipients) /\ DOMAIN <<p>> = {1} /\ <<p>>[1] = p
  BY Single
<1> DEFINE failing == {i \in DOMAIN <<p>> : <<p>>[i] \in gone}
<1>2. CASE failing = {}
  BY <1>2 DEF UpToFailing
<1>3. CASE failing # {}
  <2>1. failing = {1}
    BY <1>1, <1>3
  <2>2. (CHOOSE i \in failing : \A j \in failing : i <= j) = 1
    <3> HIDE DEF failing
    <3> QED BY <2>1
  <2>3. UpToFailing(<<p>>) = SubSeq(<<p>>, 1, 1)
    BY <1>3, <2>2 DEF UpToFailing
  <2>4. SubSeq(<<p>>, 1, 1) = <<p>>
    <3> DEFINE s == <<p>>
    <3>1. s \in Seq(Recipients) /\ Len(s) = 1
      BY <1>1
    <3> HIDE DEF s
    <3>2. SubSeq(s, 1, Len(s)) = s
      BY <3>1
    <3> QED BY <3>1, <3>2 DEF s
  <2> QED BY <2>3, <2>4
<1> QED BY <1>1, <1>2, <1>3

LEMMA PushIs ==
  ASSUME NEW g \in Seq(Recipients), NEW x \in Items,
         x.kind = "state" => ~batching /\ \E p \in Players : g = <<p>>,
         Push(g, x)
  PROVE  \E h \in Seq(Recipients) : Enqueue(h, x) \/ FireAlone(h, x)
<1>1. CASE batching
  <2>1. Enqueue(g, x)
    BY <1>1 DEF Push, Enqueue, QueuedFor
  <2> QED BY <2>1
<1>2. CASE ~batching
  <2> DEFINE h == UpToFailing(g)
  <2>1. h \in Seq(Recipients)
    BY UpToFailingType
  <2>2. x.kind = "state" => \E p \in Players : h = <<p>>
    BY <1>2, OneRecipient DEF Recipients
  <2>3. FireAlone(h, x)
    BY <1>2, <2>2 DEF Push, FireAlone
  <2> QED BY <2>1, <2>3
<1> QED BY <1>1, <1>2

LEMMA EmitIs ==
  ASSUME made \in Nat, NEW g \in Seq(Recipients), NEW s \in Signals, Emit(g, s)
  PROVE  \E x \in Items :
           /\ New(x)
           /\ \/ \E h \in Seq(Recipients) : Enqueue(h, x) \/ FireAlone(h, x)
              \/ x.kind = "signal" /\ FireLoose(x)
<1> DEFINE x == Item("signal", s)
<1>1. New(x) /\ x.kind = "signal"
  BY ItemIsNew
<1>2. x \in Items /\ (FireLoose(x) \/ Push(g, x))
  BY <1>1 DEF Emit, New
<1> HIDE DEF x
<1>3. FireLoose(x) \/ \E h \in Seq(Recipients) : Enqueue(h, x) \/ FireAlone(h, x)
  BY <1>1, <1>2, PushIs
<1> QED BY <1>1, <1>2, <1>3

LEMMA NextIs ==
  ASSUME ChannelTypeOK, [ChannelNext]_channelVars
  PROVE  /\ Produce \/ Idle \/ Consume
         /\ batch' \in [Batches -> [sent: Nat, end: {"none", "waits", "resolved", "rejected"}]]
<1> DEFINE B == [Batches -> [sent: Nat, end: {"none", "waits", "resolved", "rejected"}]]
<1>0. made \in Nat /\ batch \in B
  BY DEF ChannelTypeOK
<1>1. ASSUME NEW g \in Groups \cup {<<Everyone>>}, NEW s \in Signals, Publish(g, s)
      PROVE  Produce /\ batch' \in B
  <2>1. g \in Seq(Recipients)
    <3>1. CASE g = <<Everyone>>
      BY <3>1, OneRecipient DEF Recipients
    <3>2. CASE g \in Groups
      <4>1. g \in Seq(Players) /\ Players \subseteq Recipients
        BY <3>2, ChannelAssumption DEF Recipients
      <4> QED BY <4>1
    <3> QED BY <3>1, <3>2
  <2>2. Emit(g, s) /\ UNCHANGED <<modes, reading, gone, batch>>
    BY <1>1 DEF Publish
  <2> QED BY <1>0, <2>1, <2>2, EmitIs DEF Produce
<1>2. ASSUME NEW p \in Players, Respond(p) PROVE Produce /\ batch' \in B
  <2> DEFINE x == Item("response", "none")
  <2>1. New(x) /\ x \in Items /\ x.kind # "state"
    BY <1>0, ItemIsNew DEF New
  <2>2. Push(<<p>>, x) /\ UNCHANGED <<modes, reading, gone, batch>>
    BY <1>2 DEF Respond
  <2> HIDE DEF x
  <2>3. <<p>> \in Seq(Recipients)
    BY OneRecipient DEF Recipients
  <2>4. \E h \in Seq(Recipients) : Enqueue(h, x) \/ FireAlone(h, x)
    BY <2>1, <2>2, <2>3, PushIs
  <2> QED BY <1>0, <2>1, <2>2, <2>4 DEF Produce
<1>3. ASSUME NEW p \in Players, SendState(p) PROVE Produce /\ batch' \in B
  <2> DEFINE x == Item("state", "none")
  <2>1. New(x) /\ x \in Items /\ x.kind = "state"
    BY <1>0, ItemIsNew DEF New
  <2>2. /\ UNCHANGED <<modes, reading, gone, batch>>
        /\ Replace(p, x) \/ (~batching /\ Push(<<p>>, x))
    BY <1>3, <2>1 DEF SendState, Replace
  <2> HIDE DEF x
  <2>3. <<p>> \in Seq(Recipients)
    BY OneRecipient DEF Recipients
  <2>4. Replace(p, x) \/ \E h \in Seq(Recipients) : Enqueue(h, x) \/ FireAlone(h, x)
    BY <2>1, <2>2, <2>3, PushIs
  <2> QED BY <1>0, <2>1, <2>2, <2>4 DEF Produce
<1>4. ASSUME NEW b \in Batches, NextOfBatch(b) PROVE (Produce \/ Idle) /\ batch' \in B
  <2>1. BatchOf[b].to \in Players /\ BatchOf[b].signal \in Signals /\ batch[b] \in [sent: Nat, end: {"none", "waits", "resolved", "rejected"}]
    BY <1>0, ChannelAssumption
  <2>2. <<BatchOf[b].to>> \in Seq(Recipients)
    BY <2>1, OneRecipient DEF Recipients
  <2>3. batch[b].sent + 1 \in Nat
    BY <2>1
  <2>4. CASE Emit(<<BatchOf[b].to>>, BatchOf[b].signal)
    <3>1. UNCHANGED <<modes, reading, gone>>
      BY <1>4 DEF NextOfBatch
    <3>2. Produce
      BY <1>0, <2>1, <2>2, <2>4, <3>1, EmitIs DEF Produce
    <3>3. \E n \in Nat, e \in {"none", "waits", "resolved", "rejected"} :
            batch' = [batch EXCEPT ![b].sent = n, ![b].end = e] \/ batch' = [batch EXCEPT ![b].end = e]
      BY <1>4, <2>3 DEF NextOfBatch
    <3>4. batch' \in B
      BY <1>0, <3>3
    <3> QED BY <3>2, <3>4
  <2>5. CASE ~Emit(<<BatchOf[b].to>>, BatchOf[b].signal)
    <3>1. batch' = [batch EXCEPT ![b].end = "rejected"] /\ Idle
      BY <1>4, <2>5 DEF NextOfBatch, Idle
    <3> QED BY <1>0, <3>1
  <2> QED BY <2>4, <2>5
<1>5. ASSUME NEW b \in Batches, Resumes(b) PROVE Idle /\ batch' \in B
  BY <1>0, <1>5 DEF Resumes, Idle
<1>6. ASSUME Consume PROVE batch' \in B
  BY <1>0, <1>6 DEF Consume, Flush, Leave, Receive, HandlerEnds
<1>7. ASSUME UNCHANGED channelVars PROVE Idle /\ batch' \in B
  BY <1>0, <1>7 DEF channelVars, Idle
<1>8. CASE ChannelNext
  <2>1. \/ Producers \/ (\E b \in Batches : Continues(b)) \/ Consume
    BY <1>8 DEF ChannelNext, Consume
  <2>2. CASE Producers
    BY <1>1, <1>2, <1>3, <1>4, <1>5, <2>2 DEF Producers, Begins
  <2>3. CASE \E b \in Batches : Continues(b)
    BY <1>4, <2>3 DEF Continues
  <2> QED BY <1>6, <2>1, <2>2, <2>3
<1> QED BY <1>7, <1>8

-----------------------------------------------------------------------------
(* What holds of the channel's state besides its types: a queue has one    *)
(* state per player, frames on their way are such that a client reads      *)
(* them, and the maps of the metrics stay small.                           *)
Typed ==
  /\ ChannelTypeOK /\ FewIds(counts) /\ OneState(queue)
  /\ wire \in [Players -> Seq(SentFrames)]

LEMMA TypedIs ==
  ASSUME ChannelTypeOK
  PROVE  /\ batching \in BOOLEAN /\ yields \in BOOLEAN /\ (yields => batching)
         /\ queue \in Seq(QueuedItems) /\ (~batching => queue = <<>>)
         /\ wire \in [Players -> Seq(AnyFrames)]
         /\ rest \in [Players -> Seq(Seq(Items))] /\ (~yields => rest = [p \in Players |-> <<>>])
         /\ read \in [Players -> Seq(Items)] /\ owed \in [Players -> Seq(Items)]
         /\ skipped \in [Players -> SUBSET Nat] /\ threw \in [Players -> Nat]
         /\ gone \subseteq Players /\ made \in Nat /\ pushed \in [response: Nat, signal: Nat, state: Nat]
BY DEF ChannelTypeOK, QueuedItems, AnyFrames, Recipients

LEMMA TypeFrom ==
  ASSUME batching \in BOOLEAN, yields \in BOOLEAN, yields => batching,
         queue \in Seq(QueuedItems), ~batching => queue = <<>>,
         wire \in [Players -> Seq(SentFrames)],
         rest \in [Players -> Seq(Seq(Items))], ~yields => rest = [p \in Players |-> <<>>],
         read \in [Players -> Seq(Items)], owed \in [Players -> Seq(Items)],
         skipped \in [Players -> SUBSET Nat], threw \in [Players -> Nat],
         gone \subseteq Players, made \in Nat, pushed \in [response: Nat, signal: Nat, state: Nat],
         batch \in [Batches -> [sent: Nat, end: {"none", "waits", "resolved", "rejected"}]],
         FewIds(counts), OneState(queue)
  PROVE  Typed
<1>1. wire \in [Players -> Seq(AnyFrames)]
  BY SentFramesIs
<1>2. counts \in AllCounts /\ counts.signals \in IdCounts
  BY DEF FewIds, AllCounts
<1>3. DOMAIN counts.signals \subseteq Signals \cup {Other} /\ counts.signals \in [DOMAIN counts.signals -> Nat]
  BY <1>2 DEF IdCounts
<1>4. counts \in [frames: Nat, response: Nat, signal: Nat, state: Nat, signals: {counts.signals}]
  BY <1>2 DEF AllCounts
<1> QED BY <1>1, <1>3, <1>4 DEF Typed, ChannelTypeOK, QueuedItems, AnyFrames, Recipients

LEMMA TypeFromPrimed ==
  ASSUME batching' \in BOOLEAN, yields' \in BOOLEAN, yields' => batching',
         queue' \in Seq(QueuedItems), ~batching' => queue' = <<>>,
         wire' \in [Players -> Seq(SentFrames)],
         rest' \in [Players -> Seq(Seq(Items))], ~yields' => rest' = [p \in Players |-> <<>>],
         read' \in [Players -> Seq(Items)], owed' \in [Players -> Seq(Items)],
         skipped' \in [Players -> SUBSET Nat], threw' \in [Players -> Nat],
         gone' \subseteq Players, made' \in Nat, pushed' \in [response: Nat, signal: Nat, state: Nat],
         batch' \in [Batches -> [sent: Nat, end: {"none", "waits", "resolved", "rejected"}]],
         FewIds(counts)', OneState(queue)'
  PROVE  Typed'
<1>1. wire' \in [Players -> Seq(AnyFrames)]
  BY SentFramesIs
<1>2. counts' \in AllCounts /\ counts'.signals \in IdCounts
  BY DEF FewIds, AllCounts
<1>3. DOMAIN counts'.signals \subseteq Signals \cup {Other} /\ counts'.signals \in [DOMAIN counts'.signals -> Nat]
  BY <1>2 DEF IdCounts
<1>4. counts' \in [frames: Nat, response: Nat, signal: Nat, state: Nat, signals: {counts'.signals}]
  BY <1>2 DEF AllCounts
<1> QED BY <1>1, <1>3, <1>4 DEF Typed, ChannelTypeOK, QueuedItems, AnyFrames, Recipients

LEMMA DeliverIs ==
  ASSUME wire \in [Players -> Seq(SentFrames)], NEW frames \in Seq(SentFrames), Deliver(frames)
  PROVE  /\ wire' \in [Players -> Seq(SentFrames)]
         /\ \A p \in Players \ gone : Flat(wire'[p]) = Flat(wire[p]) \o For(p, frames)
<1>1. ASSUME NEW p \in Players
      PROVE  /\ Arriving(p, frames) \in Seq(SentFrames) /\ wire[p] \in Seq(SentFrames)
             /\ wire[p] \o Arriving(p, frames) \in Seq(SentFrames)
  <2>1. Arriving(p, frames) \in Seq(SentFrames)
    BY AtType DEF Arriving
  <2> QED BY <2>1, Joining
<1>2. wire' \in [Players -> Seq(SentFrames)]
  BY <1>1 DEF Deliver
<1>3. ASSUME NEW p \in Players \ gone PROVE Flat(wire'[p]) = Flat(wire[p]) \o For(p, frames)
  <2>1. wire'[p] = wire[p] \o Arriving(p, frames)
    BY <1>3 DEF Deliver
  <2>2. wire[p] \in Seq(AnyFrames) /\ Arriving(p, frames) \in Seq(AnyFrames)
    BY <1>1, SentFramesIs
  <2> QED BY <2>1, <2>2, FlatConcat DEF For
<1> QED BY <1>2, <1>3

LEMMA OweIs ==
  ASSUME owed \in [Players -> Seq(Items)], NEW g \in Seq(Recipients), NEW x \in Items, Owe(g, x)
  PROVE  owed' \in [Players -> Seq(Items)] /\ \A p \in Players : owed'[p] = owed[p] \o Owed(p, g, x)
<1>1. owed' = [p \in Players |-> owed[p] \o Owed(p, g, x)]
  BY DEF Owe, Owed, Copies
<1>2. \A p \in Players : owed[p] \o Owed(p, g, x) \in Seq(Items)
  BY OwedType, Joining
<1> QED BY <1>1, <1>2

LEMMA CountIs ==
  ASSUME made \in Nat, pushed \in [response: Nat, signal: Nat, state: Nat], NEW x \in Items, NEW n \in Nat, Count(n, x)
  PROVE  /\ made' \in Nat /\ made' = made + 1 /\ pushed' \in [response: Nat, signal: Nat, state: Nat]
         /\ pushed'.response = pushed.response + (IF x.kind = "response" THEN n ELSE 0)
         /\ pushed'.signal = pushed.signal + (IF x.kind = "signal" THEN n ELSE 0)
         /\ pushed'.state = pushed.state + (IF x.kind = "state" THEN n ELSE 0)
<1>1. pushed' = [pushed EXCEPT ![x.kind] = @ + n] /\ made' = made + 1
  BY DEF Count
<1>2. x.kind \in Kinds
  BY ItemKinds
<1>3. pushed.response \in Nat /\ pushed.signal \in Nat /\ pushed.state \in Nat
  OBVIOUS
<1>4. CASE x.kind = "response"
  BY <1>1, <1>3, <1>4
<1>5. CASE x.kind = "signal"
  BY <1>1, <1>3, <1>5
<1>6. CASE x.kind = "state"
  BY <1>1, <1>3, <1>6
<1> QED BY <1>2, <1>4, <1>5, <1>6 DEF Kinds

LEMMA LooseFrame ==
  ASSUME NEW x \in Items
  PROVE  <<Frame(Everyone, <<x>>)>> \in Seq(SentFrames) /\ Flat(<<Frame(Everyone, <<x>>)>>) = <<x>>
<1> DEFINE f == Frame(Everyone, <<x>>)
<1>1. f \in SentFrames /\ f \in AnyFrames /\ f.items = <<x>>
  <2>1. <<x>> \in Seq(Items) /\ Len(<<x>>) = 1 /\ 1 \in 1 .. MaxFrameItems
    BY Single, OutboxAssumption
  <2> QED BY <2>1 DEF Frame, AnyFrames, SentFrames, Recipients
<1> HIDE DEF f
<1>2. <<f>> \in Seq(SentFrames) /\ Flat(<<f>>) = <<x>>
  BY <1>1, Single, FlatOne
<1> QED BY <1>2 DEF f

LEMMA ObservingIs ==
  ASSUME FewIds(counts), NEW frames \in Seq(SentFrames), counts' = ObserveAll(counts, frames)
  PROVE  Counts(counts, counts', Flat(frames)) /\ FewIds(counts)'
<1>1. frames \in Seq(AnyFrames) /\ Sendable(frames)
  BY SentFramesIs
<1>2. Counts(counts, ObserveAll(counts, frames), Flat(frames))
  BY <1>1, ObserveAllIs
<1> QED BY <1>2 DEF Counts

LEMMA FlushedIs ==
  ASSUME queue \in Seq(QueuedItems)
  PROVE  Frames(queue) \in Seq(SentFrames) /\ Carries(Frames(queue), queue)
<1>1. Carries(Frames(queue), queue) /\ Sendable(Frames(queue))
  BY FramesIs
<1> QED BY <1>1, SentFramesIs DEF Carries

(* Reading.                                                                *)
Taken(p, items, others) ==
  \/ Take(p, items, Len(items), others)
  \/ yields /\ \E k \in 1 .. Len(items) : Take(p, items, k, others)

LEMMA HandleTakes ==
  ASSUME NEW p, NEW items, NEW others, Handle(p, items, others)
  PROVE  Taken(p, items, others) /\ UNCHANGED <<skipped, threw>>
BY DEF Handle, Taken

LEMMA ThrowTakes ==
  ASSUME NEW p, NEW items, NEW others, NEW k, Throw(p, items, k, others)
  PROVE  Taken(p, items, others)
BY DEF Throw, Taken

LEMMA ReceiveTakes ==
  ASSUME NEW p \in Players, Receive(p)
  PROVE  LET items == ItemsOf(Head(wire[p])) IN
         (items = <<>> /\ UNCHANGED reading) \/ Taken(p, items, rest[p])
BY HandleTakes, ThrowTakes DEF Receive

LEMMA HandlerEndTakes ==
  ASSUME NEW p \in Players, HandlerEnds(p)
  PROVE  \E i \in DOMAIN rest[p] : Taken(p, rest[p][i], RemoveAt(rest[p], i))
BY HandleTakes, ThrowTakes DEF HandlerEnds

LEMMA TakenType ==
  ASSUME read \in [Players -> Seq(Items)], rest \in [Players -> Seq(Seq(Items))],
         NEW p \in Players, NEW items \in Seq(Items), NEW others \in Seq(Seq(Items)),
         Taken(p, items, others)
  PROVE  read' \in [Players -> Seq(Items)] /\ rest' \in [Players -> Seq(Seq(Items))]
<1> DEFINE Q == Seq(Items)
<1>0. Len(items) \in 0 .. Len(items) /\ 1 .. Len(items) \subseteq 0 .. Len(items)
  <2>1. Len(items) \in Nat
    BY LenProperties
  <2> QED BY <2>1
<1>k. PICK k \in 0 .. Len(items) : (k = Len(items) \/ yields) /\ Take(p, items, k, others)
  BY <1>0, Zenon DEF Taken
<1>1.
        /\ read' = [read EXCEPT ![p] = @ \o SubSeq(items, 1, k)]
        /\ rest' = [rest EXCEPT ![p] =
             IF k = Len(items) THEN others ELSE Append(others, SubSeq(items, k + 1, Len(items)))]
  BY <1>k DEF Take
<1>2. SubSeq(items, 1, k) \in Q /\ SubSeq(items, k + 1, Len(items)) \in Q /\ read[p] \in Q
  OBVIOUS
<1>3. read[p] \o SubSeq(items, 1, k) \in Q
  BY <1>2, Joining
<1> HIDE DEF Q
<1>4. others \in Seq(Q) /\ rest \in [Players -> Seq(Q)] /\ read \in [Players -> Q]
  BY DEF Q
<1>5. Append(others, SubSeq(items, k + 1, Len(items))) \in Seq(Q)
  BY <1>2, <1>4
<1> QED BY <1>1, <1>3, <1>4, <1>5 DEF Q

LEMMA TypedInit == ChannelInit => Typed
<1> SUFFICES ASSUME ChannelInit PROVE Typed
  OBVIOUS
<1>1. <<>> \in Seq(QueuedItems) /\ <<>> \in Seq(SentFrames) /\ <<>> \in Seq(Seq(Items)) /\ <<>> \in Seq(Items)
  OBVIOUS
<1>2. FewIds(counts) /\ OneState(queue)
  BY FewIdsStart DEF ChannelInit, OneState
<1>3. batching \in BOOLEAN /\ yields \in BOOLEAN /\ (yields => batching)
  BY DEF ChannelInit
<1> DEFINE S == Seq(SentFrames)  R == Seq(Seq(Items))  I == Seq(Items)
<1>4. wire \in [Players -> S] /\ rest \in [Players -> R] /\ read \in [Players -> I] /\ owed \in [Players -> I]
  <2> HIDE DEF S, R, I
  <2>1. <<>> \in S /\ <<>> \in R /\ <<>> \in I
    BY <1>1 DEF S, R, I
  <2> QED BY <2>1 DEF ChannelInit
<1>5. /\ queue = <<>> /\ rest = [p \in Players |-> <<>>] /\ gone = {} /\ made = 0
      /\ pushed \in [response: Nat, signal: Nat, state: Nat]
      /\ skipped \in [Players -> SUBSET Nat] /\ threw \in [Players -> Nat]
      /\ batch \in [Batches -> [sent: Nat, end: {"none", "waits", "resolved", "rejected"}]]
  BY DEF ChannelInit
<1> QED BY <1>1, <1>2, <1>3, <1>4, <1>5, TypeFrom

LEMMA ThrowType ==
  ASSUME skipped \in [Players -> SUBSET Nat], threw \in [Players -> Nat], read \in [Players -> Seq(Items)],
         NEW p \in Players, NEW items, NEW k \in Nat, NEW others, Throw(p, items, k, others)
  PROVE  skipped' \in [Players -> SUBSET Nat] /\ threw' \in [Players -> Nat]
<1> DEFINE lost == Len(read[p]) + k + 1 .. Len(read[p]) + Len(items)
<1>1. Len(read[p]) \in Nat
  BY LenProperties
<1>2. \A n \in lost : n \in Int /\ n >= Len(read[p]) + k + 1
  OBVIOUS
<1>3. lost \in SUBSET Nat
  <2> HIDE DEF lost
  <2> QED BY <1>1, <1>2
<1>4. skipped' = [skipped EXCEPT ![p] = @ \cup lost] /\ threw' = [threw EXCEPT ![p] = @ + 1]
  BY DEF Throw
<1> HIDE DEF lost
<1>5. skipped[p] \in SUBSET Nat /\ threw[p] \in Nat
  OBVIOUS
<1>6. skipped[p] \cup lost \in SUBSET Nat
  BY <1>3, <1>5
<1>7. threw[p] + 1 \in Nat
  BY <1>5
<1> QED BY <1>4, <1>6, <1>7

LEMMA LossType ==
  ASSUME ChannelTypeOK, [ChannelNext]_channelVars
  PROVE  skipped' \in [Players -> SUBSET Nat] /\ threw' \in [Players -> Nat]
<1>0. /\ skipped \in [Players -> SUBSET Nat] /\ threw \in [Players -> Nat]
      /\ read \in [Players -> Seq(Items)]
  BY TypedIs
<1>1. Produce \/ Idle \/ Consume
  BY NextIs
<1>2. CASE UNCHANGED <<skipped, threw>>
  BY <1>0, <1>2
<1>3. ASSUME NEW p \in Players, NEW items, NEW others, NEW k \in Nat, Throw(p, items, k, others)
      PROVE  skipped' \in [Players -> SUBSET Nat] /\ threw' \in [Players -> Nat]
  BY <1>0, <1>3, ThrowType
<1>4. CASE Produce \/ Idle
  BY <1>2, <1>4 DEF Produce, Idle, reading
<1>5. CASE Flush
  BY <1>2, <1>5 DEF Flush, reading
<1>6. ASSUME NEW p \in Players, Leave(p) PROVE UNCHANGED <<skipped, threw>>
  BY <1>6 DEF Leave
<1>7. ASSUME NEW p \in Players, Receive(p)
      PROVE  \/ UNCHANGED <<skipped, threw>>
             \/ \E items, others : \E k \in Nat : Throw(p, items, k, others)
  <2>1. \A n : 1 .. n \subseteq Nat
    OBVIOUS
  <2> QED BY <1>7, <2>1, HandleTakes DEF Receive, reading
<1>8. ASSUME NEW p \in Players, HandlerEnds(p)
      PROVE  \/ UNCHANGED <<skipped, threw>>
             \/ \E items, others : \E k \in Nat : Throw(p, items, k, others)
  <2>1. \A n : 0 .. n \subseteq Nat
    OBVIOUS
  <2> QED BY <1>8, <2>1, HandleTakes DEF HandlerEnds
<1> QED BY <1>1, <1>2, <1>3, <1>4, <1>5, <1>6, <1>7, <1>8 DEF Consume

LEMMA TypedStep ==
  ASSUME Typed, [ChannelNext]_channelVars
  PROVE  Typed'
<1>0. /\ ChannelTypeOK /\ FewIds(counts) /\ OneState(queue) /\ wire \in [Players -> Seq(SentFrames)]
      /\ batching \in BOOLEAN /\ yields \in BOOLEAN /\ (yields => batching)
      /\ queue \in Seq(QueuedItems) /\ (~batching => queue = <<>>)
      /\ rest \in [Players -> Seq(Seq(Items))] /\ (~yields => rest = [p \in Players |-> <<>>])
      /\ read \in [Players -> Seq(Items)] /\ owed \in [Players -> Seq(Items)]
      /\ gone \subseteq Players /\ made \in Nat /\ pushed \in [response: Nat, signal: Nat, state: Nat]
  BY TypedIs DEF Typed
<1>1. /\ Produce \/ Idle \/ Consume
      /\ batch' \in [Batches -> [sent: Nat, end: {"none", "waits", "resolved", "rejected"}]]
      /\ skipped' \in [Players -> SUBSET Nat] /\ threw' \in [Players -> Nat]
  BY <1>0, NextIs, LossType
<1>2. CASE Idle
  <2>1. UNCHANGED <<batching, yields, queue, wire, counts, rest, read, gone, made, owed, pushed>>
    BY <1>2 DEF Idle, modes, wireVars, reading, history
  <2>2. FewIds(counts)' /\ OneState(queue)'
    BY <1>0, <2>1 DEF OneState, IsState
  <2> QED BY <1>0, <1>1, <2>1, <2>2, TypeFromPrimed
<1>3. CASE Produce
  <2>1. PICK x \in Items :
          /\ New(x)
          /\ \/ \E g \in Seq(Recipients) : Enqueue(g, x) \/ FireAlone(g, x)
             \/ x.kind = "signal" /\ FireLoose(x)
             \/ \E p \in Players : Replace(p, x)
    BY <1>3 DEF Produce
  <2>2. UNCHANGED <<batching, yields, rest, read, gone>>
    BY <1>3 DEF Produce, modes, reading
  <2>3. ASSUME NEW g \in Seq(Recipients), Enqueue(g, x) PROVE Typed'
    <3>1. queue' = queue \o QueuedFor(g, x) /\ UNCHANGED <<wire, counts>> /\ batching /\ x.kind # "state"
          /\ Count(Len(g), x) /\ Owe(g, x)
      BY <2>3 DEF Enqueue
    <3>2. queue' \in Seq(QueuedItems)
      BY <1>0, <3>1, QueuedForIs, Joining
    <3>3. OneState(queue \o QueuedFor(g, x))
      BY <1>0, <3>1, OneStateQueued
    <3>4. FewIds(counts)' /\ OneState(queue)'
      BY <1>0, <3>1, <3>3 DEF OneState, IsState
    <3>5. owed' \in [Players -> Seq(Items)]
      BY <1>0, <3>1, OweIs
    <3>6. made' \in Nat /\ pushed' \in [response: Nat, signal: Nat, state: Nat]
      <4>1. Len(g) \in Nat
        OBVIOUS
      <4> QED BY <1>0, <3>1, <4>1, CountIs
    <3> QED BY <1>0, <1>1, <2>2, <3>1, <3>2, <3>4, <3>5, <3>6, TypeFromPrimed
  <2>4. ASSUME NEW g \in Seq(Recipients), FireAlone(g, x) PROVE Typed'
    <3>1. /\ UNCHANGED queue /\ ~batching /\ Deliver(Alone(g, x)) /\ counts' = ObserveAll(counts, Alone(g, x))
          /\ Count(Len(g), x) /\ Owe(g, x)
      BY <2>4 DEF FireAlone
    <3>2. Alone(g, x) \in Seq(SentFrames)
      BY AloneIs
    <3>3. FewIds(counts)' /\ OneState(queue)'
      BY <1>0, <3>1, <3>2, ObservingIs DEF OneState, IsState
    <3>4. wire' \in [Players -> Seq(SentFrames)]
      BY <1>0, <3>1, <3>2, DeliverIs
    <3>5. owed' \in [Players -> Seq(Items)]
      BY <1>0, <3>1, OweIs
    <3>6. made' \in Nat /\ pushed' \in [response: Nat, signal: Nat, state: Nat]
      <4>1. Len(g) \in Nat
        OBVIOUS
      <4> QED BY <1>0, <3>1, <4>1, CountIs
    <3> QED BY <1>0, <1>1, <2>2, <3>1, <3>3, <3>4, <3>5, <3>6, TypeFromPrimed
  <2>5. ASSUME FireLoose(x) PROVE Typed'
    <3>1. /\ counts' = ObserveAll(counts, <<Frame(Everyone, <<x>>)>>) /\ Count(1, x)
          /\ UNCHANGED <<queue, wire, owed>>
      BY <2>5 DEF FireLoose
    <3>2. <<Frame(Everyone, <<x>>)>> \in Seq(SentFrames)
      BY LooseFrame
    <3>3. FewIds(counts)' /\ OneState(queue)'
      BY <1>0, <3>1, <3>2, ObservingIs DEF OneState, IsState
    <3>4. made' \in Nat /\ pushed' \in [response: Nat, signal: Nat, state: Nat]
      BY <1>0, <3>1, CountIs
    <3> QED BY <1>0, <1>1, <2>2, <3>1, <3>3, <3>4, TypeFromPrimed
  <2>6. ASSUME NEW p \in Players, Replace(p, x) PROVE Typed'
    <3>1. /\ queue' = Replaced(queue, p, x) /\ UNCHANGED <<wire, counts>> /\ batching /\ x.kind = "state"
          /\ Count(1, x) /\ Owe(<<p>>, x)
      BY <2>6 DEF Replace
    <3> DEFINE r == Replaced(queue, p, x)
    <3>2. r \in Seq(QueuedItems) /\ OneState(r)
      <4> HIDE DEF r
      <4>1. r = Replaced(queue, p, x)
        BY DEF r
      <4> QED BY <1>0, <3>1, <4>1, ReplacedIs
    <3>3. FewIds(counts)' /\ OneState(queue)'
      BY <1>0, <3>1, <3>2 DEF OneState, IsState
    <3>4. <<p>> \in Seq(Recipients)
      BY OneRecipient DEF Recipients
    <3>5. owed' \in [Players -> Seq(Items)]
      BY <1>0, <3>1, <3>4, OweIs
    <3>6. made' \in Nat /\ pushed' \in [response: Nat, signal: Nat, state: Nat]
      BY <1>0, <3>1, CountIs
    <3> QED BY <1>0, <1>1, <2>2, <3>1, <3>2, <3>3, <3>5, <3>6, TypeFromPrimed
  <2> QED BY <2>1, <2>3, <2>4, <2>5, <2>6
<1>4. CASE Consume
  <2>1. CASE Flush
    <3>1. /\ Deliver(Frames(queue)) /\ counts' = ObserveAll(counts, Frames(queue)) /\ queue' = <<>>
          /\ UNCHANGED <<batching, yields, rest, read, gone, made, owed, pushed>>
      BY <2>1 DEF Flush, modes, reading, history
    <3>2. Frames(queue) \in Seq(SentFrames)
      BY <1>0, FlushedIs
    <3>3. FewIds(counts)' /\ OneState(queue)'
      BY <1>0, <3>1, <3>2, ObservingIs DEF OneState, IsState
    <3>4. wire' \in [Players -> Seq(SentFrames)]
      BY <1>0, <3>1, <3>2, DeliverIs
    <3>5. queue' \in Seq(QueuedItems)
      BY <3>1
    <3> QED BY <1>0, <1>1, <3>1, <3>3, <3>4, <3>5, TypeFromPrimed
  <2> DEFINE S == Seq(SentFrames)  R == Seq(Seq(Items))
  <2>2. <<>> \in S /\ <<>> \in R /\ wire \in [Players -> S] /\ rest \in [Players -> R]
    BY <1>0
  <2>3. ASSUME NEW p \in Players, Leave(p) PROVE Typed'
    <3>1. /\ gone' = gone \cup {p} /\ wire' = [wire EXCEPT ![p] = <<>>] /\ rest' = [rest EXCEPT ![p] = <<>>]
          /\ UNCHANGED <<batching, yields, queue, counts, read, made, owed, pushed>>
      BY <2>3 DEF Leave, modes, history
    <3>2. FewIds(counts)' /\ OneState(queue)'
      BY <1>0, <3>1 DEF OneState, IsState
    <3>3. wire' \in [Players -> S] /\ rest' \in [Players -> R]
      <4> HIDE DEF S, R
      <4> QED BY <2>2, <3>1
    <3>4. ~yields' => rest' = [u \in Players |-> <<>>]
      BY <1>0, <3>1
    <3> QED BY <1>0, <1>1, <3>1, <3>2, <3>3, <3>4, TypeFromPrimed
  <2>4. ASSUME NEW p \in Players, Receive(p) PROVE Typed'
    <3> DEFINE items == ItemsOf(Head(wire[p]))
    <3>1. /\ wire[p] # <<>> /\ wire' = [wire EXCEPT ![p] = Tail(@)]
          /\ (items = <<>> /\ UNCHANGED <<read, rest>>) \/ Taken(p, items, rest[p])
          /\ UNCHANGED <<batching, yields, queue, counts, gone, made, owed, pushed>>
      BY <2>4, ReceiveTakes DEF Receive, modes, reading, history
    <3>2. Tail(wire[p]) \in S /\ Head(wire[p]) \in SentFrames
      <4>1. wire[p] \in Seq(SentFrames)
        BY <1>0
      <4> QED BY <3>1, <4>1
    <3>3. wire' \in [Players -> S]
      <4> HIDE DEF S
      <4> QED BY <2>2, <3>1, <3>2
    <3>4. items \in Seq(Items)
      <4>1. Head(wire[p]).items \in Seq(Items)
        BY <3>2 DEF SentFrames, AnyFrames
      <4> QED BY <4>1 DEF ItemsOf
    <3> HIDE DEF items
    <3>5. rest[p] \in Seq(Seq(Items))
      BY <1>0
    <3>6. read' \in [Players -> Seq(Items)] /\ rest' \in [Players -> Seq(Seq(Items))]
      BY <1>0, <3>1, <3>4, <3>5, TakenType
    <3>7. ~yields' => rest' = [u \in Players |-> <<>>]
      <4> SUFFICES ASSUME ~yields PROVE rest' = [u \in Players |-> <<>>]
        BY <3>1
      <4>1. rest = [u \in Players |-> <<>>]
        BY <1>0
      <4>2. CASE Taken(p, items, rest[p])
        <5>1. rest' = [rest EXCEPT ![p] = rest[p]]
          BY <1>0, <4>2 DEF Taken, Take
        <5> QED BY <4>1, <5>1
      <4> QED BY <3>1, <4>1, <4>2
    <3>8. FewIds(counts)' /\ OneState(queue)'
      BY <1>0, <3>1 DEF OneState, IsState
    <3> QED BY <1>0, <1>1, <3>1, <3>3, <3>6, <3>7, <3>8, TypeFromPrimed
  <2>5. ASSUME NEW p \in Players, HandlerEnds(p) PROVE Typed'
    <3>1. UNCHANGED <<batching, yields, queue, wire, counts, gone, made, owed, pushed>>
      BY <2>5 DEF HandlerEnds, modes, wireVars, history
    <3>2. PICK i \in DOMAIN rest[p] : Taken(p, rest[p][i], RemoveAt(rest[p], i))
      BY <2>5, HandlerEndTakes
    <3>3. rest[p][i] \in Seq(Items) /\ RemoveAt(rest[p], i) \in Seq(Seq(Items))
      <4> DEFINE Q == Seq(Items)
      <4> HIDE DEF Q
      <4>1. rest[p] \in Seq(Q)
        BY <1>0 DEF Q
      <4>2. i \in 1 .. Len(rest[p])
        BY <4>1
      <4>3. rest[p][i] \in Q /\ RemoveAt(rest[p], i) \in Seq(Q)
        BY <4>1, <4>2 DEF RemoveAt
      <4> QED BY <4>3 DEF Q
    <3>4. read' \in [Players -> Seq(Items)] /\ rest' \in [Players -> Seq(Seq(Items))]
      BY <1>0, <3>2, <3>3, TakenType
    <3>5. yields
      <4> SUFFICES ASSUME ~yields PROVE FALSE
        BY <1>0
      <4>1. rest[p] = <<>>
        BY <1>0
      <4> QED BY <3>2, <4>1
    <3>6. FewIds(counts)' /\ OneState(queue)'
      BY <1>0, <3>1 DEF OneState, IsState
    <3> QED BY <1>0, <1>1, <3>1, <3>4, <3>5, <3>6, TypeFromPrimed
  <2> QED BY <1>4, <2>1, <2>3, <2>4, <2>5 DEF Consume
<1> QED BY <1>1, <1>2, <1>3, <1>4

(* The channel's state keeps its types, whatever is published and whoever  *)
(* leaves: every frame sent is one its clients read (wire.ts:133-172), and *)
(* a queue never holds two states for a player (wire.ts:344-362).          *)
THEOREM ChannelTypeCorrect == ChannelSpec => []Typed /\ []ChannelTypeOK
<1>1. Typed /\ [ChannelNext]_channelVars => Typed'
  BY TypedStep
<1>2. Typed => ChannelTypeOK
  BY DEF Typed
<1> QED BY <1>1, <1>2, TypedInit, PTL DEF ChannelSpec

-----------------------------------------------------------------------------
(* What was counted and what waits, against what was pushed.               *)
Balance ==
  /\ counts.response + Number("response", ItemsIn(queue)) = pushed.response
  /\ counts.signal + Number("signal", ItemsIn(queue)) = pushed.signal
  /\ counts.state + Number("state", ItemsIn(queue)) <= pushed.state

LEMMA BalanceInit == ChannelInit => Balance
<1> SUFFICES ASSUME ChannelInit PROVE Balance
  OBVIOUS
<1>1. ItemsIn(queue) = <<>>
  BY DEF ItemsIn, ChannelInit
<1>2. /\ counts.response = 0 /\ counts.signal = 0 /\ counts.state = 0
      /\ pushed.response = 0 /\ pushed.signal = 0 /\ pushed.state = 0
  BY DEF ChannelInit, NoCounts
<1> QED BY <1>1, <1>2, NumberSmall DEF Balance

(* The counts and what waits both went up, together by what was pushed.    *)
LEMMA BalanceKept ==
  ASSUME FewIds(counts), Balance, queue \in Seq(QueuedItems), pushed \in [response: Nat, signal: Nat, state: Nat],
         NEW more,
         \A kind \in Kinds : more[kind] \in Nat /\ pushed'[kind] = pushed[kind] + more[kind],
         counts'["response"] + Number("response", ItemsIn(queue')) =
           counts["response"] + Number("response", ItemsIn(queue)) + more["response"],
         counts'["signal"] + Number("signal", ItemsIn(queue')) =
           counts["signal"] + Number("signal", ItemsIn(queue)) + more["signal"],
         counts'["state"] + Number("state", ItemsIn(queue')) <=
           counts["state"] + Number("state", ItemsIn(queue)) + more["state"],
         counts' \in AllCounts, queue' \in Seq(QueuedItems)
  PROVE  Balance'
<1>1. counts \in AllCounts
  BY DEF FewIds
<1>2. \A kind \in Kinds : counts[kind] \in Nat /\ counts'[kind] \in Nat
  BY <1>1, KindsAreNat
<1>3. ItemsIn(queue) \in Seq(Items) /\ ItemsIn(queue') \in Seq(Items)
  BY ItemsInConcat
<1>4. \A kind : Number(kind, ItemsIn(queue)) \in Nat /\ Number(kind, ItemsIn(queue')) \in Nat
  BY <1>3, NumberConcat
<1>5. pushed.response \in Nat /\ pushed.signal \in Nat /\ pushed.state \in Nat
  OBVIOUS
<1> DEFINE c == counts'  q == queue'  o == pushed'
           before(kind) == Number(kind, ItemsIn(queue))  now(kind) == Number(kind, ItemsIn(q))
<1>6. /\ "response" \in Kinds /\ "signal" \in Kinds /\ "state" \in Kinds
      /\ counts.response + before("response") = pushed.response
      /\ counts.signal + before("signal") = pushed.signal
      /\ counts.state + before("state") <= pushed.state
  BY DEF Balance, Kinds
<1>7. /\ \A kind \in Kinds : counts[kind] \in Nat /\ c[kind] \in Nat /\ pushed[kind] \in Nat /\ more[kind] \in Nat
      /\ \A kind : before(kind) \in Nat /\ now(kind) \in Nat
      /\ \A kind \in Kinds : o[kind] = pushed[kind] + more[kind]
      /\ c["response"] + now("response") = counts["response"] + before("response") + more["response"]
      /\ c["signal"] + now("signal") = counts["signal"] + before("signal") + more["signal"]
      /\ c["state"] + now("state") <= counts["state"] + before("state") + more["state"]
  BY <1>2, <1>4, <1>5 DEF Kinds
<1> HIDE DEF c, o, before, now
<1>8. c.response + now("response") = o.response
  BY <1>6, <1>7
<1>9. c.signal + now("signal") = o.signal
  BY <1>6, <1>7
<1>10. c.state + now("state") <= o.state
  <2>1. /\ counts["state"] \in Nat /\ c["state"] \in Nat /\ pushed["state"] \in Nat /\ more["state"] \in Nat
        /\ before("state") \in Nat /\ now("state") \in Nat /\ o["state"] = pushed["state"] + more["state"]
        /\ c["state"] + now("state") <= counts["state"] + before("state") + more["state"]
        /\ counts["state"] + before("state") <= pushed["state"]
    BY <1>6, <1>7
  <2> QED BY ONLY <2>1
<1> QED BY <1>8, <1>9, <1>10 DEF Balance, ItemsIn, c, o, now

More(n, x) == [kind \in Kinds |-> IF x.kind = kind THEN n ELSE 0]

LEMMA MoreIs ==
  ASSUME made \in Nat, pushed \in [response: Nat, signal: Nat, state: Nat], NEW x \in Items, NEW n \in Nat, Count(n, x)
  PROVE  \A kind \in Kinds : /\ More(n, x)[kind] \in Nat /\ pushed'[kind] = pushed[kind] + More(n, x)[kind]
                             /\ More(n, x)[kind] = IF x.kind = kind THEN n ELSE 0
<1>1. /\ pushed'.response = pushed.response + (IF x.kind = "response" THEN n ELSE 0)
      /\ pushed'.signal = pushed.signal + (IF x.kind = "signal" THEN n ELSE 0)
      /\ pushed'.state = pushed.state + (IF x.kind = "state" THEN n ELSE 0)
  BY CountIs
<1> QED BY <1>1 DEF More, Kinds

LEMMA BalanceStep ==
  ASSUME Typed, Typed', Balance, [ChannelNext]_channelVars
  PROVE  Balance'
<1>0. /\ ChannelTypeOK /\ FewIds(counts) /\ OneState(queue)
      /\ queue \in Seq(QueuedItems) /\ (~batching => queue = <<>>)
      /\ made \in Nat /\ pushed \in [response: Nat, signal: Nat, state: Nat]
  BY TypedIs DEF Typed
<1>1. queue' \in Seq(QueuedItems) /\ counts' \in AllCounts /\ counts \in AllCounts
  BY <1>0 DEF Typed, ChannelTypeOK, QueuedItems, Recipients, FewIds
<1>2. Produce \/ Idle \/ Consume
  BY <1>0, NextIs
<1>3. /\ ItemsIn(queue) \in Seq(Items)
      /\ \A kind : Number(kind, ItemsIn(queue)) \in Nat
      /\ \A kind \in Kinds : counts[kind] \in Nat
      /\ "response" \in Kinds /\ "signal" \in Kinds /\ "state" \in Kinds
  <2>1. ItemsIn(queue) \in Seq(Items)
    BY <1>0, ItemsInConcat
  <2> QED BY <1>1, <2>1, NumberConcat, KindsAreNat DEF Kinds
<1>4. ASSUME UNCHANGED <<queue, counts, pushed>> PROVE Balance'
  BY <1>4 DEF Balance, ItemsIn
<1>5. CASE Idle
  BY <1>4, <1>5 DEF Idle, wireVars, history
<1>6. CASE Produce
  <2>1. PICK x \in Items :
          /\ New(x)
          /\ \/ \E g \in Seq(Recipients) : Enqueue(g, x) \/ FireAlone(g, x)
             \/ x.kind = "signal" /\ FireLoose(x)
             \/ \E p \in Players : Replace(p, x)
    BY <1>6 DEF Produce
  <2>2. ASSUME NEW g \in Seq(Recipients), Enqueue(g, x) PROVE Balance'
    <3>1. queue' = queue \o QueuedFor(g, x) /\ UNCHANGED <<wire, counts>> /\ Count(Len(g), x) /\ Len(g) \in Nat
      BY <2>2 DEF Enqueue
    <3>2. /\ QueuedFor(g, x) \in Seq(QueuedItems) /\ ItemsIn(QueuedFor(g, x)) = Copies(g, x)
          /\ Copies(g, x) \in Seq(Items)
      <4>1. ItemsIn(QueuedFor(g, x)) = Copies(g, x) /\ QueuedFor(g, x) \in Seq(QueuedItems)
        BY QueuedForIs
      <4> QED BY <4>1, ItemsInConcat
    <3>3. ItemsIn(queue') = ItemsIn(queue) \o Copies(g, x)
      <4> DEFINE t == QueuedFor(g, x)
      <4> HIDE DEF t
      <4>1. t \in Seq(QueuedItems) /\ ItemsIn(t) = Copies(g, x)
        BY <3>2 DEF t
      <4>2. ItemsIn(queue \o t) = ItemsIn(queue) \o ItemsIn(t)
        BY <1>0, <4>1, ItemsInConcat
      <4> QED BY <3>1, <4>1, <4>2 DEF t
    <3>4. \A kind : Number(kind, ItemsIn(queue')) = Number(kind, ItemsIn(queue)) + (IF x.kind = kind THEN Len(g) ELSE 0)
      <4>1. \A kind : Number(kind, Copies(g, x)) = IF x.kind = kind THEN Len(g) ELSE 0
        BY NumberOfCopies
      <4>2. \A kind : Number(kind, ItemsIn(queue) \o Copies(g, x)) = Number(kind, ItemsIn(queue)) + Number(kind, Copies(g, x))
        BY <1>3, <3>2, NumberConcat
      <4> QED BY <3>3, <4>1, <4>2
    <3>5. \A kind \in Kinds : /\ More(Len(g), x)[kind] \in Nat /\ pushed'[kind] = pushed[kind] + More(Len(g), x)[kind]
                              /\ More(Len(g), x)[kind] = IF x.kind = kind THEN Len(g) ELSE 0
      BY <1>0, <3>1, MoreIs
    <3> DEFINE more == More(Len(g), x)
    <3>6. \A kind \in Kinds : counts'[kind] + Number(kind, ItemsIn(queue'))
                                = counts[kind] + Number(kind, ItemsIn(queue)) + more[kind]
      <4>1. \A kind \in Kinds : more[kind] \in Nat /\ more[kind] = IF x.kind = kind THEN Len(g) ELSE 0
        BY <3>5
      <4> HIDE DEF more
      <4> QED BY <1>3, <3>1, <3>4, <4>1
    <3>7. \A kind \in Kinds : more[kind] \in Nat /\ pushed'[kind] = pushed[kind] + more[kind]
      BY <3>5
    <3>8. counts'["state"] + Number("state", ItemsIn(queue')) <= counts["state"] + Number("state", ItemsIn(queue)) + more["state"]
      BY <1>3, <3>6, <3>7
    <3> HIDE DEF more
    <3> QED BY <1>0, <1>1, <1>3, <3>6, <3>7, <3>8, BalanceKept
  <2>3. ASSUME NEW g \in Seq(Recipients), FireAlone(g, x) PROVE Balance'
    <3>1. /\ queue' = queue /\ counts' = ObserveAll(counts, Alone(g, x)) /\ Count(Len(g), x) /\ Len(g) \in Nat
      BY <2>3 DEF FireAlone
    <3>2. \A kind \in Kinds : counts'[kind] = counts[kind] + (IF x.kind = kind THEN Len(g) ELSE 0)
      <4>1. Alone(g, x) \in Seq(SentFrames) /\ Flat(Alone(g, x)) = Copies(g, x)
        BY AloneIs
      <4>2. Counts(counts, counts', Copies(g, x))
        BY <1>0, <3>1, <4>1, ObservingIs
      <4> QED BY <4>2, NumberOfCopies DEF Counts
    <3>3. \A kind \in Kinds : /\ More(Len(g), x)[kind] \in Nat /\ pushed'[kind] = pushed[kind] + More(Len(g), x)[kind]
                              /\ More(Len(g), x)[kind] = IF x.kind = kind THEN Len(g) ELSE 0
      BY <1>0, <3>1, MoreIs
    <3> DEFINE more == More(Len(g), x)
    <3>4. \A kind \in Kinds : counts'[kind] + Number(kind, ItemsIn(queue'))
                                = counts[kind] + Number(kind, ItemsIn(queue)) + more[kind]
      BY <1>3, <3>1, <3>2, <3>3
    <3>5. \A kind \in Kinds : more[kind] \in Nat /\ pushed'[kind] = pushed[kind] + more[kind]
      BY <3>3
    <3>6. counts'["state"] + Number("state", ItemsIn(queue')) <= counts["state"] + Number("state", ItemsIn(queue)) + more["state"]
      BY <1>3, <3>4, <3>5
    <3> HIDE DEF more
    <3> QED BY <1>0, <1>1, <1>3, <3>4, <3>5, <3>6, BalanceKept
  <2>4. ASSUME FireLoose(x) PROVE Balance'
    <3>1. /\ counts' = ObserveAll(counts, <<Frame(Everyone, <<x>>)>>) /\ Count(1, x) /\ queue' = queue
      BY <2>4 DEF FireLoose
    <3>2. \A kind \in Kinds : counts'[kind] = counts[kind] + (IF x.kind = kind THEN 1 ELSE 0)
      <4> DEFINE fs == <<Frame(Everyone, <<x>>)>>
      <4>1. fs \in Seq(SentFrames) /\ Flat(fs) = <<x>>
        BY LooseFrame
      <4> HIDE DEF fs
      <4>2. Counts(counts, counts', Flat(fs))
        BY <1>0, <3>1, <4>1, ObservingIs DEF fs
      <4> QED BY <4>1, <4>2, NumberSmall DEF Counts
    <3>3. \A kind \in Kinds : /\ More(1, x)[kind] \in Nat /\ pushed'[kind] = pushed[kind] + More(1, x)[kind]
                              /\ More(1, x)[kind] = IF x.kind = kind THEN 1 ELSE 0
      BY <1>0, <3>1, MoreIs
    <3> DEFINE more == More(1, x)
    <3>4. \A kind \in Kinds : counts'[kind] + Number(kind, ItemsIn(queue'))
                                = counts[kind] + Number(kind, ItemsIn(queue)) + more[kind]
      BY <1>3, <3>1, <3>2, <3>3
    <3>5. \A kind \in Kinds : more[kind] \in Nat /\ pushed'[kind] = pushed[kind] + more[kind]
      BY <3>3
    <3>6. counts'["state"] + Number("state", ItemsIn(queue')) <= counts["state"] + Number("state", ItemsIn(queue)) + more["state"]
      BY <1>3, <3>4, <3>5
    <3> HIDE DEF more
    <3> QED BY <1>0, <1>1, <1>3, <3>4, <3>5, <3>6, BalanceKept
  <2>5. ASSUME NEW p \in Players, Replace(p, x) PROVE Balance'
    <3>1. queue' = Replaced(queue, p, x) /\ counts' = counts /\ x.kind = "state" /\ Count(1, x)
      BY <2>5 DEF Replace
    <3> DEFINE r == Replaced(queue, p, x)
    <3>2. \A kind : Number(kind, ItemsIn(r)) \in Number(kind, ItemsIn(queue)) ..
                      Number(kind, ItemsIn(queue)) + (IF kind = "state" THEN 1 ELSE 0)
      <4> HIDE DEF r
      <4>1. r = Replaced(queue, p, x)
        BY DEF r
      <4> QED BY <1>0, <3>1, <4>1, ReplacedIs
    <3>3. r = queue'
      BY <3>1
    <3> HIDE DEF r
    <3>4. \A kind \in Kinds : /\ More(1, x)[kind] \in Nat /\ pushed'[kind] = pushed[kind] + More(1, x)[kind]
                              /\ More(1, x)[kind] = IF x.kind = kind THEN 1 ELSE 0
      BY <1>0, <3>1, MoreIs
    <3> DEFINE more == More(1, x)
    <3>5. \A kind \in Kinds : more[kind] \in Nat /\ pushed'[kind] = pushed[kind] + more[kind]
      BY <3>4
    <3>6. more["response"] = 0 /\ more["signal"] = 0 /\ more["state"] = 1
      BY <1>3, <3>1, <3>4
    <3> HIDE DEF more
    <3>7. /\ Number("response", ItemsIn(queue')) = Number("response", ItemsIn(queue))
          /\ Number("signal", ItemsIn(queue')) = Number("signal", ItemsIn(queue))
          /\ Number("state", ItemsIn(queue')) \in Number("state", ItemsIn(queue)) .. Number("state", ItemsIn(queue)) + 1
      <4>1. ASSUME NEW kind, kind # "state" PROVE Number(kind, ItemsIn(queue')) = Number(kind, ItemsIn(queue))
        <5>1. Number(kind, ItemsIn(queue')) \in Number(kind, ItemsIn(queue)) .. Number(kind, ItemsIn(queue)) + 0
          BY <3>2, <3>3, <4>1
        <5> QED BY <1>3, <5>1
      <4>2. Number("state", ItemsIn(queue')) \in Number("state", ItemsIn(queue)) .. Number("state", ItemsIn(queue)) + 1
        BY <3>2, <3>3
      <4>3. "response" # "state" /\ "signal" # "state"
        OBVIOUS
      <4> QED BY <4>1, <4>2, <4>3
    <3>8. /\ counts'["response"] + Number("response", ItemsIn(queue')) = counts["response"] + Number("response", ItemsIn(queue)) + more["response"]
          /\ counts'["signal"] + Number("signal", ItemsIn(queue')) = counts["signal"] + Number("signal", ItemsIn(queue)) + more["signal"]
          /\ counts'["state"] + Number("state", ItemsIn(queue')) <= counts["state"] + Number("state", ItemsIn(queue)) + more["state"]
      BY <1>3, <3>1, <3>6, <3>7
    <3> QED BY <1>0, <1>1, <3>5, <3>8, BalanceKept
  <2> QED BY <2>1, <2>2, <2>3, <2>4, <2>5
<1>7. CASE Consume
  <2>1. CASE Flush
    <3>1. counts' = ObserveAll(counts, Frames(queue)) /\ queue' = <<>> /\ pushed' = pushed
      BY <2>1 DEF Flush, history
    <3>2. \A kind \in Kinds : counts'[kind] = counts[kind] + Number(kind, ItemsIn(queue))
      <4>1. Frames(queue) \in Seq(SentFrames) /\ Carries(Frames(queue), queue)
        BY <1>0, FlushedIs
      <4>2. Counts(counts, counts', Flat(Frames(queue)))
        BY <1>0, <3>1, <4>1, ObservingIs
      <4> QED BY <4>1, <4>2 DEF Counts, Carries
    <3>3. \A kind : Number(kind, ItemsIn(queue')) = 0
      <4>1. ItemsIn(queue') = <<>>
        BY <3>1 DEF ItemsIn
      <4> QED BY <4>1, NumberSmall
    <3> DEFINE more == [kind \in Kinds |-> 0]
    <3>4. \A kind \in Kinds : more[kind] = 0 /\ pushed[kind] \in Nat /\ pushed'[kind] = pushed[kind] + more[kind]
      BY <1>0, <3>1 DEF Kinds
    <3>5. \A kind \in Kinds : counts'[kind] + Number(kind, ItemsIn(queue'))
                                = counts[kind] + Number(kind, ItemsIn(queue)) + more[kind]
      BY <1>3, <3>2, <3>3, <3>4
    <3>6. counts'["state"] + Number("state", ItemsIn(queue')) <= counts["state"] + Number("state", ItemsIn(queue)) + more["state"]
      BY <1>3, <3>4, <3>5
    <3> HIDE DEF more
    <3>7. \A kind \in Kinds : more[kind] \in Nat /\ pushed'[kind] = pushed[kind] + more[kind]
      BY <3>4
    <3> QED BY <1>0, <1>1, <1>3, <3>5, <3>6, <3>7, BalanceKept
  <2>2. CASE \E p \in Players : Leave(p) \/ Receive(p) \/ HandlerEnds(p)
    BY <1>4, <2>2 DEF Leave, Receive, HandlerEnds, wireVars, history
  <2> QED BY <1>7, <2>1, <2>2 DEF Consume
<1> QED BY <1>2, <1>5, <1>6, <1>7

(* The metrics of a channel (network-metrics.ts) account for what was      *)
(* pushed to it, kind by kind and id by id, at every moment.               *)
THEOREM CountsMatchHolds == ChannelSpec => []CountsMatch
<1>1. Typed /\ Balance /\ [ChannelNext]_channelVars => Typed' /\ Balance'
  BY TypedStep, BalanceStep
<1>2. ASSUME Typed, Balance PROVE CountsMatch
  <2> DEFINE ids == DOMAIN counts.signals
  <2>1. /\ IsFiniteSet(ids) /\ Cardinality(ids \ {Other}) <= MaxKeys /\ Total(counts.signals) = counts.signal
    BY <1>2 DEF Typed, FewIds
  <2> HIDE DEF ids
  <2>2. Cardinality(ids) <= MaxKeys + 1
    <3>1. IsFiniteSet(ids \ {Other})
      BY <2>1, FS_Subset
    <3>2. /\ IsFiniteSet((ids \ {Other}) \cup {Other}) /\ Cardinality(ids \ {Other}) \in Nat
          /\ Cardinality((ids \ {Other}) \cup {Other}) <= Cardinality(ids \ {Other}) + 1
          /\ Cardinality((ids \ {Other}) \cup {Other}) \in Nat
      BY <3>1, FS_AddElement, FS_CardinalityType
    <3>3. Cardinality(ids) <= Cardinality((ids \ {Other}) \cup {Other}) /\ Cardinality(ids) \in Nat
      <4>1. ids \subseteq (ids \ {Other}) \cup {Other}
        OBVIOUS
      <4> QED BY <2>1, <3>2, <4>1, FS_Subset, FS_CardinalityType
    <3> QED BY <2>1, <3>2, <3>3, OutboxAssumption
  <2> QED BY <1>2, <2>1, <2>2 DEF CountsMatch, Balance, Number, ItemsIn, Waiting, Total, ids
<1> QED BY <1>1, <1>2, TypedInit, BalanceInit, PTL DEF ChannelSpec

-----------------------------------------------------------------------------
(* All that was or will be read, against what was owed.                    *)
Sorted(states, bound) ==
  \A i \in DOMAIN states :
    states[i].n <= bound /\ \A j \in DOMAIN states : i < j => states[i].n < states[j].n

Agrees(all, due, ordered, bound) ==
  /\ (\A x : Times(x, Plain(all)) = Times(x, Plain(due))) /\ Held(all) = Held(due)
  /\ ordered => Plain(all) = Plain(due) /\ Sorted(States(all), bound)

Whole(seen, held, coming, waiting) == seen \o ((held \o coming) \o waiting)

LEMMA ItemsJoin ==
  /\ \A s, t, u \in Seq(Items) : (s \o t) \o u = s \o (t \o u)
  /\ \A s, t \in Seq(Items) : s \o t \in Seq(Items) /\ Len(s \o t) = Len(s) + Len(t)
  /\ \A s \in Seq(Items) : s \o <<>> = s /\ <<>> \o s = s
<1>1. \A s, t, u \in Seq(Items) : (s \o t) \o u = s \o (t \o u)
  BY AssociateConcat
<1>2. \A s, t \in Seq(Items) : s \o t \in Seq(Items) /\ Len(s \o t) = Len(s) + Len(t)
  OBVIOUS
<1>3. \A s \in Seq(Items) : s \o <<>> = s /\ <<>> \o s = s
  BY Joining
<1> QED BY <1>1, <1>2, <1>3

LEMMA Assoc ==
  ASSUME NEW c \in Seq(Items), NEW d \in Seq(Items), NEW e \in Seq(Items)
  PROVE  /\ c \o (d \o e) = (c \o d) \o e /\ c \o (d \o e) \in Seq(Items)
         /\ c \o d \in Seq(Items) /\ d \o e \in Seq(Items)
OBVIOUS

LEMMA TimesConcat ==
  ASSUME NEW x, NEW s \in Seq(Items), NEW t \in Seq(Items)
  PROVE  /\ Times(x, s) \in Nat /\ Times(x, t) \in Nat
         /\ Times(x, s \o t) = Times(x, s) + Times(x, t)
<1> DEFINE here(u) == {i \in DOMAIN u : u[i] = x}
<1>1. \A j \in DOMAIN t : j \in here(t) <=> j + Len(s) \in here(s \o t)
  OBVIOUS
<1>2. \A i \in DOMAIN s : i \in here(s \o t) <=> i \in here(s)
  OBVIOUS
<1>3. At(s, here(s \o t)) = At(s, here(s))
  BY <1>2, AtSame
<1> DEFINE all == here(s \o t)  first == here(s)  last == here(t)
<1> HIDE DEF here, all, first, last
<1>4. \A j \in DOMAIN t : j \in last <=> j + Len(s) \in all
  BY <1>1 DEF all, last
<1>5. At(s \o t, all) = At(s, all) \o At(t, last)
  BY <1>4, AtConcat, SMTT(30)
<1>6. At(s, first) \in Seq(Items) /\ At(t, last) \in Seq(Items) /\ At(s, all) = At(s, first)
  BY <1>3, AtType DEF all, first
<1>7. Len(At(s \o t, all)) = Len(At(s, first)) + Len(At(t, last))
  BY <1>5, <1>6
<1>8. Times(x, s) = Len(At(s, first)) /\ Times(x, t) = Len(At(t, last)) /\ Times(x, s \o t) = Len(At(s \o t, all))
  BY DEF Times, here, all, first, last
<1>9. Len(At(s, first)) \in Nat /\ Len(At(t, last)) \in Nat
  BY <1>6
<1> QED BY <1>7, <1>8, <1>9

LEMMA Numbered == \A x \in Items : x.n \in Nat
BY DEF Items

LEMMA SortedLater ==
  ASSUME NEW s \in Seq(Items), NEW b \in Nat, Sorted(s, b)
  PROVE  Sorted(s, b + 1)
<1>1. \A i \in DOMAIN s : s[i].n \in Nat
  BY Numbered
<1>2. \A i \in DOMAIN s : s[i].n <= b
  BY DEF Sorted
<1>3. \A i \in DOMAIN s : s[i].n <= b + 1
  BY <1>1, <1>2
<1> QED BY <1>3 DEF Sorted

(* The newest state comes last, and may replace what was last.             *)
LEMMA SortedOn ==
  ASSUME NEW older \in Seq(Items), NEW old \in Seq(Items), NEW b \in Nat, Sorted(older \o old, b),
         NEW y \in Items, y.n = b + 1
  PROVE  Sorted(older \o <<y>>, b + 1)
<1> DEFINE s == older \o old  r == Append(older, y)
<1>1. /\ DOMAIN r = 1 .. Len(older) + 1 /\ Len(older) \in Nat
      /\ \A i \in 1 .. Len(older) + 1 : r[i] = IF i = Len(older) + 1 THEN y ELSE older[i]
  OBVIOUS
<1>2. \A i \in 1 .. Len(older) : i \in DOMAIN s /\ s[i] = older[i] /\ older[i].n \in Nat
  BY Numbered
<1>3. \A i \in DOMAIN s : s[i].n <= b /\ \A j \in DOMAIN s : i < j => s[i].n < s[j].n
  BY DEF Sorted
<1> HIDE DEF s, r
<1>4. \A i \in 1 .. Len(older) : older[i].n <= b /\ \A j \in 1 .. Len(older) : i < j => older[i].n < older[j].n
  BY <1>2, <1>3
<1>5. ASSUME NEW i \in 1 .. Len(older) + 1
      PROVE  r[i].n <= b + 1 /\ \A j \in 1 .. Len(older) + 1 : i < j => r[i].n < r[j].n
  <2>1. CASE i = Len(older) + 1
    BY <1>1, <2>1
  <2>2. CASE i # Len(older) + 1
    <3>1. i \in 1 .. Len(older) /\ r[i] = older[i] /\ older[i].n \in Nat /\ older[i].n <= b
      BY <1>1, <1>2, <1>4, <2>2
    <3>2. ASSUME NEW j \in 1 .. Len(older) + 1, i < j PROVE older[i].n < r[j].n
      <4>1. CASE j = Len(older) + 1
        BY <1>1, <3>1, <4>1
      <4>2. CASE j # Len(older) + 1
        <5>1. j \in 1 .. Len(older) /\ r[j] = older[j]
          BY <1>1, <4>2
        <5> QED BY <1>4, <3>1, <3>2, <5>1
      <4> QED BY <4>1, <4>2
    <3> QED BY <3>1, <3>2
  <2> QED BY <2>1, <2>2
<1>6. Sorted(r, b + 1)
  BY <1>1, <1>5 DEF Sorted
<1> QED BY <1>6, AppendIsConcat DEF r

(* So it does after others.                                                *)
LEMMA SortedOnAfter ==
  ASSUME NEW c \in Seq(Items), NEW older \in Seq(Items), NEW old \in Seq(Items), NEW b \in Nat,
         Sorted(c \o (older \o old), b), NEW y \in Items, y.n = b + 1
  PROVE  Sorted(c \o (older \o <<y>>), b + 1)
<1>1. /\ \A t \in Seq(Items) : c \o (older \o t) = (c \o older) \o t
      /\ c \o older \in Seq(Items)
  BY SMTT(30)
<1>2. /\ c \o (older \o old) = (c \o older) \o old
      /\ c \o (older \o <<y>>) = (c \o older) \o <<y>>
  <2>1. <<y>> \in Seq(Items)
    BY Single
  <2> QED BY <1>1, <2>1, Zenon
<1> DEFINE d == c \o older
<1>3. d \in Seq(Items) /\ Sorted(d \o old, b)
  BY <1>1, <1>2
<1> HIDE DEF d
<1>4. Sorted(d \o <<y>>, b + 1)
  BY <1>3, SortedOn
<1> QED BY <1>2, <1>4 DEF d

LEMMA AgreesLater ==
  ASSUME NEW all \in Seq(Items), NEW due, NEW ordered, NEW b \in Nat, Agrees(all, due, ordered, b)
  PROVE  Agrees(all, due, ordered, b + 1)
<1>1. States(all) \in Seq(Items)
  BY PlainConcat
<1> QED BY <1>1, SortedLater DEF Agrees

(* What is sent is also owed.                                              *)
LEMMA AgreesMore ==
  ASSUME NEW all \in Seq(Items), NEW due \in Seq(Items), NEW ordered, NEW b \in Nat, Agrees(all, due, ordered, b),
         NEW x \in Items, x.n = b + 1, NEW s \in Seq({x}), x.kind = "state" => s \in {<<>>, <<x>>}
  PROVE  Agrees(all \o s, due \o s, ordered, b + 1)
<1>0. s \in Seq(Items)
  BY OneKind
<1>1. /\ Plain(all) \in Seq(Items) /\ Plain(due) \in Seq(Items) /\ Plain(s) \in Seq(Items)
      /\ Plain(all \o s) = Plain(all) \o Plain(s) /\ Plain(due \o s) = Plain(due) \o Plain(s)
      /\ States(all) \in Seq(Items) /\ States(all \o s) = States(all) \o States(s)
      /\ Held(all \o s) = Held(all) \cup Held(s) /\ Held(due \o s) = Held(due) \cup Held(s)
  BY <1>0, PlainConcat, HeldConcat
<1>2. (\A z : Times(z, Plain(all \o s)) = Times(z, Plain(due \o s))) /\ Held(all \o s) = Held(due \o s)
  <2> DEFINE u == Plain(all)  v == Plain(due)  w == Plain(s)
  <2>1. u \in Seq(Items) /\ v \in Seq(Items) /\ w \in Seq(Items) /\ \A z : Times(z, u) = Times(z, v)
    BY <1>1 DEF Agrees
  <2> HIDE DEF u, v, w
  <2>2. ASSUME NEW z PROVE Times(z, u \o w) = Times(z, v \o w)
    <3>1. Times(z, u \o w) = Times(z, u) + Times(z, w) /\ Times(z, v \o w) = Times(z, v) + Times(z, w)
      BY <2>1, TimesConcat
    <3> QED BY <2>1, <3>1
  <2>3. Plain(all \o s) = u \o w /\ Plain(due \o s) = v \o w /\ Held(all \o s) = Held(due \o s)
    BY <1>1 DEF u, v, w, Agrees
  <2> QED BY <2>2, <2>3
<1>3. ASSUME ordered PROVE Plain(all \o s) = Plain(due \o s) /\ Sorted(States(all \o s), b + 1)
  <2>1. Plain(all) = Plain(due) /\ Sorted(States(all), b)
    BY <1>3 DEF Agrees
  <2>2. CASE x.kind = "state" /\ s = <<x>>
    <3>1. States(s) = <<x>>
      BY <2>2, StateAlone
    <3>2. States(all) = States(all) \o <<>> /\ <<>> \in Seq(Items)
      BY <1>1, Joining
    <3> DEFINE c == States(all)
    <3> HIDE DEF c
    <3>3. Sorted(c \o <<>>, b) /\ c \in Seq(Items)
      BY <1>1, <2>1, <3>2 DEF c
    <3>4. Sorted(c \o <<x>>, b + 1)
      BY <3>2, <3>3, SortedOn
    <3> QED BY <1>1, <2>1, <3>1, <3>4 DEF c
  <2>3. CASE ~(x.kind = "state" /\ s = <<x>>)
    <3>1. States(s) = <<>>
      <4>1. CASE x.kind # "state"
        <5>1. x.kind \notin {"state"}
          BY <4>1
        <5> QED BY <5>1, OneKind DEF States
      <4>2. CASE x.kind = "state"
        <5>1. s = <<>>
          BY <2>3, <4>2
        <5> QED BY <5>1, OfKindEmpty DEF States
      <4> QED BY <4>1, <4>2
    <3>2. States(all) \o <<>> = States(all)
      BY <1>1, Joining
    <3>3. Sorted(States(all), b + 1)
      BY <1>1, <2>1, SortedLater
    <3> QED BY <1>1, <2>1, <3>1, <3>2, <3>3
  <2> QED BY <2>2, <2>3
<1> QED BY <1>2, <1>3 DEF Agrees

LEMMA AgreesGaveWay ==
  ASSUME NEW pre \in Seq(Items), NEW m \in Seq(Items), NEW r \in Seq(Items), NEW due \in Seq(Items),
         NEW ordered, NEW b \in Nat, Agrees(pre \o m, due, ordered, b),
         NEW x \in Items, x.kind = "state", x.n = b + 1, GaveWay(m, r, x)
  PROVE  Agrees(pre \o r, due \o <<x>>, ordered, b + 1)
<1> DEFINE s == <<x>>
<1>0. s \in Seq(Items) /\ Plain(s) = <<>> /\ Held(s) = x.holds
  BY StateAlone
<1> HIDE DEF s
<1>1. PICK older \in Seq(Items), old \in Seq(Items), y \in Items :
        y.n = x.n /\ States(m) = older \o old /\ States(r) = older \o <<y>>
  BY DEF GaveWay
<1>2. Plain(r) = Plain(m) /\ Held(r) = Held(m) \cup x.holds
  BY DEF GaveWay
<1>3. /\ Plain(pre \o m) = Plain(pre) \o Plain(m) /\ Plain(pre \o r) = Plain(pre) \o Plain(r)
      /\ States(pre) \in Seq(Items)
      /\ States(pre \o m) = States(pre) \o States(m) /\ States(pre \o r) = States(pre) \o States(r)
      /\ Held(pre \o m) = Held(pre) \cup Held(m) /\ Held(pre \o r) = Held(pre) \cup Held(r)
  BY PlainConcat, HeldConcat
<1>4. Plain(due \o s) = Plain(due) /\ Held(due \o s) = Held(due) \cup x.holds
  <2>1. Plain(due \o s) = Plain(due) \o Plain(s) /\ Plain(due) \in Seq(Items) /\ Held(due \o s) = Held(due) \cup Held(s)
    BY <1>0, PlainConcat, HeldConcat
  <2> QED BY <1>0, <2>1, Joining
<1>5. Plain(pre \o r) = Plain(pre \o m) /\ Held(pre \o r) = Held(pre \o m) \cup x.holds
  BY <1>2, <1>3
<1>6. ASSUME ordered PROVE Sorted(States(pre \o r), b + 1)
  <2> DEFINE c == States(pre)
  <2> HIDE DEF c
  <2>1. c \in Seq(Items) /\ Sorted(c \o (older \o old), b)
    BY <1>1, <1>3, <1>6 DEF Agrees, c
  <2>2. Sorted(c \o (older \o <<y>>), b + 1)
    BY <1>1, <2>1, SortedOnAfter
  <2> QED BY <1>1, <1>3, <2>2 DEF c
<1>7. Agrees(pre \o r, due \o s, ordered, b + 1)
  BY <1>4, <1>5, <1>6 DEF Agrees
<1> QED BY <1>7 DEF s

LEMMA AssocTo ==
  ASSUME NEW w \in Seq(Items), NEW s \in Seq(Items)
  PROVE  \A d \in Seq(Items) : d \o (w \o s) = (d \o w) \o s
OBVIOUS

Four(r, h, c, w) == r \in Seq(Items) /\ h \in Seq(Items) /\ c \in Seq(Items) /\ w \in Seq(Items)

LEMMA WholeType ==
  ASSUME NEW r, NEW h, NEW c, NEW w, Four(r, h, c, w)
  PROVE  Whole(r, h, c, w) \in Seq(Items)
<1>0. r \in Seq(Items) /\ h \in Seq(Items) /\ c \in Seq(Items) /\ w \in Seq(Items)
  BY DEF Four
<1>1. \A s, t \in Seq(Items) : s \o t \in Seq(Items)
  BY <1>0
<1>2. (h \o c) \in Seq(Items)
  BY <1>0, <1>1, Zenon
<1>3. (h \o c) \o w \in Seq(Items)
  BY <1>0, <1>1, <1>2, Zenon
<1>4. r \o ((h \o c) \o w) \in Seq(Items)
  BY <1>0, <1>1, <1>3, Zenon
<1> QED BY <1>4 DEF Whole

Fronted(r, h, c) == \E pre \in Seq(Items) : \A w \in Seq(Items) : Whole(r, h, c, w) = pre \o w

LEMMA WholeFront ==
  ASSUME NEW r \in Seq(Items), NEW h \in Seq(Items), NEW c \in Seq(Items)
  PROVE  Fronted(r, h, c)
<1>1. h \o c \in Seq(Items) /\ \A d \in Seq(Items) : r \o d \in Seq(Items)
  OBVIOUS
<1>2. \A d, w \in Seq(Items) : r \o (d \o w) = (r \o d) \o w
  BY Assoc, SMTT(30)
<1>3. r \o (h \o c) \in Seq(Items)
  BY <1>1, Zenon
<1>4. \A w \in Seq(Items) : r \o ((h \o c) \o w) = (r \o (h \o c)) \o w
  BY <1>1, <1>2, Zenon
<1> QED BY <1>3, <1>4, Zenon DEF Whole, Fronted

(* Queued last.                                                            *)
LEMMA WholeQueued ==
  ASSUME NEW r, NEW h, NEW c, NEW w, Four(r, h, c, w), NEW s \in Seq(Items)
  PROVE  Whole(r, h, c, w \o s) = Whole(r, h, c, w) \o s
<1>0. r \in Seq(Items) /\ h \in Seq(Items) /\ c \in Seq(Items) /\ w \in Seq(Items)
  BY DEF Four
<1>1. \A d \in Seq(Items) : d \o (w \o s) = (d \o w) \o s
  BY <1>0, AssocTo, Zenon
<1>2. h \o c \in Seq(Items) /\ \A d \in Seq(Items) : d \o w \in Seq(Items)
  BY <1>0
<1>3. \A d \in Seq(Items) : r \o (d \o s) = (r \o d) \o s
  BY <1>0, SMTT(30)
<1>4. (h \o c) \o (w \o s) = ((h \o c) \o w) \o s /\ (h \o c) \o w \in Seq(Items)
  BY <1>0, <1>1, <1>2, Zenon
<1>5. r \o (((h \o c) \o w) \o s) = (r \o ((h \o c) \o w)) \o s
  BY <1>0, <1>3, <1>4, Zenon
<1> QED BY ONLY <1>4, <1>5, Zenon DEF Whole

(* Sent last, where nothing is queued.                                     *)
LEMMA WholeSent ==
  ASSUME NEW r, NEW h, NEW c, NEW s, Four(r, h, c, s)
  PROVE  Whole(r, h, c \o s, <<>>) = Whole(r, h, c, s) /\ Whole(r, h, c \o s, <<>>) = Whole(r, h, c, <<>>) \o s
<1>0. r \in Seq(Items) /\ h \in Seq(Items) /\ c \in Seq(Items) /\ s \in Seq(Items)
  BY DEF Four
<1>1. /\ \A d \in Seq(Items) : d \o <<>> = d
      /\ h \o (c \o s) = (h \o c) \o s /\ h \o (c \o s) \in Seq(Items) /\ h \o c \in Seq(Items)
  BY <1>0
<1>2. \A d \in Seq(Items) : r \o (d \o s) = (r \o d) \o s
  BY <1>0
<1>3. (h \o (c \o s)) \o <<>> = (h \o c) \o s /\ (h \o c) \o <<>> = h \o c
  BY <1>0, <1>1, Zenon
<1>4. r \o ((h \o c) \o s) = (r \o (h \o c)) \o s
  BY <1>0, <1>1, <1>2, Zenon
<1> QED BY ONLY <1>3, <1>4, Zenon DEF Whole

(* A frame read to its end.                                                *)
LEMMA WholeRead ==
  ASSUME NEW r, NEW i, NEW c, NEW w, Four(r, i, c, w)
  PROVE  Whole(r \o i, <<>>, c, w) = Whole(r, <<>>, i \o c, w)
<1>0. r \in Seq(Items) /\ i \in Seq(Items) /\ c \in Seq(Items) /\ w \in Seq(Items)
  BY DEF Four
<1>1. <<>> \o c = c /\ <<>> \o (i \o c) = i \o c /\ c \o w \in Seq(Items)
  BY <1>0
<1>2. (i \o c) \o w = i \o (c \o w)
  BY <1>0
<1>3. \A d \in Seq(Items) : (r \o i) \o d = r \o (i \o d)
  BY <1>0
<1>4. (r \o i) \o (c \o w) = r \o (i \o (c \o w))
  BY <1>0, <1>1, <1>3, Zenon
<1> QED BY ONLY <1>1, <1>2, <1>4, Zenon DEF Whole

(* What counts, whatever the order.                                        *)
Load(x, s) == Times(x, Plain(s))
SameLoad(x, s, t) == Load(x, s) = Load(x, t) /\ Held(s) = Held(t)
AsMuch(s, t) == \A x : SameLoad(x, s, t)

LEMMA LoadConcat ==
  ASSUME NEW x, NEW s \in Seq(Items), NEW t \in Seq(Items)
  PROVE  /\ Load(x, s) \in Nat /\ Load(x, t) \in Nat /\ Load(x, s \o t) = Load(x, s) + Load(x, t)
         /\ Held(s \o t) = Held(s) \cup Held(t) /\ s \o t \in Seq(Items)
<1>1. /\ Plain(s) \in Seq(Items) /\ Plain(t) \in Seq(Items)
      /\ Plain(s \o t) = Plain(s) \o Plain(t)
  BY PlainConcat
<1>2. Load(x, s) \in Nat /\ Load(x, t) \in Nat /\ Load(x, s \o t) = Load(x, s) + Load(x, t)
  BY <1>1, TimesConcat DEF Load
<1> QED BY <1>2, HeldConcat, Joining

WholeLoad(x, r, h, c, w) ==
  /\ Load(x, Whole(r, h, c, w)) = Load(x, r) + Load(x, h) + Load(x, c) + Load(x, w)
  /\ Held(Whole(r, h, c, w)) = Held(r) \cup Held(h) \cup Held(c) \cup Held(w)

LEMMA LoadWhole ==
  ASSUME NEW x, NEW r, NEW h, NEW c, NEW w, Four(r, h, c, w)
  PROVE  WholeLoad(x, r, h, c, w)
<1> DEFINE d == h \o c  e == d \o w
<1>0. r \in Seq(Items) /\ h \in Seq(Items) /\ c \in Seq(Items) /\ w \in Seq(Items)
  BY DEF Four
<1>1. /\ d \in Seq(Items) /\ Load(x, h) \in Nat /\ Load(x, c) \in Nat
      /\ Load(x, d) = Load(x, h) + Load(x, c) /\ Held(d) = Held(h) \cup Held(c)
  BY <1>0, LoadConcat
<1> HIDE DEF d
<1>2. /\ e \in Seq(Items) /\ Load(x, w) \in Nat
      /\ Load(x, e) = Load(x, d) + Load(x, w) /\ Held(e) = Held(d) \cup Held(w)
  BY <1>0, <1>1, LoadConcat
<1> HIDE DEF e
<1>3. /\ Load(x, r) \in Nat /\ Load(x, r \o e) = Load(x, r) + Load(x, e) /\ Held(r \o e) = Held(r) \cup Held(e)
  BY <1>0, <1>2, LoadConcat
<1>4. /\ Load(x, r \o e) = Load(x, r) + Load(x, h) + Load(x, c) + Load(x, w)
      /\ Held(r \o e) = Held(r) \cup Held(h) \cup Held(c) \cup Held(w)
  BY <1>1, <1>2, <1>3
<1>5. Whole(r, h, c, w) = r \o e
  BY DEF Whole, d, e
<1> QED BY <1>4, <1>5 DEF WholeLoad

(* A frame read up to a handler that yields, and the rest kept.            *)
LEMMA WholeKept ==
  ASSUME NEW x, NEW r \in Seq(Items), NEW i \in Seq(Items), NEW j \in Seq(Items), NEW o \in Seq(Items),
         NEW c \in Seq(Items), NEW w \in Seq(Items)
  PROVE  SameLoad(x, Whole(r \o i, o \o j, c, w), Whole(r, o, (i \o j) \o c, w))
<1> DEFINE ri == r \o i  oj == o \o j  ij == i \o j  ijc == ij \o c
<1>1. /\ ri \in Seq(Items) /\ oj \in Seq(Items) /\ ij \in Seq(Items) /\ Load(x, i) \in Nat /\ Load(x, j) \in Nat
      /\ Load(x, ri) = Load(x, r) + Load(x, i) /\ Held(ri) = Held(r) \cup Held(i)
      /\ Load(x, oj) = Load(x, o) + Load(x, j) /\ Held(oj) = Held(o) \cup Held(j)
      /\ Load(x, ij) = Load(x, i) + Load(x, j) /\ Held(ij) = Held(i) \cup Held(j)
  BY LoadConcat
<1> HIDE DEF ri, oj, ij
<1>2. ijc \in Seq(Items) /\ Load(x, ijc) = Load(x, ij) + Load(x, c) /\ Held(ijc) = Held(ij) \cup Held(c)
  BY <1>1, LoadConcat, ZenonT(30)
<1> HIDE DEF ijc
<1> DEFINE now == Whole(ri, oj, c, w)  then == Whole(r, o, ijc, w)
<1>3. /\ Load(x, now) = Load(x, ri) + Load(x, oj) + Load(x, c) + Load(x, w)
      /\ Held(now) = Held(ri) \cup Held(oj) \cup Held(c) \cup Held(w)
  <2>1. Four(ri, oj, c, w)
    BY <1>1 DEF Four
  <2>2. WholeLoad(x, ri, oj, c, w)
    BY <2>1, LoadWhole
  <2> QED BY <2>2 DEF WholeLoad
<1>4. /\ Load(x, then) = Load(x, r) + Load(x, o) + Load(x, ijc) + Load(x, w)
      /\ Held(then) = Held(r) \cup Held(o) \cup Held(ijc) \cup Held(w)
      /\ Load(x, r) \in Nat /\ Load(x, o) \in Nat /\ Load(x, c) \in Nat /\ Load(x, w) \in Nat
  <2>1. Four(r, o, ijc, w)
    BY <1>2 DEF Four
  <2>2. Load(x, r) \in Nat /\ Load(x, o) \in Nat /\ Load(x, c) \in Nat /\ Load(x, w) \in Nat
    BY LoadConcat
  <2>3. WholeLoad(x, r, o, ijc, w)
    BY <2>1, LoadWhole
  <2> QED BY <2>2, <2>3 DEF WholeLoad
<1> HIDE DEF now, then
<1>5. Load(x, now) = Load(x, then)
  <2>1. /\ Load(x, now) = Load(x, ri) + Load(x, oj) + Load(x, c) + Load(x, w)
        /\ Load(x, then) = Load(x, r) + Load(x, o) + Load(x, ijc) + Load(x, w)
        /\ Load(x, ri) = Load(x, r) + Load(x, i) /\ Load(x, oj) = Load(x, o) + Load(x, j)
        /\ Load(x, ij) = Load(x, i) + Load(x, j) /\ Load(x, ijc) = Load(x, ij) + Load(x, c)
        /\ Load(x, r) \in Nat /\ Load(x, i) \in Nat /\ Load(x, j) \in Nat
        /\ Load(x, o) \in Nat /\ Load(x, c) \in Nat /\ Load(x, w) \in Nat
    BY ONLY <1>1, <1>2, <1>3, <1>4, Zenon
  <2> QED BY ONLY <2>1, SMTT(30)
<1>6. Held(now) = Held(then)
  <2>1. /\ Held(now) = Held(r) \cup Held(i) \cup (Held(o) \cup Held(j)) \cup Held(c) \cup Held(w)
        /\ Held(then) = Held(r) \cup Held(o) \cup (Held(i) \cup Held(j) \cup Held(c)) \cup Held(w)
    BY <1>1, <1>2, <1>3, <1>4, Zenon
  <2> QED BY ONLY <2>1
<1> QED BY <1>5, <1>6 DEF SameLoad, ri, oj, ij, ijc, now, then

(* The rest of a frame between others, read up to a handler that yields.   *)
LEMMA WholeResumed ==
  ASSUME NEW x, NEW r \in Seq(Items), NEW i \in Seq(Items), NEW j \in Seq(Items), NEW a \in Seq(Items), NEW b \in Seq(Items),
         NEW c \in Seq(Items), NEW w \in Seq(Items)
  PROVE  SameLoad(x, Whole(r \o i, (a \o b) \o j, c, w), Whole(r, a \o ((i \o j) \o b), c, w))
<1> DEFINE ri == r \o i  ab == a \o b  ij == i \o j
<1>1. /\ ri \in Seq(Items) /\ ab \in Seq(Items) /\ ij \in Seq(Items) /\ Load(x, i) \in Nat /\ Load(x, j) \in Nat
      /\ Load(x, a) \in Nat /\ Load(x, b) \in Nat
      /\ Load(x, ri) = Load(x, r) + Load(x, i) /\ Held(ri) = Held(r) \cup Held(i)
      /\ Load(x, ab) = Load(x, a) + Load(x, b) /\ Held(ab) = Held(a) \cup Held(b)
      /\ Load(x, ij) = Load(x, i) + Load(x, j) /\ Held(ij) = Held(i) \cup Held(j)
  BY LoadConcat, ZenonT(30)
<1> HIDE DEF ri, ab, ij
<1> DEFINE abj == ab \o j  ijb == ij \o b
<1>2. /\ abj \in Seq(Items) /\ Load(x, abj) = Load(x, ab) + Load(x, j) /\ Held(abj) = Held(ab) \cup Held(j)
      /\ ijb \in Seq(Items) /\ Load(x, ijb) = Load(x, ij) + Load(x, b) /\ Held(ijb) = Held(ij) \cup Held(b)
  <2>0. ab \in Seq(Items) /\ ij \in Seq(Items)
    BY <1>1
  <2>1. abj \in Seq(Items) /\ Load(x, abj) = Load(x, ab) + Load(x, j) /\ Held(abj) = Held(ab) \cup Held(j)
    BY <2>0, LoadConcat
  <2>2. ijb \in Seq(Items) /\ Load(x, ijb) = Load(x, ij) + Load(x, b) /\ Held(ijb) = Held(ij) \cup Held(b)
    BY <2>0, LoadConcat
  <2> QED BY <2>1, <2>2
<1> HIDE DEF abj, ijb
<1> DEFINE aijb == a \o ijb
<1>3. aijb \in Seq(Items) /\ Load(x, aijb) = Load(x, a) + Load(x, ijb) /\ Held(aijb) = Held(a) \cup Held(ijb)
  BY <1>2, LoadConcat, ZenonT(30)
<1> HIDE DEF aijb
<1> DEFINE now == Whole(ri, abj, c, w)  then == Whole(r, aijb, c, w)
<1>4. /\ Load(x, now) = Load(x, ri) + Load(x, abj) + Load(x, c) + Load(x, w)
      /\ Held(now) = Held(ri) \cup Held(abj) \cup Held(c) \cup Held(w)
  <2>1. Four(ri, abj, c, w)
    BY <1>1, <1>2 DEF Four
  <2>2. WholeLoad(x, ri, abj, c, w)
    BY <2>1, LoadWhole
  <2> QED BY <2>2 DEF WholeLoad
<1>5. /\ Load(x, then) = Load(x, r) + Load(x, aijb) + Load(x, c) + Load(x, w)
      /\ Held(then) = Held(r) \cup Held(aijb) \cup Held(c) \cup Held(w)
      /\ Load(x, r) \in Nat /\ Load(x, c) \in Nat /\ Load(x, w) \in Nat
  <2>1. Four(r, aijb, c, w)
    BY <1>3 DEF Four
  <2>2. WholeLoad(x, r, aijb, c, w)
    BY <2>1, LoadWhole
  <2>3. Load(x, r) \in Nat /\ Load(x, c) \in Nat /\ Load(x, w) \in Nat
    BY LoadConcat
  <2> QED BY <2>2, <2>3 DEF WholeLoad
<1> HIDE DEF now, then
<1>6. Load(x, now) = Load(x, then)
  <2>1. /\ Load(x, now) = Load(x, ri) + Load(x, abj) + Load(x, c) + Load(x, w)
        /\ Load(x, then) = Load(x, r) + Load(x, aijb) + Load(x, c) + Load(x, w)
        /\ Load(x, ri) = Load(x, r) + Load(x, i) /\ Load(x, abj) = Load(x, ab) + Load(x, j) /\ Load(x, ab) = Load(x, a) + Load(x, b)
        /\ Load(x, ij) = Load(x, i) + Load(x, j) /\ Load(x, ijb) = Load(x, ij) + Load(x, b) /\ Load(x, aijb) = Load(x, a) + Load(x, ijb)
        /\ Load(x, r) \in Nat /\ Load(x, i) \in Nat /\ Load(x, j) \in Nat
        /\ Load(x, a) \in Nat /\ Load(x, b) \in Nat /\ Load(x, c) \in Nat /\ Load(x, w) \in Nat
    BY ONLY <1>1, <1>2, <1>3, <1>4, <1>5, Zenon
  <2> DEFINE nr == Load(x, r)  ni == Load(x, i)  nj == Load(x, j)  na == Load(x, a)  nb == Load(x, b)
             nc == Load(x, c)  nw == Load(x, w)
  <2>2. /\ Load(x, now) = (nr + ni) + ((na + nb) + nj) + nc + nw
        /\ Load(x, then) = nr + (na + ((ni + nj) + nb)) + nc + nw
    BY ONLY <2>1, Zenon
  <2>3. nr \in Nat /\ ni \in Nat /\ nj \in Nat /\ na \in Nat /\ nb \in Nat /\ nc \in Nat /\ nw \in Nat
    BY ONLY <2>1, Zenon
  <2> HIDE DEF nr, ni, nj, na, nb, nc, nw
  <2>4. (nr + ni) + ((na + nb) + nj) + nc + nw = nr + (na + ((ni + nj) + nb)) + nc + nw
    BY ONLY <2>3
  <2> QED BY ONLY <2>2, <2>4, Zenon
<1>7. Held(now) = Held(then)
  <2>1. /\ Held(now) = Held(r) \cup Held(i) \cup (Held(a) \cup Held(b) \cup Held(j)) \cup Held(c) \cup Held(w)
        /\ Held(then) = Held(r) \cup (Held(a) \cup (Held(i) \cup Held(j) \cup Held(b))) \cup Held(c) \cup Held(w)
    BY <1>1, <1>2, <1>3, <1>4, <1>5, Zenon
  <2> QED BY ONLY <2>1
<1> QED BY <1>6, <1>7 DEF SameLoad, ri, ab, ij, abj, ijb, aijb, now, then

LEMMA AgreesAsMuch ==
  ASSUME NEW all, NEW other, NEW due, NEW ordered, ~ordered, NEW b, Agrees(all, due, ordered, b), AsMuch(other, all)
  PROVE  Agrees(other, due, ordered, b)
BY DEF Agrees, AsMuch, SameLoad, Load

-----------------------------------------------------------------------------
(* For every player who stays: what it read, what it still has to read,    *)
(* what is on its way and what is queued, against what it is owed.         *)
Order ==
  \A p \in Players \ gone :
    Agrees(Whole(read[p], FlattenSeq(rest[p]), Flat(wire[p]), Mine(p, queue)), owed[p], ~yields, made)

LEMMA OrderNext ==
  ASSUME \A u \in Players \ gone' :
           Agrees(Whole(read'[u], FlattenSeq(rest'[u]), Flat(wire'[u]), Mine(u, queue')), owed'[u], ~yields', made')
  PROVE  Order'
BY DEF Order

LEMMA OrderInit == ChannelInit => Order
<1> SUFFICES ASSUME ChannelInit, NEW p \in Players \ gone
             PROVE  Agrees(Whole(read[p], FlattenSeq(rest[p]), Flat(wire[p]), Mine(p, queue)), owed[p], ~yields, made)
  BY DEF Order
<1>1. read[p] = <<>> /\ rest[p] = <<>> /\ wire[p] = <<>> /\ queue = <<>> /\ owed[p] = <<>>
  BY DEF ChannelInit
<1>2. FlattenSeq(rest[p]) = <<>> /\ Flat(wire[p]) = <<>> /\ Mine(p, queue) = <<>>
  BY <1>1, FlattenEmpty, FlatEmpty, MineEmpty
<1>3. Whole(<<>>, <<>>, <<>>, <<>>) = <<>>
  <2>1. <<>> \o <<>> = <<>>
    OBVIOUS
  <2> QED BY <2>1 DEF Whole
<1>4. Sorted(States(<<>>), made)
  <2>1. States(<<>>) = <<>>
    BY OfKindEmpty DEF States
  <2> QED BY <2>1 DEF Sorted
<1>5. Agrees(<<>>, <<>>, ~yields, made)
  BY <1>4 DEF Agrees
<1> QED BY <1>1, <1>2, <1>3, <1>5

LEMMA OwedAlone ==
  ASSUME NEW u \in Players, NEW p \in Players, NEW x \in Items
  PROVE  Owed(u, <<p>>, x) = IF p = u THEN <<x>> ELSE <<>>
<1>1. Copies(<<p>>, x) = <<x>>
  BY DEF Copies
<1>2. DOMAIN <<p>> = {1} /\ <<p>>[1] = p /\ p # Everyone
  BY OutboxAssumption
<1> DEFINE his == {i \in DOMAIN <<p>> : <<p>>[i] \in {u, Everyone}}
<1>3. 1 \in his <=> p = u
  BY <1>2
<1> HIDE DEF his
<1>4. At(<<x>>, his) = IF p = u THEN <<x>> ELSE <<>>
  BY <1>3, AtOne
<1> QED BY <1>1, <1>4 DEF Owed, his

(* A handler is given items up to one that yields; the rest is kept.       *)
LEMMA TakingIs ==
  ASSUME read \in [Players -> Seq(Items)], rest \in [Players -> Seq(Seq(Items))],
         NEW p \in Players, NEW items \in Seq(Items), NEW others \in Seq(Seq(Items)),
         Taken(p, items, others)
  PROVE  /\ \E h, t \in Seq(Items) :
              /\ items = h \o t /\ read'[p] = read[p] \o h
              /\ FlattenSeq(rest'[p]) = FlattenSeq(others) \o t
              /\ ~yields => t = <<>>
         /\ \A u \in Players : u # p => read'[u] = read[u] /\ rest'[u] = rest[u]
<1>0. Len(items) \in 0 .. Len(items) /\ 1 .. Len(items) \subseteq 0 .. Len(items)
  <2>1. Len(items) \in Nat
    BY LenProperties
  <2> QED BY <2>1
<1>k. PICK k \in 0 .. Len(items) : (k = Len(items) \/ yields) /\ Take(p, items, k, others)
  BY <1>0, Zenon DEF Taken
<1>1.
        /\ k = Len(items) \/ yields
        /\ read' = [read EXCEPT ![p] = @ \o SubSeq(items, 1, k)]
        /\ rest' = [rest EXCEPT ![p] =
             IF k = Len(items) THEN others ELSE Append(others, SubSeq(items, k + 1, Len(items)))]
  BY <1>k DEF Take
<1> DEFINE h == SubSeq(items, 1, k)  t == SubSeq(items, k + 1, Len(items))
<1>2. h \in Seq(Items) /\ t \in Seq(Items) /\ items = h \o t /\ Len(t) = Len(items) - k
  <2>1. k \in 0 .. Len(items) /\ Len(items) \in k .. Len(items)
    OBVIOUS
  <2>2. t \in Seq(Items) /\ Len(t) = Len(items) - k /\ h \o t = SubSeq(items, 1, Len(items))
    BY <2>1, SubSeqJoins
  <2>3. SubSeq(items, 1, Len(items)) = items /\ h \in Seq(Items)
    OBVIOUS
  <2> QED BY <2>2, <2>3
<1>3. /\ read'[p] = read[p] \o h
      /\ rest'[p] = IF k = Len(items) THEN others ELSE Append(others, t)
      /\ \A u \in Players : u # p => read'[u] = read[u] /\ rest'[u] = rest[u]
  BY <1>1
<1>4. FlattenSeq(others) \in Seq(Items) /\ FlattenSeq(Append(others, t)) = FlattenSeq(others) \o t
  BY <1>2, FlattenAppend
<1>5. k = Len(items) => t = <<>>
  BY <1>2
<1> HIDE DEF h, t
<1>6. FlattenSeq(rest'[p]) = FlattenSeq(others) \o t
  <2>1. CASE k = Len(items)
    <3>1. FlattenSeq(others) \o <<>> = FlattenSeq(others)
      BY <1>4, Joining
    <3> QED BY <1>3, <1>5, <2>1, <3>1
  <2>2. CASE k # Len(items)
    BY <1>3, <1>4, <2>2
  <2> QED BY <2>1, <2>2
<1>7. ~yields => t = <<>>
  BY <1>1, <1>5
<1> QED BY <1>2, <1>3, <1>6, <1>7

LEMMA PartsAre ==
  ASSUME Typed, NEW u \in Players
  PROVE  /\ read[u] \in Seq(Items) /\ FlattenSeq(rest[u]) \in Seq(Items) /\ Flat(wire[u]) \in Seq(Items)
         /\ Mine(u, queue) \in Seq(Items) /\ owed[u] \in Seq(Items)
         /\ ~yields => FlattenSeq(rest[u]) = <<>>
         /\ ~batching => Mine(u, queue) = <<>>
<1>1. /\ queue \in Seq(QueuedItems) /\ (~batching => queue = <<>>)
      /\ wire \in [Players -> Seq(AnyFrames)]
      /\ rest \in [Players -> Seq(Seq(Items))] /\ (~yields => rest = [p \in Players |-> <<>>])
      /\ read \in [Players -> Seq(Items)] /\ owed \in [Players -> Seq(Items)]
  BY TypedIs DEF Typed
<1>2. FlattenSeq(rest[u]) \in Seq(Items)
  <2>1. rest[u] \in Seq(Seq(Items)) /\ <<>> \in Seq(Items)
    BY <1>1
  <2> QED BY <2>1, FlattenAppend
<1>3. ~yields => FlattenSeq(rest[u]) = <<>>
  <2>1. ~yields => rest[u] = <<>>
    BY <1>1
  <2> QED BY <2>1, FlattenEmpty
<1>4. Flat(wire[u]) \in Seq(Items)
  <2>1. wire[u] \in Seq(AnyFrames)
    BY <1>1
  <2> QED BY <2>1, FlatIs
<1>5. Mine(u, queue) \in Seq(Items) /\ (~batching => Mine(u, queue) = <<>>)
  BY <1>1, MineType, MineEmpty
<1>6. read[u] \in Seq(Items) /\ owed[u] \in Seq(Items)
  BY <1>1
<1> QED BY <1>2, <1>3, <1>4, <1>5, <1>6

LEMMA OrderEnqueue ==
  ASSUME Typed, Order, NEW u \in Players \ gone, NEW x \in Items, New(x), NEW g \in Seq(Recipients), Enqueue(g, x)
  PROVE  Agrees(Whole(read[u], FlattenSeq(rest[u]), Flat(wire[u]), Mine(u, queue')), owed'[u], ~yields, made')
<1> DEFINE r == read[u]  h == FlattenSeq(rest[u])  c == Flat(wire[u])  w == Mine(u, queue)  s == Owed(u, g, x)
<1>1. r \in Seq(Items) /\ h \in Seq(Items) /\ c \in Seq(Items) /\ w \in Seq(Items) /\ owed[u] \in Seq(Items)
  BY PartsAre
<1>2. s \in Seq({x}) /\ s \in Seq(Items)
  BY OwedType
<1>3. queue \in Seq(QueuedItems) /\ made \in Nat /\ owed \in [Players -> Seq(Items)]
  BY TypedIs DEF Typed
<1>4. Mine(u, queue') = w \o s
  <2>1. QueuedFor(g, x) \in Seq(QueuedItems) /\ Mine(u, QueuedFor(g, x)) = s
    BY QueuedForIs
  <2>2. queue' = queue \o QueuedFor(g, x)
    BY DEF Enqueue
  <2> DEFINE a == QueuedFor(g, x)
  <2> HIDE DEF a
  <2>3. Mine(u, queue \o a) = Mine(u, queue) \o Mine(u, a)
    BY <1>3, <2>1, MineConcat DEF a
  <2> QED BY <2>1, <2>2, <2>3 DEF a
<1>5. owed'[u] = owed[u] \o s /\ made' = made + 1 /\ x.n = made + 1 /\ x.kind # "state"
  BY <1>3, OweIs DEF Enqueue, Count, New
<1>6. Agrees(Whole(r, h, c, w), owed[u], ~yields, made)
  BY DEF Order
<1> HIDE DEF r, h, c, w, s
<1> DEFINE all == Whole(r, h, c, w)
<1>7. all \in Seq(Items) /\ Whole(r, h, c, w \o s) = all \o s
  <2>1. Four(r, h, c, w)
    BY <1>1 DEF Four
  <2> QED BY <1>2, <2>1, WholeType, WholeQueued
<1> HIDE DEF all
<1>8. Agrees(all, owed[u], ~yields, made)
  BY <1>6 DEF all
<1>9. Agrees(all \o s, owed[u] \o s, ~yields, made + 1)
  BY <1>1, <1>2, <1>3, <1>5, <1>7, <1>8, AgreesMore
<1> QED BY <1>4, <1>5, <1>7, <1>9 DEF r, h, c

LEMMA OrderAlone ==
  ASSUME Typed, Order, NEW u \in Players \ gone, NEW x \in Items, New(x), NEW g \in Seq(Recipients), FireAlone(g, x)
  PROVE  Agrees(Whole(read[u], FlattenSeq(rest[u]), Flat(wire'[u]), Mine(u, queue)), owed'[u], ~yields, made')
<1> DEFINE r == read[u]  h == FlattenSeq(rest[u])  c == Flat(wire[u])  s == Owed(u, g, x)
<1>1. r \in Seq(Items) /\ h \in Seq(Items) /\ c \in Seq(Items) /\ owed[u] \in Seq(Items) /\ Mine(u, queue) = <<>>
  BY PartsAre DEF FireAlone
<1>2. s \in Seq({x}) /\ s \in Seq(Items)
  BY OwedType
<1>3. /\ queue \in Seq(QueuedItems) /\ made \in Nat /\ owed \in [Players -> Seq(Items)]
      /\ wire \in [Players -> Seq(SentFrames)]
  BY TypedIs DEF Typed
<1>4. Flat(wire'[u]) = c \o s
  <2>1. Alone(g, x) \in Seq(SentFrames) /\ For(u, Alone(g, x)) = s
    BY AloneIs
  <2> QED BY <1>3, <2>1, DeliverIs DEF FireAlone
<1>5. owed'[u] = owed[u] \o s /\ made' = made + 1 /\ x.n = made + 1
  BY <1>3, OweIs DEF FireAlone, Count, New
<1>6. x.kind = "state" => s \in {<<>>, <<x>>}
  <2> SUFFICES ASSUME x.kind = "state" PROVE s \in {<<>>, <<x>>}
    OBVIOUS
  <2>1. PICK p \in Players : g = <<p>>
    BY DEF FireAlone
  <2>2. Owed(u, <<p>>, x) = IF p = u THEN <<x>> ELSE <<>>
    BY OwedAlone
  <2> QED BY <2>1, <2>2
<1>7. Agrees(Whole(r, h, c, <<>>), owed[u], ~yields, made)
  BY <1>1 DEF Order
<1> HIDE DEF r, h, c, s
<1> DEFINE all == Whole(r, h, c, <<>>)
<1>8. all \in Seq(Items) /\ Whole(r, h, c \o s, <<>>) = all \o s
  <2>1. <<>> \in Seq(Items)
    OBVIOUS
  <2>2. Four(r, h, c, <<>>) /\ Four(r, h, c, s)
    BY <1>1, <1>2, <2>1 DEF Four
  <2> QED BY <2>2, WholeType, WholeSent
<1> HIDE DEF all
<1>9. Agrees(all, owed[u], ~yields, made)
  BY <1>7 DEF all
<1>10. Agrees(all \o s, owed[u] \o s, ~yields, made + 1)
  BY <1>1, <1>2, <1>3, <1>5, <1>6, <1>8, <1>9, AgreesMore
<1> QED BY <1>1, <1>4, <1>5, <1>8, <1>10 DEF r, h

LEMMA OrderLoose ==
  ASSUME Typed, Order, NEW u \in Players \ gone, NEW x \in Items, New(x), FireLoose(x)
  PROVE  Agrees(Whole(read[u], FlattenSeq(rest[u]), Flat(wire[u]), Mine(u, queue)), owed[u], ~yields, made')
<1> DEFINE all == Whole(read[u], FlattenSeq(rest[u]), Flat(wire[u]), Mine(u, queue))
<1>1. all \in Seq(Items)
  BY PartsAre, WholeType DEF Four
<1>2. Agrees(all, owed[u], ~yields, made) /\ made \in Nat /\ made' = made + 1
  BY TypedIs DEF Order, Typed, FireLoose, Count
<1> HIDE DEF all
<1>3. Agrees(all, owed[u], ~yields, made + 1)
  BY <1>1, <1>2, AgreesLater
<1> QED BY <1>2, <1>3 DEF all

LEMMA OrderReplace ==
  ASSUME Typed, Order, NEW u \in Players \ gone, NEW x \in Items, New(x), NEW p \in Players, Replace(p, x)
  PROVE  Agrees(Whole(read[u], FlattenSeq(rest[u]), Flat(wire[u]), Mine(u, queue')), owed'[u], ~yields, made')
<1> DEFINE r == read[u]  h == FlattenSeq(rest[u])  c == Flat(wire[u])  m == Mine(u, queue)
<1>1. r \in Seq(Items) /\ h \in Seq(Items) /\ c \in Seq(Items) /\ m \in Seq(Items) /\ owed[u] \in Seq(Items)
  BY PartsAre
<1>2. queue \in Seq(QueuedItems) /\ OneState(queue) /\ made \in Nat /\ owed \in [Players -> Seq(Items)]
  BY TypedIs DEF Typed
<1>3. x.kind = "state" /\ made' = made + 1 /\ x.n = made + 1
  BY DEF Replace, Count, New
<1>4. owed'[u] = owed[u] \o Owed(u, <<p>>, x)
  <2>1. <<p>> \in Seq(Recipients)
    BY OneRecipient DEF Recipients
  <2> QED BY <1>2, <2>1, OweIs DEF Replace
<1>5. /\ queue' \in Seq(QueuedItems)
      /\ \A v \in Players : v # p => Mine(v, queue') = Mine(v, queue)
      /\ GaveWay(Mine(p, queue), Mine(p, queue'), x)
  <2>1. queue' = Replaced(queue, p, x)
    BY DEF Replace
  <2> DEFINE q == queue'
  <2>2. q = Replaced(queue, p, x)
    BY <2>1
  <2> HIDE DEF q
  <2>3. /\ q \in Seq(QueuedItems)
        /\ \A v \in Players : v # p => Mine(v, q) = Mine(v, queue)
        /\ GaveWay(Mine(p, queue), Mine(p, q), x)
    BY <1>2, <1>3, <2>2, ReplacedIs
  <2> QED BY <2>3 DEF q
<1>6. Agrees(Whole(r, h, c, m), owed[u], ~yields, made)
  BY DEF Order
<1>7. CASE u # p
  <2>1. owed'[u] = owed[u] /\ Mine(u, queue') = m
    <3>1. Owed(u, <<p>>, x) = <<>>
      BY <1>7, OwedAlone
    <3>2. owed[u] \o <<>> = owed[u]
      BY <1>1, Joining
    <3> QED BY <1>4, <1>5, <1>7, <3>1, <3>2
  <2> HIDE DEF r, h, c, m
  <2> DEFINE all == Whole(r, h, c, m)
  <2>2. all \in Seq(Items)
    BY <1>1, WholeType DEF Four
  <2> HIDE DEF all
  <2>3. Agrees(all, owed[u], ~yields, made + 1)
    BY <1>2, <1>6, <2>2, AgreesLater DEF all
  <2> QED BY <1>3, <2>1, <2>3 DEF all, r, h, c
<1>8. CASE u = p
  <2> DEFINE n == Mine(u, queue')
  <2>1. n \in Seq(Items) /\ GaveWay(m, n, x)
    BY <1>5, <1>8, MineType
  <2>2. owed'[u] = owed[u] \o <<x>>
    BY <1>4, <1>8, OwedAlone
  <2> HIDE DEF r, h, c, m, n
  <2>3. PICK pre \in Seq(Items) : Whole(r, h, c, m) = pre \o m /\ Whole(r, h, c, n) = pre \o n
    <3>1. Fronted(r, h, c)
      BY <1>1, WholeFront
    <3> QED BY <1>1, <2>1, <3>1, Zenon DEF Fronted
  <2>4. Agrees(pre \o m, owed[u], ~yields, made)
    BY <1>6, <2>3
  <2>5. Agrees(pre \o n, owed[u] \o <<x>>, ~yields, made + 1)
    BY <1>1, <1>2, <1>3, <2>1, <2>3, <2>4, AgreesGaveWay
  <2> QED BY <1>3, <2>2, <2>3, <2>5 DEF r, h, c, n
<1> QED BY <1>7, <1>8

LEMMA OrderFlush ==
  ASSUME Typed, Order, NEW u \in Players \ gone, Flush
  PROVE  Agrees(Whole(read[u], FlattenSeq(rest[u]), Flat(wire'[u]), Mine(u, queue')), owed[u], ~yields, made)
<1> DEFINE r == read[u]  h == FlattenSeq(rest[u])  c == Flat(wire[u])  w == Mine(u, queue)
<1>1. r \in Seq(Items) /\ h \in Seq(Items) /\ c \in Seq(Items) /\ w \in Seq(Items)
  BY PartsAre
<1>2. queue \in Seq(QueuedItems) /\ wire \in [Players -> Seq(SentFrames)]
  BY TypedIs DEF Typed
<1>3. Flat(wire'[u]) = c \o w
  <2>1. Frames(queue) \in Seq(SentFrames) /\ Carries(Frames(queue), queue)
    BY <1>2, FlushedIs
  <2>2. For(u, Frames(queue)) = w
    BY <2>1 DEF Carries
  <2> QED BY <1>2, <2>1, <2>2, DeliverIs DEF Flush
<1>4. Mine(u, queue') = <<>>
  BY MineEmpty DEF Flush
<1>5. Agrees(Whole(r, h, c, w), owed[u], ~yields, made)
  BY DEF Order
<1> HIDE DEF r, h, c, w
<1>6. Whole(r, h, c \o w, <<>>) = Whole(r, h, c, w)
  BY <1>1, WholeSent DEF Four
<1> QED BY <1>3, <1>4, <1>5, <1>6 DEF r, h

(* Reading a frame that begins with the items i \o j, up to j.             *)
LEMMA OrderRead ==
  ASSUME NEW r \in Seq(Items), NEW i \in Seq(Items), NEW j \in Seq(Items), NEW o \in Seq(Items), NEW c \in Seq(Items),
         NEW w \in Seq(Items), NEW due, NEW ordered, NEW b,
         ordered => o = <<>> /\ j = <<>>,
         Agrees(Whole(r, o, (i \o j) \o c, w), due, ordered, b)
  PROVE  Agrees(Whole(r \o i, o \o j, c, w), due, ordered, b)
<1>1. CASE ordered
  <2>1. o = <<>> /\ j = <<>> /\ i \o <<>> = i /\ <<>> \o <<>> = <<>>
    BY <1>1, Joining
  <2>2. Whole(r \o i, <<>>, c, w) = Whole(r, <<>>, i \o c, w)
    BY WholeRead DEF Four
  <2> QED BY <2>1, <2>2
<1>2. CASE ~ordered
  <2>1. AsMuch(Whole(r \o i, o \o j, c, w), Whole(r, o, (i \o j) \o c, w))
    BY WholeKept DEF AsMuch
  <2> QED BY <1>2, <2>1, AgreesAsMuch
<1> QED BY <1>1, <1>2

LEMMA OrderReceive ==
  ASSUME Typed, Order, NEW u \in Players \ gone, NEW p \in Players, Receive(p)
  PROVE  Agrees(Whole(read'[u], FlattenSeq(rest'[u]), Flat(wire'[u]), Mine(u, queue)), owed[u], ~yields, made)
<1> DEFINE items == Head(wire[p]).items
<1>1. /\ wire \in [Players -> Seq(SentFrames)] /\ rest \in [Players -> Seq(Seq(Items))]
      /\ read \in [Players -> Seq(Items)] /\ yields \in BOOLEAN
  BY TypedIs DEF Typed
<1>2. wire[p] # <<>> /\ wire' = [wire EXCEPT ![p] = Tail(@)]
  BY DEF Receive
<1>3. Head(wire[p]) \in SentFrames /\ Tail(wire[p]) \in Seq(SentFrames) /\ wire[p] = <<Head(wire[p])>> \o Tail(wire[p])
  <2>1. wire[p] \in Seq(SentFrames)
    BY <1>1
  <2> QED BY <1>2, <2>1
<1>4. items \in Seq(Items) /\ items # <<>> /\ ItemsOf(Head(wire[p])) = items
  <2>1. items \in Seq(Items) /\ Len(items) \in 1 .. MaxFrameItems
    BY <1>3 DEF SentFrames, AnyFrames
  <2>2. items # <<>>
    BY <2>1
  <2> QED BY <2>1, <2>2 DEF ItemsOf
<1>5. Flat(wire[p]) = items \o Flat(Tail(wire[p])) /\ Flat(Tail(wire[p])) \in Seq(Items)
  <2> DEFINE f == Head(wire[p])  t == Tail(wire[p])
  <2> HIDE DEF f, t
  <2>1. f \in AnyFrames /\ t \in Seq(AnyFrames)
    BY <1>3, SentFramesIs DEF f, t, SentFrames
  <2>2. <<f>> \in Seq(AnyFrames)
    BY <2>1, Single
  <2>3. Flat(<<f>> \o t) = Flat(<<f>>) \o Flat(t) /\ Flat(<<f>>) = f.items /\ Flat(t) \in Seq(Items)
    BY <2>1, <2>2, FlatConcat, FlatOne, FlatIs
  <2> QED BY <1>3, <2>3 DEF f, t
<1>6. Taken(p, items, rest[p])
  BY <1>4, ReceiveTakes
<1> HIDE DEF items
<1>7. /\ \E h, t \in Seq(Items) :
           /\ items = h \o t /\ read'[p] = read[p] \o h
           /\ FlattenSeq(rest'[p]) = FlattenSeq(rest[p]) \o t
           /\ ~yields => t = <<>>
      /\ \A v \in Players : v # p => read'[v] = read[v] /\ rest'[v] = rest[v]
  <2> DEFINE others == rest[p]
  <2>1. /\ others \in Seq(Seq(Items)) /\ items \in Seq(Items) /\ Taken(p, items, others)
        /\ rest \in [Players -> Seq(Seq(Items))] /\ read \in [Players -> Seq(Items)]
    BY <1>1, <1>4, <1>6
  <2>2. /\ \E h, t \in Seq(Items) :
             /\ items = h \o t /\ read'[p] = read[p] \o h
             /\ FlattenSeq(rest'[p]) = FlattenSeq(others) \o t
             /\ ~yields => t = <<>>
        /\ \A v \in Players : v # p => read'[v] = read[v] /\ rest'[v] = rest[v]
    <3> HIDE DEF others
    <3> QED BY <2>1, TakingIs
  <2> QED BY <2>2
<1>8. Agrees(Whole(read[u], FlattenSeq(rest[u]), Flat(wire[u]), Mine(u, queue)), owed[u], ~yields, made)
  BY DEF Order
<1>9. CASE u # p
  <2>1. wire'[u] = wire[u] /\ read'[u] = read[u] /\ rest'[u] = rest[u]
    BY <1>1, <1>2, <1>7, <1>9
  <2> QED BY <1>8, <2>1
<1>10. CASE u = p
  <2>1. PICK h, t \in Seq(Items) :
          /\ items = h \o t /\ read'[u] = read[u] \o h
          /\ FlattenSeq(rest'[u]) = FlattenSeq(rest[u]) \o t
          /\ ~yields => t = <<>>
    BY <1>7, <1>10
  <2> DEFINE r == read[u]  o == FlattenSeq(rest[u])  c == Flat(Tail(wire[u]))  w == Mine(u, queue)
  <2>2. r \in Seq(Items) /\ o \in Seq(Items) /\ c \in Seq(Items) /\ w \in Seq(Items) /\ (~yields => o = <<>>)
    BY <1>5, <1>10, PartsAre
  <2>3. wire'[u] = Tail(wire[u])
    BY <1>1, <1>2, <1>10
  <2>4. Agrees(Whole(r, o, (h \o t) \o c, w), owed[u], ~yields, made)
    BY <1>5, <1>8, <1>10, <2>1
  <2> HIDE DEF r, o, c, w
  <2>5. ~yields => o = <<>> /\ t = <<>>
    BY <2>1, <2>2, Zenon
  <2>6. Agrees(Whole(r \o h, o \o t, c, w), owed[u], ~yields, made)
    BY <2>2, <2>4, <2>5, OrderRead
  <2> QED BY <2>1, <2>3, <2>6 DEF r, o, c, w
<1> QED BY <1>9, <1>10

LEMMA OrderResumed ==
  ASSUME Typed, Order, NEW u \in Players \ gone, NEW p \in Players, HandlerEnds(p)
  PROVE  Agrees(Whole(read'[u], FlattenSeq(rest'[u]), Flat(wire[u]), Mine(u, queue)), owed[u], ~yields, made)
<1> DEFINE Q == Seq(Items)
<1>1. /\ rest \in [Players -> Seq(Seq(Items))] /\ read \in [Players -> Seq(Items)] /\ yields \in BOOLEAN
      /\ (~yields => rest = [v \in Players |-> <<>>])
  BY TypedIs DEF Typed
<1>2. PICK k \in DOMAIN rest[p] : Taken(p, rest[p][k], RemoveAt(rest[p], k))
  BY HandlerEndTakes
<1>3. yields
  <2> SUFFICES ASSUME ~yields PROVE FALSE
    BY <1>1
  <2>1. rest[p] = <<>>
    BY <1>1
  <2> QED BY <1>2, <2>1
<1>4. PICK a, b \in Seq(Q) : CutAt(Q, rest[p], k, a, b)
  <2> HIDE DEF Q
  <2>1. rest[p] \in Seq(Q)
    BY <1>1 DEF Q
  <2>2. k \in 1 .. Len(rest[p])
    BY <1>2, <2>1
  <2> QED BY <2>1, <2>2, Cut
<1> DEFINE items == rest[p][k]
<1>5. /\ items \in Seq(Items) /\ a \o b = RemoveAt(rest[p], k) /\ rest[p] = a \o (<<items>> \o b)
      /\ a \o b \in Seq(Q)
  <2> HIDE DEF Q
  <2>1. rest[p] \in Seq(Q)
    BY <1>1 DEF Q
  <2>2. items \in Q
    BY <1>2, <2>1
  <2>3. a \o b = RemoveAt(rest[p], k) /\ rest[p] = a \o (<<items>> \o b)
    BY <1>4 DEF CutAt
  <2>4. a \o b \in Seq(Q)
    BY Joining
  <2> QED BY <2>2, <2>3, <2>4 DEF Q
<1>6. /\ FlattenSeq(a) \in Seq(Items) /\ FlattenSeq(b) \in Seq(Items)
      /\ FlattenSeq(a \o b) = FlattenSeq(a) \o FlattenSeq(b)
      /\ FlattenSeq(rest[p]) = FlattenSeq(a) \o (items \o FlattenSeq(b))
  <2> HIDE DEF items
  <2>1. FlattenSeq(<<items>>) = items /\ <<items>> \in Seq(Seq(Items))
    <3>1. <<>> \in Seq(Seq(Items)) /\ <<items>> = Append(<<>>, items) /\ <<>> \o items = items
      BY <1>5
    <3>2. FlattenSeq(Append(<<>>, items)) = FlattenSeq(<<>>) \o items
      BY <1>5, <3>1, FlattenAppend
    <3>3. <<items>> \in Seq(Seq(Items))
      <4> HIDE DEF Q
      <4>1. items \in Q
        BY <1>5 DEF Q
      <4>2. <<items>> \in Seq(Q)
        BY <4>1, Single
      <4> QED BY <4>2 DEF Q
    <3> QED BY <3>1, <3>2, <3>3, FlattenEmpty
  <2>2. a \in Seq(Seq(Items)) /\ b \in Seq(Seq(Items)) /\ <<>> \in Seq(Items)
    OBVIOUS
  <2>3. FlattenSeq(a \o b) = FlattenSeq(a) \o FlattenSeq(b) /\ FlattenSeq(a) \in Seq(Items) /\ FlattenSeq(b) \in Seq(Items)
    BY <2>2, FlattenConcat, FlattenAppend
  <2> DEFINE one == <<items>>
  <2> DEFINE back == one \o b
  <2> HIDE DEF one
  <2>4. one \in Seq(Seq(Items)) /\ FlattenSeq(one) = items
    BY <2>1 DEF one
  <2>5. back \in Seq(Seq(Items)) /\ FlattenSeq(back) = FlattenSeq(one) \o FlattenSeq(b)
    <3> HIDE DEF Q
    <3>1. one \in Seq(Q) /\ b \in Seq(Q)
      BY <2>2, <2>4 DEF Q
    <3>2. back \in Seq(Q)
      BY <3>1, Joining
    <3> QED BY <2>2, <2>4, <3>2, FlattenConcat DEF Q
  <2> HIDE DEF back
  <2>6. FlattenSeq(a \o back) = FlattenSeq(a) \o FlattenSeq(back)
    BY <2>2, <2>5, FlattenConcat
  <2>7. rest[p] = a \o back
    BY <1>5 DEF back, one
  <2> QED BY <2>3, <2>4, <2>5, <2>6, <2>7
<1> HIDE DEF items
<1> DEFINE others == a \o b
<1>7. /\ \E h, t \in Seq(Items) :
           /\ items = h \o t /\ read'[p] = read[p] \o h
           /\ FlattenSeq(rest'[p]) = FlattenSeq(others) \o t
           /\ ~yields => t = <<>>
      /\ \A v \in Players : v # p => read'[v] = read[v] /\ rest'[v] = rest[v]
  <2>1. others \in Seq(Seq(Items)) /\ Taken(p, items, others)
    BY <1>2, <1>5 DEF items
  <2> HIDE DEF others
  <2> QED BY <1>1, <1>5, <2>1, TakingIs
<1>8. Agrees(Whole(read[u], FlattenSeq(rest[u]), Flat(wire[u]), Mine(u, queue)), owed[u], ~yields, made)
  BY DEF Order
<1>9. CASE u # p
  <2>1. read'[u] = read[u] /\ rest'[u] = rest[u]
    BY <1>7, <1>9
  <2> QED BY <1>8, <2>1
<1>10. CASE u = p
  <2>1. PICK h, t \in Seq(Items) :
          /\ items = h \o t /\ read'[u] = read[u] \o h
          /\ FlattenSeq(rest'[u]) = (FlattenSeq(a) \o FlattenSeq(b)) \o t
    BY <1>6, <1>7, <1>10
  <2> DEFINE r == read[u]  fa == FlattenSeq(a)  fb == FlattenSeq(b)  c == Flat(wire[u])  w == Mine(u, queue)
  <2>2. r \in Seq(Items) /\ fa \in Seq(Items) /\ fb \in Seq(Items) /\ c \in Seq(Items) /\ w \in Seq(Items)
    BY <1>6, PartsAre
  <2>3. Agrees(Whole(r, fa \o ((h \o t) \o fb), c, w), owed[u], FALSE, made)
    BY <1>3, <1>6, <1>8, <1>10, <2>1
  <2> HIDE DEF r, fa, fb, c, w
  <2>4. AsMuch(Whole(r \o h, (fa \o fb) \o t, c, w), Whole(r, fa \o ((h \o t) \o fb), c, w))
    BY <2>2, WholeResumed DEF AsMuch
  <2>5. Agrees(Whole(r \o h, (fa \o fb) \o t, c, w), owed[u], FALSE, made)
    BY <2>3, <2>4, AgreesAsMuch
  <2> QED BY <1>3, <2>1, <2>5 DEF r, fa, fb, c, w
<1> QED BY <1>9, <1>10

LEMMA OrderStep ==
  ASSUME Typed, Order, [ChannelNext]_channelVars
  PROVE  Order'
<1> SUFFICES ASSUME NEW u \in Players \ gone'
             PROVE  Agrees(Whole(read'[u], FlattenSeq(rest'[u]), Flat(wire'[u]), Mine(u, queue')),
                           owed'[u], ~yields', made')
  BY OrderNext
<1>0. ChannelTypeOK /\ gone \subseteq gone'
  <2>1. ChannelTypeOK
    BY DEF Typed
  <2>2. Produce \/ Idle \/ Consume
    BY <2>1, NextIs
  <2>3. Consume => gone \subseteq gone'
    BY DEF Consume, Flush, Leave, Receive, HandlerEnds
  <2>4. (Produce \/ Idle) => gone' = gone
    BY DEF Produce, Idle
  <2> QED BY <2>1, <2>2, <2>3, <2>4
<1>1. u \in Players \ gone /\ u \in Players
  BY <1>0
<1>2. Produce \/ Idle \/ Consume
  BY <1>0, NextIs
<1>3. Agrees(Whole(read[u], FlattenSeq(rest[u]), Flat(wire[u]), Mine(u, queue)), owed[u], ~yields, made)
  BY <1>1 DEF Order
<1>4. CASE Idle
  BY <1>3, <1>4 DEF Idle, modes, wireVars, reading, history
<1>5. CASE Produce
  <2>1. PICK x \in Items :
          /\ New(x)
          /\ \/ \E g \in Seq(Recipients) : Enqueue(g, x) \/ FireAlone(g, x)
             \/ x.kind = "signal" /\ FireLoose(x)
             \/ \E p \in Players : Replace(p, x)
    BY <1>5 DEF Produce
  <2>2. UNCHANGED <<yields, rest, read>>
    BY <1>5 DEF Produce, modes, reading
  <2>3. ASSUME NEW g \in Seq(Recipients), Enqueue(g, x)
        PROVE  Agrees(Whole(read'[u], FlattenSeq(rest'[u]), Flat(wire'[u]), Mine(u, queue')), owed'[u], ~yields', made')
    <3>1. wire' = wire
      BY <2>3 DEF Enqueue
    <3>2. Agrees(Whole(read[u], FlattenSeq(rest[u]), Flat(wire[u]), Mine(u, queue')), owed'[u], ~yields, made')
      BY <1>1, <2>1, <2>3, OrderEnqueue
    <3> QED BY <2>2, <3>1, <3>2
  <2>4. ASSUME NEW g \in Seq(Recipients), FireAlone(g, x)
        PROVE  Agrees(Whole(read'[u], FlattenSeq(rest'[u]), Flat(wire'[u]), Mine(u, queue')), owed'[u], ~yields', made')
    <3>1. queue' = queue
      BY <2>4 DEF FireAlone
    <3>2. Agrees(Whole(read[u], FlattenSeq(rest[u]), Flat(wire'[u]), Mine(u, queue)), owed'[u], ~yields, made')
      BY <1>1, <2>1, <2>4, OrderAlone
    <3> QED BY <2>2, <3>1, <3>2
  <2>5. ASSUME FireLoose(x)
        PROVE  Agrees(Whole(read'[u], FlattenSeq(rest'[u]), Flat(wire'[u]), Mine(u, queue')), owed'[u], ~yields', made')
    <3>1. UNCHANGED <<queue, wire, owed>>
      BY <2>5 DEF FireLoose
    <3>2. Agrees(Whole(read[u], FlattenSeq(rest[u]), Flat(wire[u]), Mine(u, queue)), owed[u], ~yields, made')
      BY <1>1, <2>1, <2>5, OrderLoose
    <3> QED BY <2>2, <3>1, <3>2
  <2>6. ASSUME NEW p \in Players, Replace(p, x)
        PROVE  Agrees(Whole(read'[u], FlattenSeq(rest'[u]), Flat(wire'[u]), Mine(u, queue')), owed'[u], ~yields', made')
    <3>1. wire' = wire
      BY <2>6 DEF Replace
    <3>2. Agrees(Whole(read[u], FlattenSeq(rest[u]), Flat(wire[u]), Mine(u, queue')), owed'[u], ~yields, made')
      BY <1>1, <2>1, <2>6, OrderReplace
    <3> QED BY <2>2, <3>1, <3>2
  <2> QED BY <2>1, <2>3, <2>4, <2>5, <2>6
<1>6. CASE Consume
  <2>1. CASE Flush
    <3>1. UNCHANGED <<rest, read, owed, yields, made>>
      BY <2>1 DEF Flush, modes, reading, history
    <3>2. Agrees(Whole(read[u], FlattenSeq(rest[u]), Flat(wire'[u]), Mine(u, queue')), owed[u], ~yields, made)
      BY <1>1, <2>1, OrderFlush
    <3> QED BY <3>1, <3>2
  <2>2. ASSUME NEW p \in Players, Leave(p)
        PROVE  Agrees(Whole(read'[u], FlattenSeq(rest'[u]), Flat(wire'[u]), Mine(u, queue')), owed'[u], ~yields', made')
    <3>1. /\ UNCHANGED <<queue, read, owed, yields, made>> /\ p \in gone'
          /\ wire' = [wire EXCEPT ![p] = <<>>] /\ rest' = [rest EXCEPT ![p] = <<>>]
      BY <2>2 DEF Leave, modes, history
    <3>2. wire'[u] = wire[u] /\ rest'[u] = rest[u]
      <4>1. u # p
        BY <3>1
      <4>2. wire \in [Players -> Seq(AnyFrames)] /\ rest \in [Players -> Seq(Seq(Items))]
        BY <1>0, TypedIs
      <4> QED BY <1>1, <3>1, <4>1, <4>2
    <3> QED BY <1>3, <3>1, <3>2
  <2>3. ASSUME NEW p \in Players, Receive(p)
        PROVE  Agrees(Whole(read'[u], FlattenSeq(rest'[u]), Flat(wire'[u]), Mine(u, queue')), owed'[u], ~yields', made')
    <3>1. UNCHANGED <<queue, owed, yields, made>>
      BY <2>3 DEF Receive, modes, history
    <3>2. Agrees(Whole(read'[u], FlattenSeq(rest'[u]), Flat(wire'[u]), Mine(u, queue)), owed[u], ~yields, made)
      BY <1>1, <2>3, OrderReceive
    <3> QED BY <3>1, <3>2
  <2>4. ASSUME NEW p \in Players, HandlerEnds(p)
        PROVE  Agrees(Whole(read'[u], FlattenSeq(rest'[u]), Flat(wire'[u]), Mine(u, queue')), owed'[u], ~yields', made')
    <3>1. UNCHANGED <<queue, wire, owed, yields, made>>
      BY <2>4 DEF HandlerEnds, modes, wireVars, history
    <3>2. Agrees(Whole(read'[u], FlattenSeq(rest'[u]), Flat(wire[u]), Mine(u, queue)), owed[u], ~yields, made)
      BY <1>1, <2>4, OrderResumed
    <3> QED BY <3>1, <3>2
  <2> QED BY <1>6, <2>1, <2>2, <2>3, <2>4 DEF Consume
<1> QED BY <1>2, <1>4, <1>5, <1>6

(* What is lost: at most the rest of a frame with every throw.  Where a    *)
(* handler yielded, at least its own item is taken already.                *)
Most == MaxFrameItems - 1
Lost(p) == IsFiniteSet(skipped[p]) /\ Cardinality(skipped[p]) <= threw[p] * Most
Losses == \A p \in Players : Lost(p) /\ \A i \in DOMAIN rest[p] : Len(rest[p][i]) <= Most

LEMMA LossesInit == ChannelInit => Losses
<1>1. ASSUME ChannelInit, NEW p \in Players PROVE Lost(p) /\ rest[p] = <<>>
  <2>1. skipped[p] = {} /\ threw[p] = 0 /\ rest[p] = <<>>
    BY <1>1 DEF ChannelInit
  <2>2. Most \in Nat
    BY OutboxAssumption DEF Most
  <2> QED BY <2>1, <2>2, FS_EmptySet DEF Lost
<1> QED BY <1>1 DEF Losses

LEMMA OneThrowMore ==
  ASSUME NEW a \in Nat, NEW b \in Nat, NEW t \in Nat, NEW n \in Nat, a <= t * n, b <= n
  PROVE  a + b <= (t + 1) * n
<1>1. (t + 1) * n = t * n + n /\ t * n \in Nat
  OBVIOUS
<1> QED BY <1>1

LEMMA ThrowLoses ==
  ASSUME Typed, NEW p \in Players, Lost(p), NEW items \in Seq(Items), NEW k \in Nat, NEW others,
         Len(items) - k <= Most, Throw(p, items, k, others)
  PROVE  Lost(p)' /\ \A u \in Players : u # p => skipped'[u] = skipped[u] /\ threw'[u] = threw[u]
<1> DEFINE first == Len(read[p]) + k + 1  last == Len(read[p]) + Len(items)  lost == first .. last
<1>0. /\ skipped \in [Players -> SUBSET Nat] /\ threw \in [Players -> Nat]
      /\ read[p] \in Seq(Items) /\ Most \in Nat
  BY TypedIs, OutboxAssumption DEF Typed, Most
<1>1. Len(read[p]) \in Nat /\ Len(items) \in Nat
  BY <1>0, LenProperties
<1>2. /\ skipped'[p] = skipped[p] \cup lost /\ threw'[p] = threw[p] + 1 /\ k < Len(items)
      /\ \A u \in Players : u # p => skipped'[u] = skipped[u] /\ threw'[u] = threw[u]
  BY <1>0 DEF Throw
<1>3. first \in Int /\ last \in Int /\ last - first + 1 <= Most /\ last - first + 1 \in Nat
  BY <1>1, <1>2
<1> HIDE DEF first, last
<1>4. IsFiniteSet(lost) /\ Cardinality(lost) \in Nat /\ Cardinality(lost) <= Most
  <2>1. /\ IsFiniteSet(first .. last)
        /\ Cardinality(first .. last) = IF first > last THEN 0 ELSE last - first + 1
    BY <1>3, FS_Interval
  <2>2. IsFiniteSet(lost) /\ Cardinality(lost) = IF first > last THEN 0 ELSE last - first + 1
    BY <2>1
  <2> HIDE DEF lost
  <2>3. Cardinality(lost) \in Nat /\ Cardinality(lost) <= Most
    BY <1>0, <1>3, <2>2
  <2> QED BY <2>2, <2>3
<1>5. IsFiniteSet(skipped[p]) /\ Cardinality(skipped[p]) <= threw[p] * Most
  BY DEF Lost
<1> HIDE DEF lost
<1>6. /\ IsFiniteSet(skipped[p] \cup lost)
      /\ Cardinality(skipped[p] \cup lost)
           = Cardinality(skipped[p]) + Cardinality(lost) - Cardinality(skipped[p] \cap lost)
  BY <1>4, <1>5, FS_Union
<1>7. Cardinality(skipped[p]) \in Nat /\ Cardinality(skipped[p] \cap lost) \in Nat
  BY <1>4, <1>5, FS_CardinalityType, FS_Intersection
<1>8. Cardinality(skipped[p]) + Cardinality(lost) <= (threw[p] + 1) * Most
  BY <1>0, <1>4, <1>5, <1>7, OneThrowMore
<1>9. Cardinality(skipped[p] \cup lost) <= Cardinality(skipped[p]) + Cardinality(lost)
  BY <1>4, <1>6, <1>7
<1>10. Cardinality(skipped[p] \cup lost) \in Nat /\ (threw[p] + 1) * Most \in Nat
  BY <1>0, <1>6, FS_CardinalityType
<1>11. Cardinality(skipped[p] \cup lost) <= (threw[p] + 1) * Most
  <2> DEFINE a == Cardinality(skipped[p] \cup lost)  b == Cardinality(skipped[p]) + Cardinality(lost)
             c == (threw[p] + 1) * Most
  <2>1. a \in Nat /\ b \in Nat /\ c \in Nat /\ a <= b /\ b <= c
    BY <1>4, <1>7, <1>8, <1>9, <1>10
  <2> HIDE DEF a, b, c
  <2>2. a <= c
    BY <2>1
  <2> QED BY <2>2 DEF a, c
<1> QED BY <1>2, <1>6, <1>11 DEF Lost, Most

LEMMA TakenShort ==
  ASSUME Typed, NEW p \in Players, NEW items \in Seq(Items), NEW others \in Seq(Seq(Items)),
         \A i \in DOMAIN others : Len(others[i]) <= Most, Len(items) <= MaxFrameItems,
         Taken(p, items, others)
  PROVE  /\ \A i \in DOMAIN rest'[p] : Len(rest'[p][i]) <= Most
         /\ \A u \in Players : u # p => rest'[u] = rest[u]
<1>0. rest \in [Players -> Seq(Seq(Items))] /\ Most \in Nat /\ MaxFrameItems \in Nat
  BY TypedIs, OutboxAssumption DEF Typed, Most
<1>1. CASE Take(p, items, Len(items), others)
  BY <1>0, <1>1 DEF Take
<1>2. ASSUME NEW k \in 1 .. Len(items), Take(p, items, k, others), k # Len(items)
      PROVE  /\ \A i \in DOMAIN rest'[p] : Len(rest'[p][i]) <= Most
             /\ \A u \in Players : u # p => rest'[u] = rest[u]
  <2> DEFINE t == SubSeq(items, k + 1, Len(items))  Q == Seq(Items)
  <2>1. t \in Q /\ Len(t) = Len(items) - k
    OBVIOUS
  <2>2. Len(t) <= Most
    BY <1>0, <2>1 DEF Most
  <2>3. rest'[p] = Append(others, t) /\ \A u \in Players : u # p => rest'[u] = rest[u]
    BY <1>0, <1>2 DEF Take
  <2>4. others \in Seq(Q)
    OBVIOUS
  <2> HIDE DEF t, Q
  <2>5. \A i \in DOMAIN Append(others, t) : Append(others, t)[i] = t \/ (i \in DOMAIN others /\ Append(others, t)[i] = others[i])
    BY <2>1, <2>4
  <2> QED BY <2>2, <2>3, <2>5
<1> QED BY <1>1, <1>2 DEF Taken

LEMMA LossesStep ==
  ASSUME Typed, Losses, [ChannelNext]_channelVars
  PROVE  Losses'
<1>0. /\ ChannelTypeOK /\ wire \in [Players -> Seq(SentFrames)] /\ rest \in [Players -> Seq(Seq(Items))]
      /\ Most \in Nat /\ MaxFrameItems \in Nat /\ MaxFrameItems = Most + 1
  BY TypedIs, OutboxAssumption DEF Typed, Most
<1>1. Produce \/ Idle \/ Consume
  BY <1>0, NextIs
<1>2. CASE Produce \/ Idle \/ Flush
  <2>1. UNCHANGED <<rest, skipped, threw>>
    BY <1>2 DEF Produce, Idle, Flush, reading
  <2> QED BY <2>1 DEF Losses, Lost, Most
<1>3. ASSUME NEW p \in Players, Leave(p) PROVE Losses'
  <2>1. UNCHANGED <<skipped, threw>> /\ rest' = [rest EXCEPT ![p] = <<>>]
    BY <1>3 DEF Leave
  <2>2. \A u \in Players : rest'[u] = rest[u] \/ rest'[u] = <<>>
    BY <1>0, <2>1
  <2>3. ASSUME NEW u \in Players PROVE (Lost(u) /\ \A i \in DOMAIN rest[u] : Len(rest[u][i]) <= Most)'
    BY <2>1, <2>2 DEF Losses, Lost, Most
  <2> QED BY <2>3 DEF Losses
<1>4. ASSUME NEW p \in Players, NEW items \in Seq(Items), NEW others \in Seq(Seq(Items)),
             \A i \in DOMAIN others : Len(others[i]) <= Most, Len(items) <= MaxFrameItems,
             \/ Handle(p, items, others)
             \/ \E k \in Nat : Len(items) - k <= Most /\ Throw(p, items, k, others)
      PROVE  Losses'
  <2>1. Taken(p, items, others)
    BY <1>4, HandleTakes, ThrowTakes
  <2>2. /\ \A i \in DOMAIN rest'[p] : Len(rest'[p][i]) <= Most
        /\ \A u \in Players : u # p => rest'[u] = rest[u]
    BY <1>4, <2>1, TakenShort
  <2>3. Lost(p) /\ \A u \in Players : Lost(u) /\ \A i \in DOMAIN rest[u] : Len(rest[u][i]) <= Most
    BY DEF Losses
  <2>4. Lost(p)' /\ \A u \in Players : u # p => skipped'[u] = skipped[u] /\ threw'[u] = threw[u]
    <3>1. CASE Handle(p, items, others)
      BY <2>3, <3>1, HandleTakes DEF Lost, Most
    <3>2. ASSUME NEW k \in Nat, Len(items) - k <= Most, Throw(p, items, k, others)
          PROVE  Lost(p)' /\ \A u \in Players : u # p => skipped'[u] = skipped[u] /\ threw'[u] = threw[u]
      BY <2>3, <3>2, ThrowLoses
    <3> QED BY <1>4, <3>1, <3>2
  <2>5. ASSUME NEW u \in Players PROVE (Lost(u) /\ \A i \in DOMAIN rest[u] : Len(rest[u][i]) <= Most)'
    BY <2>2, <2>3, <2>4 DEF Lost, Most
  <2> QED BY <2>5 DEF Losses
<1>5. ASSUME NEW p \in Players, Receive(p) PROVE Losses'
  <2> DEFINE items == ItemsOf(Head(wire[p]))
  <2>1. items \in Seq(Items) /\ Len(items) <= MaxFrameItems /\ items # <<>>
    <3>1. wire[p] \in Seq(SentFrames) /\ wire[p] # <<>>
      BY <1>0, <1>5 DEF Receive
    <3>2. Head(wire[p]) \in SentFrames
      BY <3>1
    <3>3. Head(wire[p]).items \in Seq(Items) /\ Len(Head(wire[p]).items) \in 1 .. MaxFrameItems
      BY <3>2 DEF SentFrames, AnyFrames
    <3> QED BY <1>0, <3>3 DEF ItemsOf
  <2>2. Handle(p, items, rest[p]) \/ \E k \in 1 .. Len(items) : Throw(p, items, k, rest[p])
    BY <1>5, <2>1 DEF Receive
  <2> HIDE DEF items
  <2>3. \A k \in 1 .. Len(items) : k \in Nat /\ Len(items) - k <= Most
    BY <1>0, <2>1
  <2>4. rest[p] \in Seq(Seq(Items)) /\ \A i \in DOMAIN rest[p] : Len(rest[p][i]) <= Most
    BY <1>0 DEF Losses
  <2> QED BY <1>4, <2>1, <2>2, <2>3, <2>4
<1>6. ASSUME NEW p \in Players, HandlerEnds(p) PROVE Losses'
  <2>1. PICK i \in DOMAIN rest[p] :
          \/ Handle(p, rest[p][i], RemoveAt(rest[p], i))
          \/ \E k \in 0 .. Len(rest[p][i]) : Throw(p, rest[p][i], k, RemoveAt(rest[p], i))
    BY <1>6 DEF HandlerEnds
  <2> DEFINE items == rest[p][i]  others == RemoveAt(rest[p], i)  Q == Seq(Items)
  <2>2. /\ items \in Q /\ others \in Seq(Q)
        /\ \A j \in DOMAIN others : \E l \in DOMAIN rest[p] : others[j] = rest[p][l]
    <3> DEFINE s == rest[p]
    <3> HIDE DEF Q
    <3>1. s \in Seq(Q)
      BY <1>0 DEF Q
    <3> HIDE DEF s
    <3>2. i \in 1 .. Len(s)
      BY <2>1, <3>1 DEF s
    <3>3. SubSeq(s, 1, i - 1) \in Seq(Q) /\ SubSeq(s, i + 1, Len(s)) \in Seq(Q) /\ s[i] \in Q
      BY <3>1, <3>2
    <3>4. /\ Len(SubSeq(s, 1, i - 1)) = i - 1 /\ Len(SubSeq(s, i + 1, Len(s))) = Len(s) - i
          /\ \A j \in 1 .. i - 1 : SubSeq(s, 1, i - 1)[j] = s[j]
          /\ \A j \in 1 .. Len(s) - i : SubSeq(s, i + 1, Len(s))[j] = s[i + j]
      BY <3>1, <3>2
    <3> DEFINE a == SubSeq(s, 1, i - 1)  b == SubSeq(s, i + 1, Len(s))
    <3>5. others = a \o b
      BY DEF RemoveAt, s
    <3>6. /\ Len(a) = i - 1 /\ \A j \in 1 .. Len(a) : a[j] = s[j]
          /\ Len(b) = Len(s) - i /\ \A j \in 1 .. Len(b) : b[j] = s[i + j]
      BY <3>4
    <3> HIDE DEF a, b, others
    <3>7. \A j \in 1 .. Len(a) : j \in DOMAIN s
      BY <3>1, <3>2, <3>6
    <3>8. \A j \in 1 .. Len(b) : i + j \in DOMAIN s
      BY <3>1, <3>2, <3>6
    <3>9. a \in Seq(Q) /\ b \in Seq(Q)
      BY <3>3 DEF a, b
    <3>10. a \o b \in Seq(Q) /\ \A j \in DOMAIN (a \o b) :
            \/ j \in 1 .. Len(a) /\ (a \o b)[j] = a[j]
            \/ j - Len(a) \in 1 .. Len(b) /\ (a \o b)[j] = b[j - Len(a)]
      BY <3>9
    <3>11. \A j \in DOMAIN others : \E l \in DOMAIN s : others[j] = s[l]
      BY <3>5, <3>6, <3>10, <3>7, <3>8
    <3> QED BY <3>3, <3>5, <3>10, <3>11 DEF s
  <2>3. Len(items) <= Most /\ \A j \in DOMAIN others : Len(others[j]) <= Most
    <3>1. \A l \in DOMAIN rest[p] : Len(rest[p][l]) <= Most
      BY DEF Losses
    <3> HIDE DEF others
    <3> QED BY <2>1, <2>2, <3>1
  <2>4. Handle(p, items, others) \/ \E k \in 0 .. Len(items) : Throw(p, items, k, others)
    BY <2>1
  <2> HIDE DEF items, others
  <2>5. Len(items) <= MaxFrameItems /\ \A k \in 0 .. Len(items) : k \in Nat /\ Len(items) - k <= Most
    BY <1>0, <2>2, <2>3
  <2> QED BY <1>4, <2>2, <2>3, <2>4, <2>5
<1> QED BY <1>1, <1>2, <1>3, <1>5, <1>6 DEF Consume

LEMMA OrderIsRead ==
  ASSUME Typed, Order, Losses
  PROVE  ReadInOrder
<1> SUFFICES ASSUME NEW p \in Players \ gone
             PROVE  LET all == read[p] \o Coming(p) IN
                    /\ SameItems(Plain(all), Plain(owed[p])) /\ Held(all) = Held(owed[p])
                    /\ ~yields =>
                         /\ Plain(all) = Plain(owed[p])
                         /\ \A i, j \in DOMAIN States(all) : i < j => States(all)[i].n < States(all)[j].n
  BY DEF ReadInOrder, Losses, Lost, Most
<1> DEFINE all == read[p] \o Coming(p)
<1>1. all = Whole(read[p], FlattenSeq(rest[p]), Flat(wire[p]), Mine(p, queue))
  BY DEF Whole, Coming, InQueue, Mine, ItemsIn, Waiting
<1>2. Agrees(all, owed[p], ~yields, made)
  BY <1>1 DEF Order
<1> HIDE DEF all
<1>3. /\ SameItems(Plain(all), Plain(owed[p])) /\ Held(all) = Held(owed[p])
      /\ ~yields =>
           /\ Plain(all) = Plain(owed[p])
           /\ \A i, j \in DOMAIN States(all) : i < j => States(all)[i].n < States(all)[j].n
  BY <1>2 DEF Agrees, Sorted, SameItems
<1> QED BY <1>3 DEF all

(* However fires are grouped and frames split (wire.ts:282-335), a player  *)
(* who stays takes what was produced for it out of its frames, nothing     *)
(* missing, nothing twice, and in the order it was produced as long as no  *)
(* handler yields; and of that no handler is given at most the rest of a   *)
(* frame with every handler that throws (wire.ts:492-507).                 *)
THEOREM ReadInOrderHolds == ChannelSpec => []ReadInOrder
<1> DEFINE Sound == Typed /\ Order /\ Losses
<1>1. ChannelInit => Sound
  BY TypedInit, OrderInit, LossesInit
<1>2. Sound /\ [ChannelNext]_channelVars => Sound'
  BY TypedStep, OrderStep, LossesStep
<1>3. Sound => ReadInOrder
  BY OrderIsRead
<1> QED BY <1>1, <1>2, <1>3, PTL DEF ChannelSpec
=============================================================================
