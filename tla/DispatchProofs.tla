--------------------------- MODULE DispatchProofs ---------------------------
(***************************************************************************)
(* What stands before an action's handler, for any players, callers, calls,*)
(* keys, limits, windows and bounds.  The limiter (RateLimit) gives every  *)
(* caller exactly the budget of RateBudget.  Of the calls (ActionCalls), a *)
(* key's handler runs once while its entry is kept, a call that may not    *)
(* run twice does not, and the in-flight count never drifts.               *)
(***************************************************************************)
EXTENDS ActionCalls, RateLimit, SequenceTheorems, FiniteSetTheorems, TLAPS

-----------------------------------------------------------------------------
(* The limiter: arithmetic.                                                *)

LEMMA TimesAtLeast ==
  ASSUME NEW w \in Nat \ {0}, NEW d \in Nat \ {0}
  PROVE  d * w >= w
OBVIOUS

LEMMA WindowStart ==
  ASSUME NEW w \in Nat \ {0}, NEW t \in Nat
  PROVE  /\ t \div w \in Nat
         /\ (t \div w) * w \in Nat
         /\ (t \div w) * w <= t
         /\ t < (t \div w) * w + w
OBVIOUS

(* The next tick is in the same window or starts the next one.             *)
LEMMA NextWindow ==
  ASSUME NEW w \in Nat \ {0}, NEW t \in Nat
  PROVE  /\ (t + 1) % w = 0 => ((t + 1) \div w) * w = t + 1
         /\ (t + 1) % w # 0 => (t + 1) \div w = t \div w
OBVIOUS

LEMMA OneMoreTick ==
  ASSUME NEW m \in Nat, NEW e \in Nat
  PROVE  (e + 1) * m = e * m + m /\ e * m \in Nat
OBVIOUS

-----------------------------------------------------------------------------
(* The inductive invariant: no entry is of the future.                     *)

EntryOk(b) == bucket[b] = NoBucket \/ (bucket[b] \in Entries /\ bucket[b].at <= now)
LimiterInv == LimiterTypeOK /\ \A b \in Buckets : EntryOk(b)

LEMMA BucketType ==
  ASSUME NEW b \in Buckets
  PROVE  /\ Max[b] \in Nat \ {0} /\ Window[b] \in Nat \ {0} /\ Capacity(b) \in Nat
         /\ Strategy[b] \in {"fixedWindow", "tokenBucket"}
<1>1. Max[b] \in Nat \ {0} /\ Window[b] \in Nat \ {0}
  BY RateAssumption
<1>2. Max[b] * Window[b] \in Nat
  BY <1>1, OneMoreTick
<1> QED BY <1>1, <1>2, RateAssumption DEF Capacity

LEMMA MissingType ==
  ASSUME NEW b \in Buckets, NEW used \in Nat, NEW e \in Nat
  PROVE  MissingAfter(b, used, e) \in Nat
<1>1. e * Max[b] \in Nat
  BY BucketType, OneMoreTick
<1> QED BY <1>1 DEF MissingAfter

LEMMA SpentType ==
  ASSUME LimiterInv, NEW b \in Buckets
  PROVE  Spent(b, bucket[b], now) \in Nat
<1>1. CASE bucket[b] = NoBucket
  BY <1>1 DEF Spent, NoBucket
<1>2. CASE bucket[b] \in Entries /\ bucket[b].at <= now
  <2>1. now - bucket[b].at \in Nat /\ bucket[b].used \in Nat
    BY <1>2 DEF LimiterInv, LimiterTypeOK, Entries
  <2> QED BY <2>1, MissingType DEF Spent
<1> QED BY <1>1, <1>2 DEF LimiterInv, EntryOk

(* What an idle entry is purged for: it is spent nothing of.               *)
LEMMA IdleSpent ==
  ASSUME LimiterInv, NEW b \in Buckets, bucket[b].at # Never, Idle(b, bucket[b], now)
  PROVE  Spent(b, bucket[b], now) = 0
<1>1. bucket[b] \in Entries /\ bucket[b].at <= now /\ now \in Nat
  BY DEF LimiterInv, EntryOk, NoBucket, LimiterTypeOK
<1>2. bucket[b].at \in Nat /\ bucket[b].used \in Nat
  BY <1>1 DEF Entries
<1>3. CASE Strategy[b] = "tokenBucket"
  <2>1. bucket[b].used <= (now - bucket[b].at) * Max[b]
    BY <1>3 DEF Idle
  <2>2. MissingAfter(b, bucket[b].used, now - bucket[b].at) = 0
    BY <2>1 DEF MissingAfter
  <2> QED BY <1>3, <2>2 DEF Spent
<1>4. CASE Strategy[b] # "tokenBucket"
  <2>1. bucket[b].at + Window[b] <= now
    BY <1>4 DEF Idle
  <2>2. now < Start(b, now) + Window[b] /\ Start(b, now) \in Nat
    BY <1>1, BucketType, WindowStart DEF Start
  <2> DEFINE w == Window[b]
             start == Start(b, now)
             at == bucket[b].at
  <2>3. w \in Nat /\ now \in Nat /\ at \in Nat /\ start \in Nat /\ at + w <= now /\ now < start + w
    BY <1>1, <1>2, <2>1, <2>2, BucketType
  <2> HIDE DEF w, start, at
  <2>4. at # start
    BY <2>3
  <2> USE DEF start, at
  <2> QED BY <1>4, <2>4 DEF Spent
<1> QED BY <1>3, <1>4

(* A purge changes nobody's budget.                                        *)
LEMMA PurgeIsInvisible ==
  ASSUME LimiterInv, NEW b \in Buckets
  PROVE  /\ Purged[b] = NoBucket \/ Purged[b] = bucket[b]
         /\ Spent(b, Purged[b], now) = Spent(b, bucket[b], now)
<1>1. CASE bucket[b].at # Never /\ Idle(b, bucket[b], now)
  <2>1. Purged[b] = NoBucket
    BY <1>1 DEF Purged
  <2>2. Spent(b, NoBucket, now) = 0
    BY DEF Spent, NoBucket
  <2>3. Spent(b, bucket[b], now) = 0
    BY <1>1, IdleSpent
  <2> QED BY <2>1, <2>2, <2>3
<1>2. CASE ~(bucket[b].at # Never /\ Idle(b, bucket[b], now))
  BY <1>2 DEF Purged
<1> QED BY <1>1, <1>2

(* The entry of a check stands for what was spent, and the call.           *)
LEMMA CheckedSpent ==
  ASSUME NEW b \in Buckets, NEW entry, NEW t \in Nat, Spent(b, entry, t) \in Nat
  PROVE  /\ Checked(b, entry, t) \in Entries /\ Checked(b, entry, t).at <= t
         /\ Spent(b, Checked(b, entry, t), t) =
              Spent(b, entry, t) + (IF Room(b, entry, t) THEN Window[b] ELSE 0)
<1> DEFINE used == Spent(b, entry, t) + (IF Room(b, entry, t) THEN Window[b] ELSE 0)
           at == IF Strategy[b] = "tokenBucket" THEN t ELSE Start(b, t)
<1>1. Start(b, t) \in Nat /\ Start(b, t) <= t
  BY BucketType, WindowStart DEF Start
<1>2. Checked(b, entry, t) = [used |-> used, at |-> at]
  BY DEF Checked
<1>3. used \in Nat
  BY BucketType
<1>4. at \in Nat /\ at <= t /\ at # Never
  BY <1>1, RateAssumption
<1>5. MissingAfter(b, used, 0) = used
  <2>1. 0 * Max[b] = 0
    BY BucketType
  <2> HIDE DEF used
  <2> QED BY <1>3, <2>1 DEF MissingAfter
<1>6. Spent(b, [used |-> used, at |-> at], t) = used
  <2>1. CASE Strategy[b] = "tokenBucket"
    <3>1. at = t /\ t - at = 0
      BY <2>1
    <3> HIDE DEF used, at
    <3> QED BY <1>4, <1>5, <2>1, <3>1 DEF Spent
  <2>2. CASE Strategy[b] # "tokenBucket"
    <3>1. at = Start(b, t)
      BY <2>2
    <3> HIDE DEF used, at
    <3> QED BY <1>4, <2>2, <3>1 DEF Spent
  <2> QED BY <2>1, <2>2
<1> HIDE DEF at
<1> QED BY <1>2, <1>3, <1>4, <1>6 DEF Entries

LEMMA TokensSpent ==
  ASSUME NEW b \in Buckets, NEW entry \in Entries, NEW t \in Nat, Strategy[b] = "tokenBucket"
  PROVE  Spent(b, entry, t) = MissingAfter(b, entry.used, t - entry.at)
<1>1. entry.at # Never
  BY RateAssumption DEF Entries
<1> QED BY <1>1 DEF Spent

(* One tick gives back what RateBudget says.                               *)
LEMMA TickRefills ==
  ASSUME LimiterInv, NEW b \in Buckets
  PROVE  Capacity(b) - Spent(b, bucket[b], now + 1) =
           IF Strategy[b] = "tokenBucket"
           THEN AtMost(Capacity(b), Capacity(b) - Spent(b, bucket[b], now) + Max[b])
           ELSE IF (now + 1) % Window[b] = 0 THEN Capacity(b)
           ELSE Capacity(b) - Spent(b, bucket[b], now)
<1>1. now \in Nat
  BY DEF LimiterInv, LimiterTypeOK
<1>2. CASE bucket[b] = NoBucket
  BY <1>2, BucketType DEF Spent, NoBucket, AtMost
<1>3. CASE bucket[b] \in Entries /\ bucket[b].at <= now
  <2> DEFINE used == bucket[b].used
             at == bucket[b].at
             back == (now - at) * Max[b]
  <2>1. used \in Nat /\ at \in Nat /\ at <= now /\ at # Never
    BY <1>3, RateAssumption DEF Entries
  <2>2. CASE Strategy[b] = "tokenBucket"
    <3>1. ((now + 1) - at) * Max[b] = back + Max[b] /\ back \in Nat
      <4>1. now - at \in Nat /\ (now + 1) - at = (now - at) + 1
        BY <1>1, <2>1
      <4> QED BY <4>1, BucketType, OneMoreTick
    <3>2. Spent(b, bucket[b], now) = IF back >= used THEN 0 ELSE used - back
      BY <2>1, <2>2 DEF Spent, MissingAfter
    <3>3. Spent(b, bucket[b], now + 1) = IF back + Max[b] >= used THEN 0 ELSE used - (back + Max[b])
      <4>1. Spent(b, bucket[b], now + 1) = MissingAfter(b, used, (now + 1) - at)
        BY <1>1, <1>3, <2>2, TokensSpent
      <4>2. MissingAfter(b, used, (now + 1) - at) =
              IF ((now + 1) - at) * Max[b] >= used THEN 0 ELSE used - ((now + 1) - at) * Max[b]
        BY DEF MissingAfter
      <4> HIDE DEF used, at
      <4> QED BY <3>1, <4>1, <4>2
    <3> HIDE DEF used, back
    <3>4. Capacity(b) \in Nat /\ Max[b] \in Nat
      BY BucketType
    <3>5. CASE back >= used
      BY <2>1, <2>2, <3>1, <3>2, <3>3, <3>4, <3>5 DEF AtMost
    <3>6. CASE back < used
      <4>1. Spent(b, bucket[b], now) = used - back
        BY <2>1, <3>1, <3>2, <3>6
      <4>2. CASE back + Max[b] >= used
        <5>1. Spent(b, bucket[b], now + 1) = 0
          BY <3>3, <4>2
        <5>2. Capacity(b) <= Capacity(b) - (used - back) + Max[b]
          BY <2>1, <3>1, <3>4, <4>2
        <5> QED BY <2>2, <3>4, <4>1, <5>1, <5>2 DEF AtMost
      <4>3. CASE back + Max[b] < used
        <5>1. Spent(b, bucket[b], now + 1) = used - (back + Max[b])
          BY <2>1, <3>1, <3>3, <3>4, <4>3
        <5>2. ~(Capacity(b) <= Capacity(b) - (used - back) + Max[b])
          BY <2>1, <3>1, <3>4, <4>3
        <5> QED BY <2>1, <2>2, <3>1, <3>4, <4>1, <5>1, <5>2 DEF AtMost
      <4> QED BY <2>1, <3>1, <3>4, <4>2, <4>3
    <3> QED BY <2>1, <3>1, <3>5, <3>6
  <2>3. CASE Strategy[b] # "tokenBucket"
    <3>1. CASE (now + 1) % Window[b] = 0
      <4>1. Start(b, now + 1) = now + 1
        BY <1>1, <3>1, BucketType, NextWindow DEF Start
      <4>2. Spent(b, bucket[b], now + 1) = 0
        BY <1>1, <2>1, <2>3, <4>1 DEF Spent
      <4> QED BY <2>3, <3>1, <4>2, BucketType
    <3>2. CASE (now + 1) % Window[b] # 0
      <4>1. Start(b, now + 1) = Start(b, now)
        BY <1>1, <3>2, BucketType, NextWindow DEF Start
      <4>2. Spent(b, bucket[b], now + 1) = Spent(b, bucket[b], now)
        BY <2>1, <2>3, <4>1 DEF Spent
      <4> QED BY <2>3, <3>2, <4>2
    <3> QED BY <3>1, <3>2
  <2> QED BY <2>2, <2>3
<1> QED BY <1>2, <1>3 DEF LimiterInv, EntryOk

-----------------------------------------------------------------------------
(* The invariant holds.                                                    *)

LEMMA InitLimiterInv == LimiterInit => LimiterInv
BY DEF LimiterInit, LimiterInv, LimiterTypeOK, EntryOk

(* The map a check sees, purged or not.                                    *)
KeptMap(b) == IF PurgeDue(b) THEN Purged ELSE bucket

LEMMA KeptSpent ==
  ASSUME LimiterInv, NEW b \in Buckets, NEW c \in Buckets
  PROVE  /\ KeptMap(b) \in [Buckets -> Entries \cup {NoBucket}]
         /\ KeptMap(b)[c] = NoBucket \/ KeptMap(b)[c] = bucket[c]
         /\ Spent(c, KeptMap(b)[c], now) = Spent(c, bucket[c], now)
         /\ Spent(c, bucket[c], now) \in Nat
<1>1. bucket \in [Buckets -> Entries \cup {NoBucket}]
  BY DEF LimiterInv, LimiterTypeOK
<1>2. Purged \in [Buckets -> Entries \cup {NoBucket}]
  BY <1>1 DEF Purged
<1> QED BY <1>1, <1>2, PurgeIsInvisible, SpentType DEF KeptMap

LEMMA CheckAt ==
  ASSUME LimiterInv, NEW b \in Buckets, Check(b)
  PROVE  /\ bucket' = [KeptMap(b) EXCEPT ![b] = Checked(b, @, now)]
         /\ lastPurge' = (IF PurgeDue(b) THEN now ELSE lastPurge) /\ now' = now
         /\ Room(b, KeptMap(b)[b], now) <=> Room(b, bucket[b], now)
         /\ IF Room(b, bucket[b], now)
            THEN admitted' = [admitted EXCEPT ![b] = Append(@, now)] /\ UNCHANGED refused
            ELSE refused' = [refused EXCEPT ![b] = now] /\ UNCHANGED admitted
<1>1. Spent(b, KeptMap(b)[b], now) = Spent(b, bucket[b], now)
  BY KeptSpent
<1>2. Room(b, KeptMap(b)[b], now) <=> Room(b, bucket[b], now)
  BY <1>1 DEF Room
<1> QED BY <1>2 DEF Check, KeptMap

LEMMA NextLimiterInv == LimiterInv /\ [LimiterNext]_limiterVars => LimiterInv'
<1> SUFFICES ASSUME LimiterInv, [LimiterNext]_limiterVars PROVE LimiterInv'
  OBVIOUS
<1>1. CASE Tick
  BY <1>1 DEF Tick, LimiterInv, LimiterTypeOK, EntryOk, Entries
<1>2. CASE Purge
  <2>1. Purged \in [Buckets -> Entries \cup {NoBucket}]
    BY DEF Purged, LimiterInv, LimiterTypeOK
  <2>2. \A b \in Buckets : EntryOk(b)'
    BY <1>2, PurgeIsInvisible DEF Purge, LimiterInv, EntryOk
  <2> QED BY <1>2, <2>1, <2>2 DEF Purge, LimiterInv, LimiterTypeOK
<1>3. ASSUME NEW b \in Buckets, Check(b)
      PROVE  LimiterInv'
  <2> DEFINE kept == KeptMap(b)
  <2>1. /\ kept \in [Buckets -> Entries \cup {NoBucket}]
        /\ \A c \in Buckets : kept[c] = NoBucket \/ kept[c] = bucket[c]
        /\ Spent(b, kept[b], now) \in Nat /\ now \in Nat
    BY KeptSpent DEF LimiterInv, LimiterTypeOK
  <2>2. Checked(b, kept[b], now) \in Entries /\ Checked(b, kept[b], now).at <= now
    BY <2>1, CheckedSpent
  <2>3. bucket' = [kept EXCEPT ![b] = Checked(b, kept[b], now)] /\ now' = now
    BY <1>3, <2>1, CheckAt
  <2> HIDE DEF kept
  <2>4. bucket' \in [Buckets -> Entries \cup {NoBucket}]
    BY <2>1, <2>2, <2>3
  <2>5. ASSUME NEW c \in Buckets PROVE EntryOk(c)'
    BY <2>1, <2>2, <2>3 DEF LimiterInv, EntryOk
  <2>6. /\ lastPurge' \in Nat \cup {Never}
        /\ admitted' \in [Buckets -> Seq(Nat)]
        /\ refused' \in [Buckets -> Nat \cup {Never}]
    <3>1. /\ now \in Nat /\ lastPurge \in Nat \cup {Never}
          /\ admitted \in [Buckets -> Seq(Nat)]
          /\ refused \in [Buckets -> Nat \cup {Never}]
      BY DEF LimiterInv, LimiterTypeOK
    <3>2. lastPurge' = now \/ lastPurge' = lastPurge
      BY <1>3, CheckAt
    <3>3. CASE Room(b, bucket[b], now)
      <4>1. admitted' = [admitted EXCEPT ![b] = Append(@, now)] /\ refused' = refused
        BY <1>3, <3>3, CheckAt
      <4>2. Append(admitted[b], now) \in Seq(Nat)
        BY <3>1
      <4> QED BY <3>1, <3>2, <4>1, <4>2
    <3>4. CASE ~Room(b, bucket[b], now)
      <4>1. refused' = [refused EXCEPT ![b] = now] /\ admitted' = admitted
        BY <1>3, <3>4, CheckAt
      <4> QED BY <3>1, <3>2, <4>1
    <3> QED BY <3>3, <3>4
  <2> QED BY <2>1, <2>3, <2>4, <2>5, <2>6 DEF LimiterInv, LimiterTypeOK
<1>4. CASE UNCHANGED limiterVars
  BY <1>4 DEF limiterVars, LimiterInv, LimiterTypeOK, EntryOk
<1> QED BY <1>1, <1>2, <1>3, <1>4 DEF LimiterNext

(* Every variable keeps its type.                                          *)
THEOREM LimiterTypeCorrect == LimiterSpec => []LimiterTypeOK
<1>1. LimiterInv => LimiterTypeOK
  BY DEF LimiterInv
<1> QED BY <1>1, InitLimiterInv, NextLimiterInv, PTL DEF LimiterSpec

-----------------------------------------------------------------------------
(* The refinement.                                                         *)

LEMMA SameNames ==
  /\ \A b : Budget!Capacity(b) = Capacity(b)
  /\ \A x, y : Budget!AtMost(x, y) = AtMost(x, y)
BY DEF Budget!Capacity, Capacity, Budget!AtMost, AtMost

LEMMA InitBudget == LimiterInit => Budget!Init
<1> SUFFICES ASSUME LimiterInit PROVE Budget!Init
  OBVIOUS
<1>1. \A b \in Buckets : Capacity(b) - Spent(b, bucket[b], now) = Capacity(b)
  BY BucketType DEF LimiterInit, Spent, NoBucket
<1> QED BY <1>1 DEF LimiterInit, Budget!Init, Budget!Capacity, Capacity

LEMMA TickBudget == LimiterInv /\ Tick => Budget!Tick
<1> SUFFICES ASSUME LimiterInv, Tick PROVE Budget!Tick
  OBVIOUS
<1>1. now' = now + 1 /\ UNCHANGED <<bucket, admitted, refused>>
  BY DEF Tick
<1>2. ASSUME NEW b \in Buckets
      PROVE  (Capacity(b) - Spent(b, bucket[b], now))' = Budget!Refilled(b)
  <2>1. (Capacity(b) - Spent(b, bucket[b], now))' = Capacity(b) - Spent(b, bucket[b], now + 1)
    BY <1>1 DEF Capacity, Spent, MissingAfter, Start
  <2>2. Budget!Refilled(b) =
          IF Strategy[b] = "tokenBucket"
          THEN AtMost(Capacity(b), Capacity(b) - Spent(b, bucket[b], now) + Max[b])
          ELSE IF (now + 1) % Window[b] = 0 THEN Capacity(b)
          ELSE Capacity(b) - Spent(b, bucket[b], now)
    BY SameNames DEF Budget!Refilled
  <2> QED BY <2>1, <2>2, TickRefills
<1>3. [b \in Buckets |-> Capacity(b) - Spent(b, bucket[b], now)]' = [b \in Buckets |-> Budget!Refilled(b)]
  BY <1>2
<1> QED BY <1>1, <1>3 DEF Budget!Tick

LEMMA PurgeBudget == LimiterInv /\ Purge => UNCHANGED Budget!vars
<1> SUFFICES ASSUME LimiterInv, Purge PROVE UNCHANGED Budget!vars
  OBVIOUS
<1>1. bucket' = Purged /\ UNCHANGED <<now, admitted, refused>>
  BY DEF Purge
<1>2. ASSUME NEW b \in Buckets
      PROVE  (Capacity(b) - Spent(b, bucket[b], now))' = Capacity(b) - Spent(b, bucket[b], now)
  <2>1. (Capacity(b) - Spent(b, bucket[b], now))' = Capacity(b) - Spent(b, Purged[b], now)
    BY <1>1 DEF Capacity, Spent, MissingAfter, Start
  <2> QED BY <2>1, PurgeIsInvisible
<1> QED BY <1>1, <1>2 DEF Budget!vars

LEMMA CheckBudget == \A b \in Buckets : LimiterInv /\ Check(b) => Budget!Admit(b) \/ Budget!Refuse(b)
<1> SUFFICES ASSUME NEW b \in Buckets, LimiterInv, Check(b) PROVE Budget!Admit(b) \/ Budget!Refuse(b)
  OBVIOUS
<1> DEFINE level == [c \in Buckets |-> Capacity(c) - Spent(c, bucket[c], now)]
           kept == KeptMap(b)
<1>1. /\ kept \in [Buckets -> Entries \cup {NoBucket}] /\ now \in Nat
      /\ \A c \in Buckets : Spent(c, kept[c], now) = Spent(c, bucket[c], now) /\ Spent(c, bucket[c], now) \in Nat
  BY KeptSpent DEF LimiterInv, LimiterTypeOK
<1>2. bucket' = [kept EXCEPT ![b] = Checked(b, kept[b], now)] /\ now' = now
  BY <1>1, CheckAt
<1>3. ASSUME NEW c \in Buckets, c # b
      PROVE  (Capacity(c) - Spent(c, bucket[c], now))' = Capacity(c) - Spent(c, bucket[c], now)
  <2>1. bucket'[c] = kept[c]
    BY <1>1, <1>2, <1>3
  <2>2. (Capacity(c) - Spent(c, bucket[c], now))' = Capacity(c) - Spent(c, kept[c], now)
    BY <1>2, <2>1 DEF Capacity, Spent, MissingAfter, Start
  <2> QED BY <1>1, <2>2
<1>4. (Capacity(b) - Spent(b, bucket[b], now))' =
        Capacity(b) - (Spent(b, bucket[b], now) + (IF Room(b, bucket[b], now) THEN Window[b] ELSE 0))
  <2>1. bucket'[b] = Checked(b, kept[b], now)
    BY <1>1, <1>2
  <2>2. (Capacity(b) - Spent(b, bucket[b], now))' = Capacity(b) - Spent(b, Checked(b, kept[b], now), now)
    BY <1>2, <2>1 DEF Capacity, Spent, MissingAfter, Start
  <2>3. Spent(b, Checked(b, kept[b], now), now) =
          Spent(b, kept[b], now) + (IF Room(b, kept[b], now) THEN Window[b] ELSE 0)
    BY <1>1, CheckedSpent
  <2>4. Room(b, kept[b], now) <=> Room(b, bucket[b], now)
    BY CheckAt
  <2> QED BY <1>1, <2>2, <2>3, <2>4
<1>5. Capacity(b) \in Nat /\ Window[b] \in Nat /\ Spent(b, bucket[b], now) \in Nat
  BY <1>1, BucketType
<1>6. CASE Room(b, bucket[b], now)
  <2>1. level' = [level EXCEPT ![b] = @ - Window[b]]
    <3>1. (Capacity(b) - Spent(b, bucket[b], now))' = Capacity(b) - Spent(b, bucket[b], now) - Window[b]
      BY <1>4, <1>5, <1>6
    <3> QED BY <1>3, <3>1
  <2>2. level[b] >= Window[b]
    BY <1>5, <1>6 DEF Room
  <2>3. admitted' = [admitted EXCEPT ![b] = Append(@, now)] /\ UNCHANGED <<now, refused>>
    BY <1>6, CheckAt
  <2> QED BY <2>1, <2>2, <2>3 DEF Budget!Admit
<1>7. CASE ~Room(b, bucket[b], now)
  <2>1. level' = level
    <3>1. (Capacity(b) - Spent(b, bucket[b], now))' = Capacity(b) - Spent(b, bucket[b], now)
      BY <1>4, <1>5, <1>7
    <3> QED BY <1>3, <3>1
  <2>2. level[b] < Window[b]
    BY <1>5, <1>7 DEF Room
  <2>3. refused' = [refused EXCEPT ![b] = now] /\ UNCHANGED <<now, admitted>>
    BY <1>7, CheckAt
  <2> QED BY <2>1, <2>2, <2>3 DEF Budget!Refuse
<1> QED BY <1>6, <1>7

(* Whatever the limiter stores lazily and purges on the way, its callers   *)
(* have the budget of RateBudget and no other (rate-limit.ts:40-158).      *)
THEOREM BudgetCorrect == LimiterSpec => BudgetSpec
<1>1. LimiterInv /\ [LimiterNext]_limiterVars => [Budget!Next]_(Budget!vars)
  <2> SUFFICES ASSUME LimiterInv, [LimiterNext]_limiterVars PROVE [Budget!Next]_(Budget!vars)
    OBVIOUS
  <2>1. CASE UNCHANGED limiterVars
    BY <2>1 DEF limiterVars, Budget!vars, Capacity, Spent, MissingAfter, Start
  <2> QED BY <2>1, TickBudget, PurgeBudget, CheckBudget DEF LimiterNext, Budget!Next
<1> QED BY <1>1, InitLimiterInv, NextLimiterInv, InitBudget, PTL DEF LimiterSpec, BudgetSpec, Budget!Spec

-----------------------------------------------------------------------------
(* Who conforms is admitted.                                               *)

LEMMA TimesMonotone ==
  ASSUME NEW w \in Nat, NEW m \in Nat, NEW n \in Nat
  PROVE  /\ w * n \in Nat /\ w * (n + 1) = w * n + w /\ w * 0 = 0
         /\ w \in Nat \ {0} /\ w * m < w * n + w => m <= n
<1>1. w * n \in Nat /\ w * (n + 1) = w * n + w /\ w * 0 = 0
  OBVIOUS
<1>2. ASSUME w \in Nat \ {0}, w * m < w * n + w PROVE m <= n
  <2>1. w * m < w * (n + 1)
    BY <1>1, <1>2
  <2>2. CASE m >= n + 1
    <3>1. PICK k \in Nat : m = n + 1 + k
      <4>1. m - (n + 1) \in Nat /\ m = n + 1 + (m - (n + 1)) BY <2>2
      <4> QED BY <4>1
    <3>2. w * m = w * (n + 1) + w * k
      BY <3>1
    <3>3. w * k \in Nat /\ w * (n + 1) \in Nat
      OBVIOUS
    <3> HIDE <3>1, <2>2
    <3> QED BY <2>1, <3>2, <3>3
  <2> QED BY <2>2
<1> QED BY <1>1, <1>2

(* The calls admitted after t.                                             *)
Recent(b, t) == {i \in DOMAIN admitted[b] : admitted[b][i] > t}

(* What is spent was paid for by recent calls: in a token bucket those of  *)
(* the last s ticks and what the rest of a window gives back, for any s.   *)
PaidBy(b) ==
  /\ Strategy[b] = "tokenBucket" =>
       \A s \in 0 .. Window[b] :
         Spent(b, bucket[b], now) <=
           Window[b] * Cardinality(Recent(b, now - s)) + Max[b] * (Window[b] - s)
  /\ Strategy[b] # "tokenBucket" =>
       Spent(b, bucket[b], now) <= Window[b] * Cardinality(Recent(b, Start(b, now) - 1))
NotAhead(b) ==
  /\ \A i \in DOMAIN admitted[b] : admitted[b][i] <= now
  /\ refused[b] # Never => refused[b] <= now
Conforming(b) ==
  refused[b] # Never =>
    Cardinality({i \in 1 .. Len(admitted[b]) :
                   refused[b] - Window[b] < admitted[b][i] /\ admitted[b][i] <= refused[b]}) >= Max[b]
PInv == LimiterInv /\ \A b \in Buckets : PaidBy(b) /\ NotAhead(b) /\ Conforming(b)

LEMMA AdmittedAre ==
  ASSUME LimiterInv, NEW b \in Buckets
  PROVE  /\ admitted[b] \in Seq(Nat) /\ DOMAIN admitted[b] = 1 .. Len(admitted[b])
         /\ Len(admitted[b]) \in Nat /\ now \in Nat
         /\ \A i \in DOMAIN admitted[b] : admitted[b][i] \in Nat
         /\ \A t : IsFiniteSet(Recent(b, t)) /\ Cardinality(Recent(b, t)) \in Nat
<1>1. admitted[b] \in Seq(Nat) /\ now \in Nat
  BY DEF LimiterInv, LimiterTypeOK
<1>2. /\ DOMAIN admitted[b] = 1 .. Len(admitted[b]) /\ Len(admitted[b]) \in Nat
      /\ \A i \in DOMAIN admitted[b] : admitted[b][i] \in Nat
  BY <1>1, LenProperties, ElementOfSeq
<1>3. IsFiniteSet(1 .. Len(admitted[b]))
  BY <1>2, FS_Interval
<1>4. \A t : IsFiniteSet(Recent(b, t))
  <2> TAKE t
  <2>1. Recent(b, t) \subseteq 1 .. Len(admitted[b])
    BY <1>2 DEF Recent
  <2> QED BY <1>3, <2>1, FS_Subset
<1> QED BY <1>1, <1>2, <1>4, FS_CardinalityType

(* What is spent when the tick is over.                                    *)
LEMMA TickSpent ==
  ASSUME LimiterInv, NEW b \in Buckets,
         Strategy[b] = "tokenBucket" => Spent(b, bucket[b], now) <= Capacity(b)
  PROVE  /\ Strategy[b] = "tokenBucket" =>
              Spent(b, bucket[b], now + 1) = 0
              \/ Spent(b, bucket[b], now + 1) = Spent(b, bucket[b], now) - Max[b]
         /\ Strategy[b] # "tokenBucket" =>
              IF (now + 1) % Window[b] = 0 THEN Spent(b, bucket[b], now + 1) = 0
              ELSE Spent(b, bucket[b], now + 1) = Spent(b, bucket[b], now)
<1> DEFINE spent == Spent(b, bucket[b], now)
           then == Spent(b, bucket[b], now + 1)
<1>1. spent \in Nat /\ Capacity(b) \in Nat /\ Max[b] \in Nat
  BY SpentType, BucketType
<1>2. then \in Int
  <2>1. now \in Nat BY DEF LimiterInv, LimiterTypeOK
  <2>2. CASE bucket[b] = NoBucket
    BY <2>2 DEF Spent, NoBucket
  <2>3. CASE bucket[b] \in Entries /\ bucket[b].at <= now
    <3>1. (now + 1) - bucket[b].at \in Nat /\ bucket[b].used \in Nat
      BY <2>1, <2>3 DEF Entries
    <3>2. MissingAfter(b, bucket[b].used, (now + 1) - bucket[b].at) \in Nat
      BY <3>1, MissingType
    <3> QED BY <3>1, <3>2 DEF Spent
  <2> QED BY <2>2, <2>3 DEF LimiterInv, EntryOk
<1>3. Capacity(b) - then =
        IF Strategy[b] = "tokenBucket" THEN AtMost(Capacity(b), Capacity(b) - spent + Max[b])
        ELSE IF (now + 1) % Window[b] = 0 THEN Capacity(b)
        ELSE Capacity(b) - spent
  BY TickRefills
<1> HIDE DEF spent, then
<1>4. CASE Strategy[b] = "tokenBucket"
  BY <1>1, <1>2, <1>3, <1>4 DEF AtMost, spent, then
<1>5. CASE Strategy[b] # "tokenBucket"
  BY <1>1, <1>2, <1>3, <1>5 DEF spent, then
<1> QED BY <1>4, <1>5

(* No more than the capacity is ever spent.                                *)
LEMMA PaidWithin ==
  ASSUME PInv, NEW b \in Buckets, Strategy[b] = "tokenBucket"
  PROVE  Spent(b, bucket[b], now) <= Capacity(b)
<1>1. Window[b] \in Nat /\ Max[b] \in Nat /\ now \in Nat /\ Spent(b, bucket[b], now) \in Nat
  BY BucketType, SpentType DEF PInv, LimiterInv, LimiterTypeOK
<1>2. Recent(b, now - 0) = {}
  <2>1. \A i \in DOMAIN admitted[b] : admitted[b][i] \in Nat /\ admitted[b][i] <= now
    BY AdmittedAre DEF PInv, NotAhead
  <2> QED BY <1>1, <2>1 DEF Recent
<1>3. Spent(b, bucket[b], now) <= Window[b] * Cardinality(Recent(b, now - 0)) + Max[b] * (Window[b] - 0)
  <2>1. 0 \in 0 .. Window[b] BY <1>1
  <2> QED BY <2>1 DEF PInv, PaidBy
<1>4. Window[b] * Cardinality(Recent(b, now - 0)) = 0 /\ Max[b] * (Window[b] - 0) = Capacity(b)
  <2>1. Cardinality(Recent(b, now - 0)) = 0 BY <1>2, FS_EmptySet
  <2>2. Window[b] - 0 = Window[b] BY <1>1
  <2>3. Window[b] * 0 = 0 BY <1>1
  <2> QED BY <2>1, <2>2, <2>3 DEF Capacity
<1>5. Capacity(b) \in Nat BY BucketType
<1> QED BY <1>1, <1>3, <1>4, <1>5

LEMMA TickPaid ==
  ASSUME PInv, Tick, NEW b \in Buckets
  PROVE  PaidBy(b)' /\ NotAhead(b)' /\ Conforming(b)'
<1> DEFINE spent == Spent(b, bucket[b], now)
           then == Spent(b, bucket[b], now + 1)
           w == Window[b]
           m == Max[b]
<1>0. LimiterInv /\ PaidBy(b) /\ NotAhead(b) /\ Conforming(b)
  BY DEF PInv
<1>1. now' = now + 1 /\ UNCHANGED <<bucket, admitted, refused>> /\ now \in Nat
  BY <1>0 DEF Tick, LimiterInv, LimiterTypeOK
<1>2. \A t : Recent(b, t)' = Recent(b, t)
  BY <1>1 DEF Recent
<1>3. Spent(b, bucket[b], now)' = then
  BY <1>1 DEF Spent, MissingAfter, Start
<1>4. w \in Nat \ {0} /\ m \in Nat \ {0} /\ spent \in Nat
  BY <1>0, BucketType, SpentType
<1>5. \A t : Cardinality(Recent(b, t)) \in Nat /\ w * Cardinality(Recent(b, t)) \in Nat
  BY <1>0, <1>4, AdmittedAre, TimesMonotone
<1>6. Conforming(b)' /\ NotAhead(b)'
  <2>1. Conforming(b)'
    BY <1>0, <1>1 DEF Conforming
  <2>2. \A i \in DOMAIN admitted[b] : admitted[b][i] \in Nat
    BY <1>0, AdmittedAre
  <2>3. refused[b] \in Nat \cup {Never}
    BY <1>0 DEF LimiterInv, LimiterTypeOK
  <2>4. NotAhead(b)'
    BY <1>0, <1>1, <2>2, <2>3 DEF NotAhead
  <2> QED BY <2>1, <2>4
<1>7. CASE Strategy[b] = "tokenBucket"
  <2>1. spent <= Capacity(b)
    BY <1>7, PaidWithin
  <2>2. then = 0 \/ then = spent - m
    BY <1>0, <1>7, <2>1, TickSpent
  <2>3. ASSUME NEW s \in 0 .. w
        PROVE  then <= w * Cardinality(Recent(b, (now + 1) - s)) + m * (w - s)
    <3> DEFINE n == w * Cardinality(Recent(b, (now + 1) - s))
    <3>1. n \in Nat /\ m * (w - s) \in Nat
      <4>1. w - s \in Nat BY <1>4
      <4>2. m * (w - s) \in Nat BY <1>4, <4>1, TimesMonotone
      <4> QED BY <1>5, <4>2
    <3>2. CASE then = 0
      BY <3>1, <3>2
    <3>3. CASE then = spent - m /\ s = 0
      <4>1. m * (w - s) = Capacity(b)
        <5>1. w - s = w BY <1>4, <3>3
        <5> QED BY <1>4, <5>1 DEF Capacity
      <4> DEFINE rest == m * (w - s)
      <4>2. rest = Capacity(b) /\ rest \in Nat /\ then = spent - m
        BY <3>1, <3>3, <4>1
      <4> HIDE DEF spent, then, n, m, w, rest
      <4>3. then <= n + rest
        BY <1>4, <2>1, <3>1, <4>2
      <4> QED BY <4>3 DEF n, rest
    <3>4. CASE then = spent - m /\ s # 0
      <4>1. s - 1 \in 0 .. w /\ now - (s - 1) = (now + 1) - s
        BY <1>1, <1>4, <3>4
      <4>2. spent <= w * Cardinality(Recent(b, now - (s - 1))) + m * (w - (s - 1))
        BY <1>0, <1>7, <4>1 DEF PaidBy
      <4>3. m * (w - (s - 1)) = m * (w - s) + m
        <5>1. w - s \in Nat /\ w - (s - 1) = (w - s) + 1 BY <1>4
        <5> QED BY <1>4, <5>1, TimesMonotone
      <4> DEFINE rest == m * (w - s)
      <4>4. n = w * Cardinality(Recent(b, now - (s - 1)))
        BY <4>1
      <4>5. then = spent - m /\ rest \in Nat /\ m * (w - (s - 1)) = rest + m
        BY <3>1, <3>4, <4>3
      <4> HIDE DEF spent, then, n, m, w, rest
      <4>6. spent <= n + (rest + m)
        BY <4>2, <4>4, <4>5
      <4>7. then <= n + rest
        BY <1>4, <3>1, <4>5, <4>6
      <4> QED BY <4>7 DEF n, rest
    <3> QED BY <2>2, <3>2, <3>3, <3>4
  <2>4. PaidBy(b)'
    BY <1>1, <1>2, <1>3, <1>7, <2>3 DEF PaidBy
  <2> QED BY <1>6, <2>4
<1>8. CASE Strategy[b] # "tokenBucket"
  <2>1. then <= w * Cardinality(Recent(b, Start(b, now + 1) - 1))
    <3>1. CASE (now + 1) % w = 0
      <4>1. then = 0
        BY <1>0, <1>8, <3>1, TickSpent
      <4> QED BY <1>5, <4>1
    <3>2. CASE (now + 1) % w # 0
      <4>1. then = spent
        BY <1>0, <1>8, <3>2, TickSpent
      <4>2. Start(b, now + 1) = Start(b, now)
        BY <1>1, <3>2, BucketType, NextWindow DEF Start
      <4> QED BY <1>0, <1>8, <4>1, <4>2 DEF PaidBy
    <3> QED BY <3>1, <3>2
  <2>2. Start(b, now)' = Start(b, now + 1)
    BY <1>1 DEF Start
  <2>3. PaidBy(b)'
    BY <1>2, <1>3, <1>8, <2>1, <2>2 DEF PaidBy
  <2> QED BY <1>6, <2>3
<1> QED BY <1>7, <1>8

(* What is spent is unchanged, and nothing was admitted or refused.        *)
LEMMA StillPaid ==
  ASSUME PInv, NEW b \in Buckets, now' = now, admitted'[b] = admitted[b], refused'[b] = refused[b],
         Spent(b, bucket'[b], now) = Spent(b, bucket[b], now)
  PROVE  PaidBy(b)' /\ NotAhead(b)' /\ Conforming(b)'
<1>0. PaidBy(b) /\ NotAhead(b) /\ Conforming(b)
  BY DEF PInv
<1>1. \A t : Recent(b, t)' = Recent(b, t)
  BY DEF Recent
<1>2. Spent(b, bucket[b], now)' = Spent(b, bucket[b], now)
  BY DEF Spent, MissingAfter, Start
<1>3. Start(b, now)' = Start(b, now)
  BY DEF Start
<1>4. PaidBy(b)'
  BY <1>0, <1>1, <1>2, <1>3 DEF PaidBy
<1> QED BY <1>0, <1>4 DEF NotAhead, Conforming

LEMMA AdmitPaid ==
  ASSUME PInv, NEW b \in Buckets, now' = now, refused'[b] = refused[b],
         admitted'[b] = Append(admitted[b], now), Room(b, bucket[b], now),
         Spent(b, bucket'[b], now) = Spent(b, bucket[b], now) + Window[b]
  PROVE  PaidBy(b)' /\ NotAhead(b)' /\ Conforming(b)'
<1> DEFINE spent == Spent(b, bucket[b], now)
           w == Window[b]
           m == Max[b]
           len == Len(admitted[b])
<1>0. LimiterInv /\ PaidBy(b) /\ NotAhead(b) /\ Conforming(b)
  BY DEF PInv
<1>1. /\ w \in Nat \ {0} /\ m \in Nat \ {0} /\ spent \in Nat /\ now \in Nat /\ len \in Nat
      /\ DOMAIN admitted[b] = 1 .. len /\ \A i \in 1 .. len : admitted[b][i] \in Nat
      /\ admitted[b] \in Seq(Nat)
      /\ \A t : IsFiniteSet(Recent(b, t)) /\ Cardinality(Recent(b, t)) \in Nat
  BY <1>0, BucketType, SpentType, AdmittedAre
<1>2. /\ admitted'[b] \in Seq(Nat) /\ Len(admitted'[b]) = len + 1
      /\ DOMAIN admitted'[b] = 1 .. len + 1
      /\ \A i \in 1 .. len : admitted'[b][i] = admitted[b][i]
      /\ admitted'[b][len + 1] = now
  BY <1>1, AppendProperties, LenProperties
<1>3. Spent(b, bucket[b], now)' = spent + w
  BY DEF Spent, MissingAfter, Start
<1>4. ASSUME NEW t \in Int, t < now
      PROVE  Cardinality(Recent(b, t)') = Cardinality(Recent(b, t)) + 1
  <2>1. Recent(b, t)' = Recent(b, t) \cup {len + 1} /\ len + 1 \notin Recent(b, t)
    BY <1>1, <1>2, <1>4 DEF Recent
  <2> QED BY <1>1, <2>1, FS_AddElement
<1>5. ASSUME NEW t \in Int, t < now
      PROVE  w * Cardinality(Recent(b, t)') = w * Cardinality(Recent(b, t)) + w
  BY <1>1, <1>4, <1>5, TimesMonotone
<1>6. NotAhead(b)'
  BY <1>0, <1>1, <1>2 DEF NotAhead
<1>7. Conforming(b)'
  <2> DEFINE in == {i \in 1 .. len : refused[b] - w < admitted[b][i] /\ admitted[b][i] <= refused[b]}
             in2 == {i \in 1 .. len + 1 : refused[b] - w < admitted'[b][i] /\ admitted'[b][i] <= refused[b]}
  <2>1. in \subseteq in2 /\ in2 \subseteq 1 .. len + 1
    BY <1>1, <1>2
  <2>2. IsFiniteSet(in2)
    <3>1. IsFiniteSet(1 .. len + 1) BY <1>1, FS_Interval
    <3> QED BY <2>1, <3>1, FS_Subset
  <2>3. IsFiniteSet(in) /\ Cardinality(in) <= Cardinality(in2)
    BY <2>1, <2>2, FS_Subset
  <2>4. Cardinality(in) \in Nat /\ Cardinality(in2) \in Nat
    BY <2>2, <2>3, FS_CardinalityType
  <2>5. refused[b] # Never => Cardinality(in) >= m
    BY <1>0 DEF Conforming
  <2>6. refused[b] # Never => Cardinality(in2) >= m
    <3> HIDE DEF in, in2
    <3> QED BY <1>1, <2>3, <2>4, <2>5
  <2> QED BY <1>2, <2>6 DEF Conforming
<1>8. CASE Strategy[b] = "tokenBucket"
  <2>1. ASSUME NEW s \in 0 .. w
        PROVE  spent + w <= w * Cardinality(Recent(b, now - s)') + m * (w - s)
    <3> DEFINE n == w * Cardinality(Recent(b, now - s))
               n2 == w * Cardinality(Recent(b, now - s)')
    <3>1. w - s \in Nat /\ now - s \in Int
      BY <1>1
    <3>2. n \in Nat /\ m * (w - s) \in Nat
      BY <1>1, <3>1, TimesMonotone
    <3>3. CASE s = 0
      <4>1. Recent(b, now - s)' = {}
        BY <1>1, <1>2, <1>6, <3>1, <3>3, SMTT(30) DEF Recent, NotAhead
      <4>2. n2 = 0
        <5>1. Cardinality(Recent(b, now - s)') = 0 BY <4>1, FS_EmptySet
        <5> QED BY <1>1, <5>1, TimesMonotone
      <4>3. m * (w - s) = Capacity(b)
        <5>1. w - s = w BY <1>1, <3>3
        <5> QED BY <1>1, <5>1 DEF Capacity
      <4>4. spent + w <= Capacity(b) /\ Capacity(b) \in Nat
        BY BucketType DEF Room
      <4> HIDE DEF n2, spent, w, m
      <4> QED BY <1>1, <4>2, <4>3, <4>4 DEF n2
    <3>4. CASE s # 0
      <4>1. n2 = n + w
        <5>1. now - s < now BY <1>1, <3>4
        <5> QED BY <1>5, <3>1, <5>1
      <4>2. spent <= n + m * (w - s)
        BY <1>0, <1>8 DEF PaidBy
      <4> HIDE DEF n, n2, spent, w, m
      <4> QED BY <1>1, <3>2, <4>1, <4>2 DEF n2
    <3> QED BY <3>3, <3>4
  <2>2. PaidBy(b)'
    BY <1>3, <1>8, <2>1 DEF PaidBy
  <2> QED BY <1>6, <1>7, <2>2
<1>9. CASE Strategy[b] # "tokenBucket"
  <2>1. Start(b, now)' = Start(b, now) /\ Start(b, now) \in Nat /\ Start(b, now) <= now
    BY <1>1, WindowStart DEF Start
  <2> DEFINE t == Start(b, now) - 1
  <2>2. t \in Int /\ t < now
    BY <1>1, <2>1
  <2>3. w * Cardinality(Recent(b, t)') = w * Cardinality(Recent(b, t)) + w
    BY <1>5, <2>2
  <2>4. spent <= w * Cardinality(Recent(b, t)) /\ w * Cardinality(Recent(b, t)) \in Nat
    BY <1>0, <1>1, <1>9, TimesMonotone DEF PaidBy
  <2>5. spent + w <= w * Cardinality(Recent(b, t)')
    <3> HIDE DEF spent, w, t
    <3> QED BY <1>1, <2>3, <2>4
  <2>6. PaidBy(b)'
    BY <1>3, <1>9, <2>1, <2>5 DEF PaidBy
  <2> QED BY <1>6, <1>7, <2>6
<1> QED BY <1>8, <1>9

(* A refusal finds the window that just passed full.                       *)
LEMMA RefusePaid ==
  ASSUME PInv, NEW b \in Buckets, now' = now, refused'[b] = now, admitted'[b] = admitted[b],
         ~Room(b, bucket[b], now), Spent(b, bucket'[b], now) = Spent(b, bucket[b], now)
  PROVE  PaidBy(b)' /\ NotAhead(b)' /\ Conforming(b)'
<1> DEFINE spent == Spent(b, bucket[b], now)
           w == Window[b]
           m == Max[b]
           last == {i \in 1 .. Len(admitted[b]) : now - w < admitted[b][i] /\ admitted[b][i] <= now}
<1>0. LimiterInv /\ PaidBy(b) /\ NotAhead(b)
  BY DEF PInv
<1>1. /\ w \in Nat \ {0} /\ m \in Nat \ {0} /\ spent \in Nat /\ now \in Nat
      /\ DOMAIN admitted[b] = 1 .. Len(admitted[b])
      /\ \A i \in DOMAIN admitted[b] : admitted[b][i] \in Nat
      /\ \A t : IsFiniteSet(Recent(b, t)) /\ Cardinality(Recent(b, t)) \in Nat
  BY <1>0, BucketType, SpentType, AdmittedAre
<1>2. PaidBy(b)' /\ NotAhead(b)'
  <2>1. \A t : Recent(b, t)' = Recent(b, t)
    BY DEF Recent
  <2>2. Spent(b, bucket[b], now)' = Spent(b, bucket[b], now) /\ Start(b, now)' = Start(b, now)
    BY DEF Spent, MissingAfter, Start
  <2>3. PaidBy(b)'
    BY <1>0, <2>1, <2>2 DEF PaidBy
  <2> QED BY <1>0, <1>1, <2>3 DEF NotAhead
<1>3. last = Recent(b, now - w)
  BY <1>0, <1>1 DEF Recent, NotAhead
<1>4. w * m < spent + w
  <2>1. w * m = Capacity(b) /\ Capacity(b) \in Nat
    BY <1>1, BucketType DEF Capacity
  <2> QED BY <1>1, <2>1 DEF Room
<1>5. spent <= w * Cardinality(last)
  <2>1. CASE Strategy[b] = "tokenBucket"
    <3>1. w \in 0 .. w /\ m * (w - w) = 0
      BY <1>1
    <3>2. spent <= w * Cardinality(Recent(b, now - w)) + m * (w - w)
      BY <1>0, <2>1, <3>1 DEF PaidBy
    <3>3. w * Cardinality(Recent(b, now - w)) \in Nat
      BY <1>1, TimesMonotone
    <3> HIDE DEF spent, last
    <3> QED BY <1>1, <1>3, <3>1, <3>2, <3>3
  <2>2. CASE Strategy[b] # "tokenBucket"
    <3> DEFINE t == Start(b, now) - 1
               few == Cardinality(Recent(b, t))
               many == Cardinality(last)
    <3>1. Start(b, now) \in Nat /\ now < Start(b, now) + w
      BY <1>1, WindowStart DEF Start
    <3>2. Recent(b, t) \subseteq last
      BY <1>1, <1>3, <3>1 DEF Recent
    <3>3. few \in Nat /\ many \in Nat /\ few <= many
      <4>1. IsFiniteSet(last)
        BY <1>1, <1>3
      <4> HIDE DEF t, last
      <4> QED BY <1>1, <3>2, <4>1, FS_Subset, FS_CardinalityType
    <3>4. spent <= w * few
      BY <1>0, <2>2 DEF PaidBy
    <3>5. w * few <= w * many /\ w * few \in Nat /\ w * many \in Nat
      <4> HIDE DEF few, many, w
      <4>1. w * (many - few) \in Nat /\ many - few \in Nat /\ w * few \in Nat /\ w * many \in Nat
        BY <1>1, <3>3, TimesMonotone
      <4>2. w * many = w * few + w * (many - few)
        BY <1>1, <3>3
      <4> QED BY <4>1, <4>2
    <3> HIDE DEF few, many, spent, w
    <3> QED BY <1>1, <3>4, <3>5 DEF many
  <2> QED BY <2>1, <2>2
<1>6. m <= Cardinality(last)
  <2> DEFINE many == Cardinality(last)
  <2>1. many \in Nat /\ w * many \in Nat /\ w * m \in Nat
    BY <1>1, <1>3, TimesMonotone
  <2>2. spent <= w * many
    BY <1>5
  <2> HIDE DEF many, spent, w, m
  <2>3. w * m < w * many + w
    BY <1>1, <1>4, <2>1, <2>2
  <2>4. m <= many
    BY <1>1, <2>1, <2>3, TimesMonotone
  <2> QED BY <2>4 DEF many, m
<1>7. Conforming(b)'
  <2>1. Cardinality(last) \in Nat
    BY <1>1, <1>3
  <2>2. Cardinality(last) >= m
    <3> HIDE DEF last, m
    <3> QED BY <1>1, <1>6, <2>1
  <2> QED BY <2>2 DEF Conforming
<1> QED BY <1>2, <1>7

LEMMA InitPInv == LimiterInit => PInv
<1> SUFFICES ASSUME LimiterInit PROVE PInv
  OBVIOUS
<1>1. LimiterInv
  BY InitLimiterInv
<1>2. ASSUME NEW b \in Buckets PROVE PaidBy(b) /\ NotAhead(b) /\ Conforming(b)
  <2>1. bucket[b] = NoBucket /\ refused[b] = Never /\ admitted[b] = <<>>
    BY DEF LimiterInit
  <2>2. Spent(b, bucket[b], now) = 0
    BY <2>1 DEF Spent, NoBucket
  <2>3. \A t : Cardinality(Recent(b, t)) \in Nat
    BY <1>1, AdmittedAre
  <2>4. ASSUME NEW t PROVE Window[b] * Cardinality(Recent(b, t)) \in Nat
    BY <2>3, BucketType, TimesMonotone
  <2>5. ASSUME NEW s \in 0 .. Window[b] PROVE Max[b] * (Window[b] - s) \in Nat
    <3>1. Window[b] - s \in Nat BY BucketType
    <3> QED BY <3>1, BucketType, TimesMonotone
  <2>6. PaidBy(b)
    BY <2>2, <2>4, <2>5 DEF PaidBy
  <2> QED BY <2>1, <2>6 DEF NotAhead, Conforming
<1> QED BY <1>1, <1>2 DEF PInv

LEMMA NextPInv == PInv /\ [LimiterNext]_limiterVars => PInv'
<1> SUFFICES ASSUME PInv, [LimiterNext]_limiterVars PROVE PInv'
  OBVIOUS
<1>0. LimiterInv /\ LimiterInv' /\ \A b \in Buckets : Spent(b, bucket[b], now) \in Nat
  BY NextLimiterInv, SpentType DEF PInv
<1>1. CASE Tick
  BY <1>0, <1>1, TickPaid DEF PInv
<1>2. CASE Purge
  <2>1. now' = now /\ admitted' = admitted /\ refused' = refused /\ bucket' = Purged
    BY <1>2 DEF Purge
  <2> QED BY <1>0, <2>1, PurgeIsInvisible, StillPaid DEF PInv
<1>3. ASSUME NEW b \in Buckets, Check(b) PROVE PInv'
  <2> DEFINE kept == KeptMap(b)
  <2>1. /\ kept \in [Buckets -> Entries \cup {NoBucket}] /\ now \in Nat
        /\ \A c \in Buckets : Spent(c, kept[c], now) = Spent(c, bucket[c], now)
    BY <1>0, KeptSpent DEF LimiterInv, LimiterTypeOK
  <2>2. /\ bucket' = [kept EXCEPT ![b] = Checked(b, kept[b], now)] /\ now' = now
        /\ Room(b, kept[b], now) <=> Room(b, bucket[b], now)
    BY <1>0, <1>3, CheckAt
  <2>3. Spent(b, Checked(b, kept[b], now), now) =
          Spent(b, kept[b], now) + (IF Room(b, kept[b], now) THEN Window[b] ELSE 0)
    BY <1>0, <2>1, CheckedSpent
  <2> HIDE DEF kept
  <2>4. bucket'[b] = Checked(b, kept[b], now) /\ \A c \in Buckets \ {b} : bucket'[c] = kept[c]
    BY <2>1, <2>2
  <2>5. admitted \in [Buckets -> Seq(Nat)] /\ refused \in [Buckets -> Nat \cup {Never}]
    BY <1>0 DEF LimiterInv, LimiterTypeOK
  <2>6. IF Room(b, bucket[b], now)
        THEN admitted' = [admitted EXCEPT ![b] = Append(@, now)] /\ UNCHANGED refused
        ELSE refused' = [refused EXCEPT ![b] = now] /\ UNCHANGED admitted
    BY <1>0, <1>3, CheckAt
  <2>7. ASSUME NEW c \in Buckets \ {b} PROVE PaidBy(c)' /\ NotAhead(c)' /\ Conforming(c)'
    <3>1. admitted'[c] = admitted[c] /\ refused'[c] = refused[c]
      BY <2>5, <2>6
    <3> QED BY <2>1, <2>2, <2>4, <3>1, StillPaid
  <2>8. PaidBy(b)' /\ NotAhead(b)' /\ Conforming(b)'
    <3>1. CASE Room(b, bucket[b], now)
      <4>1. admitted'[b] = Append(admitted[b], now) /\ refused'[b] = refused[b]
        BY <2>5, <2>6, <3>1
      <4> QED BY <2>1, <2>2, <2>3, <2>4, <3>1, <4>1, AdmitPaid
    <3>2. CASE ~Room(b, bucket[b], now)
      <4>1. admitted'[b] = admitted[b] /\ refused'[b] = now
        BY <2>5, <2>6, <3>2
      <4>2. Spent(b, bucket'[b], now) = Spent(b, bucket[b], now)
        BY <1>0, <2>1, <2>2, <2>3, <2>4, <3>2
      <4> QED BY <2>2, <3>2, <4>1, <4>2, RefusePaid
    <3> QED BY <3>1, <3>2
  <2> QED BY <1>0, <2>7, <2>8 DEF PInv
<1>4. CASE UNCHANGED limiterVars
  BY <1>0, <1>4, StillPaid DEF PInv, limiterVars
<1> QED BY <1>1, <1>2, <1>3, <1>4 DEF LimiterNext

(* A caller is refused only after max admitted calls in the window that    *)
(* just passed: who keeps to max in any windowMs is never refused, with    *)
(* either strategy (rate-limit.ts:70-83, 110-117).                         *)
THEOREM ConformingAdmitted == LimiterSpec => []ConformingIsAdmitted
<1>1. PInv => ConformingIsAdmitted
  BY DEF PInv, Conforming, ConformingIsAdmitted
<1> QED BY <1>1, InitPInv, NextPInv, PTL DEF LimiterSpec

-----------------------------------------------------------------------------
(* When to come back.                                                      *)

LEMMA Quotient ==
  ASSUME NEW n \in Nat, NEW d \in Nat \ {0}
  PROVE  /\ n \div d \in Nat /\ (n \div d) * d <= n /\ n < (n \div d) * d + d
         /\ \A q \in Nat : q * d <= n /\ n < q * d + d => n \div d = q
<1>1. n \div d \in Nat /\ (n \div d) * d <= n /\ n < (n \div d) * d + d
  OBVIOUS
<1>2. ASSUME NEW q \in Nat, q * d <= n, n < q * d + d PROVE n \div d = q
  <2> DEFINE p == n \div d
  <2>1. p \in Nat /\ d * p = p * d /\ d * q = q * d /\ p * d \in Nat /\ q * d \in Nat
    BY <1>1
  <2> HIDE DEF p
  <2>2. d * p < d * q + d /\ d * q < d * p + d
    BY <1>1, <1>2, <2>1 DEF p
  <2>3. p <= q /\ q <= p
    BY <2>1, <2>2, TimesMonotone
  <2>4. p = q
    BY <2>1, <2>3
  <2> QED BY <2>4 DEF p
<1> QED BY <1>1, <1>2

LEMMA Regroup ==
  ASSUME NEW q \in Nat, NEW x \in Nat, NEW y \in Nat
  PROVE  (q * x) * y = q * (y * x)
OBVIOUS

(* A token bucket, d ticks later.                                          *)
LEMMA LaterTokens ==
  ASSUME LimiterInv, NEW b \in Buckets, Strategy[b] = "tokenBucket", bucket[b] # NoBucket, NEW d \in Nat
  PROVE  LET spent == Spent(b, bucket[b], now) IN
         Spent(b, bucket[b], now + d) = IF d * Max[b] >= spent THEN 0 ELSE spent - d * Max[b]
<1> DEFINE used == bucket[b].used
           at == bucket[b].at
           back == (now - at) * Max[b]
           more == d * Max[b]
           spent == Spent(b, bucket[b], now)
           then == Spent(b, bucket[b], now + d)
<1>1. bucket[b] \in Entries /\ used \in Nat /\ at \in Nat /\ at <= now /\ now \in Nat
  BY DEF LimiterInv, LimiterTypeOK, EntryOk, Entries
<1>2. back \in Nat /\ more \in Nat /\ ((now + d) - at) * Max[b] = back + more
  <2>1. now - at \in Nat /\ (now + d) - at = (now - at) + d
    BY <1>1
  <2> DEFINE m == Max[b]
             e == now - at
  <2>2. m \in Nat /\ e \in Nat
    BY <2>1, BucketType
  <2> HIDE DEF m, e
  <2>3. (e + d) * m = e * m + d * m /\ e * m \in Nat /\ d * m \in Nat
    BY <2>2
  <2> QED BY <2>1, <2>3 DEF m, e
<1>3. spent = IF back >= used THEN 0 ELSE used - back
  BY <1>1, TokensSpent DEF MissingAfter
<1>4. then = IF back + more >= used THEN 0 ELSE used - (back + more)
  <2>1. then = MissingAfter(b, used, (now + d) - at)
    BY <1>1, TokensSpent
  <2> QED BY <1>2, <2>1 DEF MissingAfter
<1> HIDE DEF used, at, back, more, spent, then
<1>5. then = IF more >= spent THEN 0 ELSE spent - more
  BY <1>1, <1>2, <1>3, <1>4
<1> QED BY <1>5 DEF then, spent, more

LEMMA RetryTokens ==
  ASSUME LimiterInv, NEW b \in Buckets, Strategy[b] = "tokenBucket", ~Room(b, bucket[b], now)
  PROVE  LET ms == RetryAfterMs(b, bucket[b], now) IN
         /\ Room(b, bucket[b], now + ms * Ms)
         /\ Room(b, bucket[b], now + (ms + 1) * Ms)
         /\ ~Room(b, bucket[b], now + (ms - 1) * Ms)
<1> DEFINE spent == Spent(b, bucket[b], now)
           w == Window[b]
           cap == Capacity(b)
           need == spent + w - cap
           unit == Max[b] * Ms
           q == RetryAfterMs(b, bucket[b], now)
<1>1. /\ w \in Nat \ {0} /\ cap \in Nat /\ w <= cap /\ spent \in Nat /\ Ms \in Nat \ {0}
      /\ Max[b] \in Nat \ {0} /\ unit \in Nat \ {0}
  <2>1. Max[b] \in Nat \ {0} /\ w \in Nat \ {0} /\ Ms \in Nat \ {0} /\ cap \in Nat /\ spent \in Nat
    BY BucketType, SpentType, RateAssumption
  <2>2. cap >= w
    BY <2>1, TimesAtLeast DEF Capacity
  <2>3. unit \in Nat /\ unit >= Ms
    BY <2>1, TimesAtLeast
  <2> QED BY <2>1, <2>2, <2>3
<1>2. need \in Nat \ {0} /\ need <= spent
  <2>1. ~(spent + w <= cap) BY DEF Room
  <2> HIDE DEF spent, w, cap
  <2> QED BY <1>1, <2>1
<1>3. bucket[b] # NoBucket
  <2>1. bucket[b] = NoBucket => spent = 0 BY DEF Spent, NoBucket
  <2> HIDE DEF spent, need, w, cap
  <2> QED BY <1>1, <1>2, <2>1
<1>4. q = (need + unit - 1) \div unit
  BY DEF RetryAfterMs, CeilDiv
<1> HIDE DEF q, need, unit, spent, w, cap
<1>5. q \in Nat \ {0} /\ q * unit >= need /\ (q - 1) * unit < need
  <2>1. need + unit - 1 \in Nat BY <1>1, <1>2
  <2>2. q \in Nat /\ q * unit <= need + unit - 1 /\ need + unit - 1 < q * unit + unit
    BY <1>1, <1>4, <2>1, Quotient
  <2>3. q * unit \in Nat /\ q * unit >= need
    <3>1. q * unit \in Nat BY <1>1, <2>2
    <3> QED BY <1>1, <1>2, <2>2, <3>1
  <2>4. q # 0
    <3>1. 0 * unit = 0 BY <1>1
    <3> QED BY <1>2, <2>3, <3>1
  <2>5. (q - 1) * unit = q * unit - unit
    BY <1>1, <2>2
  <2> QED BY <1>1, <1>2, <2>2, <2>3, <2>4, <2>5
<1>6. ASSUME NEW k \in Nat
      PROVE  /\ k * unit \in Nat
             /\ Spent(b, bucket[b], now + k * Ms) = IF k * unit >= spent THEN 0 ELSE spent - k * unit
  <2>1. k * Ms \in Nat /\ (k * Ms) * Max[b] = k * unit /\ k * unit \in Nat
    <3>1. k * Ms \in Nat BY <1>1
    <3>2. (k * Ms) * Max[b] = k * (Max[b] * Ms) BY <1>1, Regroup
    <3>3. k * unit \in Nat BY <1>1
    <3> QED BY <3>1, <3>2, <3>3 DEF unit
  <2> QED BY <1>3, <2>1, LaterTokens DEF spent
<1>7. ASSUME NEW k \in Nat
      PROVE  Room(b, bucket[b], now + k * Ms) <=> k * unit >= need
  <2>1. Room(b, bucket[b], now + k * Ms) <=> Spent(b, bucket[b], now + k * Ms) + w <= cap
    BY DEF Room, w, cap
  <2> DEFINE then == Spent(b, bucket[b], now + k * Ms)
             gone == k * unit
  <2>2. gone \in Nat /\ then = IF gone >= spent THEN 0 ELSE spent - gone
    BY <1>6
  <2> HIDE DEF then, gone
  <2>3. then + w <= cap <=> gone >= need
    BY <1>1, <1>2, <2>2 DEF need
  <2> QED BY <2>1, <2>3 DEF then, gone
<1>8. q - 1 \in Nat /\ q + 1 \in Nat /\ (q + 1) * unit = q * unit + unit /\ q * unit \in Nat
  BY <1>1, <1>5
<1>9. (q + 1) * unit >= need
  BY <1>1, <1>2, <1>5, <1>8
<1>10. ~((q - 1) * unit >= need)
  <2>1. (q - 1) * unit \in Nat BY <1>1, <1>8
  <2> QED BY <1>2, <1>5, <2>1
<1>11. /\ Room(b, bucket[b], now + q * Ms)
       /\ Room(b, bucket[b], now + (q + 1) * Ms)
       /\ ~Room(b, bucket[b], now + (q - 1) * Ms)
  BY <1>5, <1>7, <1>8, <1>9, <1>10
<1> QED BY <1>11 DEF q

LEMMA RetryWindow ==
  ASSUME LimiterInv, NEW b \in Buckets, Strategy[b] # "tokenBucket", ~Room(b, bucket[b], now)
  PROVE  LET ms == RetryAfterMs(b, bucket[b], now) IN
         /\ Room(b, bucket[b], now + (ms + 1) * Ms)
         /\ \A early \in 0 .. ms * Ms - 1 : ~Room(b, bucket[b], now + early)
<1> DEFINE spent == Spent(b, bucket[b], now)
           w == Window[b]
           cap == Capacity(b)
           start == Start(b, now)
           rest == start + w - now
           q == RetryAfterMs(b, bucket[b], now)
<1>1. /\ w \in Nat \ {0} /\ cap \in Nat /\ w <= cap /\ spent \in Nat /\ Ms \in Nat \ {0}
      /\ now \in Nat /\ start \in Nat /\ start <= now /\ rest \in Nat \ {0}
  <2>1. Max[b] \in Nat \ {0} /\ w \in Nat \ {0} /\ Ms \in Nat \ {0} /\ cap \in Nat
        /\ spent \in Nat /\ now \in Nat
    BY BucketType, SpentType, RateAssumption DEF LimiterInv, LimiterTypeOK
  <2>2. cap >= w
    BY <2>1, TimesAtLeast DEF Capacity
  <2>3. start \in Nat /\ start <= now /\ now < start + w
    BY <2>1, WindowStart DEF Start
  <2> HIDE DEF spent, w, cap, start
  <2> QED BY <2>1, <2>2, <2>3
<1>2. spent # 0
  <2>1. ~(spent + w <= cap) BY DEF Room
  <2> HIDE DEF spent, w, cap
  <2> QED BY <1>1, <2>1
<1>3. bucket[b].at # Never /\ bucket[b].at = start /\ spent = bucket[b].used
  BY <1>2 DEF Spent
<1>4. \A t : Spent(b, bucket[b], t) = IF Start(b, t) = start THEN spent ELSE 0
  BY <1>3 DEF Spent
<1>5. q = rest \div Ms
  BY DEF RetryAfterMs
<1> HIDE DEF spent, cap, start, rest, q
<1>6. q \in Nat /\ q * Ms \in Nat /\ q * Ms <= rest /\ rest < (q + 1) * Ms /\ (q + 1) * Ms \in Nat
  <2>1. q \in Nat /\ q * Ms <= rest /\ rest < q * Ms + Ms
    BY <1>1, <1>5, Quotient
  <2>2. q * Ms \in Nat /\ (q + 1) * Ms = q * Ms + Ms /\ (q + 1) * Ms \in Nat
    BY <1>1, <2>1
  <2> QED BY <2>1, <2>2
<1>7. Room(b, bucket[b], now + (q + 1) * Ms)
  <2> DEFINE t == now + (q + 1) * Ms
  <2>1. t \in Nat /\ t > start + w
    <3> HIDE DEF w
    <3> QED BY <1>1, <1>6 DEF rest
  <2>2. t < Start(b, t) + w /\ Start(b, t) \in Nat
    <3>1. t \in Nat BY <2>1
    <3> HIDE DEF t
    <3> QED BY <1>1, <3>1, WindowStart DEF Start
  <2>3. Start(b, t) # start
    <3> HIDE DEF t, w
    <3> QED BY <1>1, <2>1, <2>2
  <2>4. Spent(b, bucket[b], t) = 0
    BY <1>4, <2>3
  <2> QED BY <1>1, <2>4 DEF Room, cap
<1>8. ASSUME NEW early \in 0 .. q * Ms - 1
      PROVE  ~Room(b, bucket[b], now + early)
  <2> DEFINE t == now + early
  <2>1. t \in Nat /\ now <= t /\ t < start + w
    <3> HIDE DEF w
    <3> QED BY <1>1, <1>6, <1>8 DEF rest
  <2>2. Start(b, t) = start
    <3> DEFINE k == now \div w
    <3>1. k \in Nat /\ start = k * w
      BY <1>1, WindowStart DEF start, Start
    <3>2. k * w <= t /\ t < k * w + w
      <4> HIDE DEF t, k, w
      <4> QED BY <1>1, <2>1, <3>1
    <3>3. t \div w = k
      <4> HIDE DEF t, k, w
      <4> QED BY <1>1, <2>1, <3>1, <3>2, Quotient
    <3> QED BY <3>1, <3>3 DEF Start
  <2>3. Spent(b, bucket[b], t) = spent
    BY <1>4, <2>2
  <2> QED BY <2>3 DEF Room, spent
<1> QED BY <1>7, <1>8 DEF q

(* A refused caller that comes back when it was told to is admitted, and a *)
(* token bucket's could not have come earlier; a fixed window's is told at *)
(* most a millisecond too early (rate-limit.ts:81, 88-91, 116).            *)
THEOREM RetryAfterIsRight == LimiterSpec => []RetryAfterSuffices
<1>1. LimiterInv => RetryAfterSuffices
  BY RetryTokens, RetryWindow DEF RetryAfterSuffices
<1> QED BY <1>1, InitLimiterInv, NextLimiterInv, PTL DEF LimiterSpec

-----------------------------------------------------------------------------
(* The calls: the inductive invariant.                                     *)

(* A request is sent once, and is new until the server reads it.           *)
SentOnce ==
  /\ \A c \in Calls : status[c] = "idle" => attempt[c] = 0
  /\ \A c \in Calls : status[c] = "asleep" => attempt[c] <= MaxRetries[c]
  /\ \A r \in Requests : r[2] > attempt[r[1]] => stage[r] = "new"
  /\ \A p \in Players : \A i \in DOMAIN up[p] :
       /\ PlayerOf[up[p][i]] = p /\ stage[up[p][i]] = "new"
       /\ up[p][i][2] <= attempt[up[p][i][1]]
       /\ \A j \in DOMAIN up[p] : up[p][j] = up[p][i] => j = i

(* Who shares an outcome waits for it, and for no other.                   *)
SharesOne ==
  \A r \in Requests : \A i \in DOMAIN sharers[r] :
    /\ stage[sharers[r][i]] = "shares"
    /\ \A q \in Requests : \A j \in DOMAIN sharers[q] : sharers[q][j] = sharers[r][i] => q = r

(* A response says what its request settled to.                            *)
AnswersTrue ==
  \A p \in Players : \A i \in DOMAIN down[p] :
    stage[down[p][i].of] = "done" /\ result[down[p][i].of] = down[p][i].result

(* What reached its handler runs, or ended there.                          *)
EndsAsRun ==
  /\ \A r \in Requests : stage[r] = "done" => result[r] \in Server!Results
  /\ \A r \in ran : stage[r] = "running" \/ (stage[r] = "done" /\ result[r] \in {"ok", "failed"})

(* The entry of what runs or ran is there, or was dropped.                 *)
Holds(r) == entries[PlayerOf[r]][KeyOf[r]] = r \/ r \in forgotten
Remembered ==
  \A r \in Requests :
    r \in ran \/ stage[r] \in {"checking", "running"} => KeyOf[r] = NoKey \/ Holds(r)
OrderedOnce == \A p \in Players : \A i, j \in DOMAIN order[p] : order[p][i] = order[p][j] => i = j

(* The slots taken are the dispatches under way.                           *)
UnderWay(p) == {r \in Requests : PlayerOf[r] = p /\ stage[r] \in {"checking", "running"}}
SlotsOf(p) == IF budget[p] = Server!NoState THEN 0 ELSE budget[p].inFlight
SlotsTaken ==
  \A p \in Players :
    /\ IsFiniteSet(UnderWay(p))
    /\ p \notin departed => SlotsOf(p) = Cardinality(UnderWay(p)) /\ SlotsOf(p) <= MaxInFlight

(* A call not declared idempotent is sent again only when no attempt of it *)
(* ran, or will.                                                           *)
PastAttempt(r) == r[2] < attempt[r[1]] \/ (r[2] = attempt[r[1]] /\ status[r[1]] = "asleep")
NeverRan ==
  \A r \in Requests : r[1] \notin Idempotent /\ PastAttempt(r) => stage[r] = "done" /\ r \notin ran

ServerIInv ==
  /\ SharesOne /\ AnswersTrue /\ EndsAsRun /\ Remembered /\ OrderedOnce /\ SlotsTaken
  /\ Server!NothingForTheGone
IInv == TypeOK /\ SentOnce /\ ServerIInv /\ NeverRan

-----------------------------------------------------------------------------
(* Requests, and the operators of the server.                              *)

LEMMA RequestsAre ==
  /\ \A r \in Requests : r[1] \in Calls /\ r[2] \in 1 .. MaxRetries[r[1]] + 1 /\ r = <<r[1], r[2]>>
  /\ \A c \in Calls : \A n \in 1 .. MaxRetries[c] + 1 : <<c, n>> \in Requests
  /\ \A r \in Requests : PlayerOf[r] = CallerOf[r[1]] /\ PlayerOf[r] \in Players
  /\ \A r \in Requests : KeyOf[r] \in Keys \cup {NoKey}
<1>1. \A r \in Requests : r[1] \in Calls /\ r[2] \in 1 .. MaxRetries[r[1]] + 1 /\ r = <<r[1], r[2]>>
  BY DEF Requests
<1>2. \A c \in Calls : \A n \in 1 .. MaxRetries[c] + 1 : <<c, n>> \in Requests
  BY DEF Requests
<1>3. \A r \in Requests : PlayerOf[r] = CallerOf[r[1]] /\ PlayerOf[r] \in Players
  BY <1>1, CallsAssumption DEF PlayerOf
<1>4. \A r \in Requests : KeyOf[r] \in Keys \cup {NoKey}
  BY <1>1, CallsAssumption DEF KeyOf
<1> QED BY <1>1, <1>2, <1>3, <1>4

Budgets == [tokens : 0 .. Burst, inFlight : Nat]

LEMMA BudgetOps ==
  ASSUME NEW state \in Budgets \cup {Server!NoState}
  PROVE  /\ Server!NoState \notin Budgets
         /\ state # Server!NoState =>
              /\ Server!WithToken(state) \in Budgets
              /\ Server!WithToken(state).inFlight = state.inFlight
         /\ \A r : /\ Server!Refunded(r, state) \in Budgets \cup {Server!NoState}
                   /\ Server!Refunded(r, state) = Server!NoState <=> state = Server!NoState
                   /\ Server!Refunded(r, state).inFlight = state.inFlight
         /\ Server!Finished(state) \in Budgets \cup {Server!NoState}
         /\ Server!Finished(state) = Server!NoState <=> state = Server!NoState
         /\ state \in Budgets => Server!Finished(state).inFlight =
              IF state.inFlight > 0 THEN state.inFlight - 1 ELSE 0
<1>1. Server!NoState \notin Budgets
  BY DEF Server!NoState, Budgets
<1>2. ASSUME state \in Budgets
      PROVE  /\ Server!WithToken(state) \in Budgets
             /\ Server!WithToken(state).inFlight = state.inFlight
             /\ Server!Finished(state) \in Budgets
             /\ Server!Finished(state).inFlight =
                  IF state.inFlight > 0 THEN state.inFlight - 1 ELSE 0
  BY <1>1, <1>2, CallsAssumption DEF Server!WithToken, Server!Finished, Budgets
<1>3. state \notin Budgets => state = Server!NoState
  OBVIOUS
<1>4. \A r : Server!Refunded(r, state) = IF r \in Priced /\ state # Server!NoState
                                       THEN Server!WithToken(state) ELSE state
  BY DEF Server!Refunded
<1>5. CASE state = Server!NoState
  BY <1>1, <1>4, <1>5 DEF Server!Finished
<1> QED BY <1>1, <1>2, <1>3, <1>4, <1>5

OnceIn(s) == \A i, j \in DOMAIN s : s[i] = s[j] => i = j

LEMMA SubSeqAt ==
  ASSUME NEW S, NEW s \in Seq(S), NEW m \in 1 .. Len(s) + 1, NEW n \in m - 1 .. Len(s)
  PROVE  /\ SubSeq(s, m, n) \in Seq(S) /\ Len(SubSeq(s, m, n)) = n - m + 1
         /\ \A i \in 1 .. n - m + 1 : SubSeq(s, m, n)[i] = s[m + i - 1]
<1>1. Len(s) \in Nat /\ s \in [1 .. Len(s) -> S] BY LenProperties
<1>2. m \in Int /\ n \in Int /\ \A i \in m .. n : s[i] \in S BY <1>1
<1>3. /\ SubSeq(s, m, n) \in Seq(S)
      /\ Len(SubSeq(s, m, n)) = IF m <= n THEN n - m + 1 ELSE 0
      /\ \A i \in 1 .. n - m + 1 : SubSeq(s, m, n)[i] = s[m + i - 1]
  BY <1>2, SubSeqProperties
<1>4. n - m + 1 = IF m <= n THEN n - m + 1 ELSE 0 BY <1>1, <1>2
<1> QED BY <1>3, <1>4

LEMMA WithoutKey ==
  ASSUME NEW s \in Seq(Keys), OnceIn(s), NEW k
  PROVE  /\ Server!Without(s, k) \in Seq(Keys)
         /\ OnceIn(Server!Without(s, k)) /\ ~Server!KeyIn(k, Server!Without(s, k))
<1> DEFINE w == Server!Without(s, k)
<1>0. Len(s) \in Nat /\ DOMAIN s = 1 .. Len(s) /\ s \in [1 .. Len(s) -> Keys]
  BY LenProperties
<1>1. CASE ~Server!KeyIn(k, s)
  BY <1>1 DEF Server!Without
<1>2. CASE Server!KeyIn(k, s)
  <2> DEFINE at == CHOOSE i \in 1 .. Len(s) : s[i] = k
             a == SubSeq(s, 1, at - 1)
             b == SubSeq(s, at + 1, Len(s))
  <2>1. at \in 1 .. Len(s) /\ s[at] = k
    BY <1>2 DEF Server!KeyIn
  <2>2. w = a \o b
    BY <1>2 DEF Server!Without
  <2> HIDE DEF at
  <2>3. /\ a \in Seq(Keys) /\ Len(a) = at - 1
        /\ \A i \in 1 .. at - 1 : a[i] = s[i]
    <3>1. /\ a \in Seq(Keys) /\ Len(a) = (at - 1) - 1 + 1
          /\ \A i \in 1 .. (at - 1) - 1 + 1 : a[i] = s[1 + i - 1]
      <4>1. 1 \in 1 .. Len(s) + 1 /\ at - 1 \in 1 - 1 .. Len(s) BY <1>0, <2>1
      <4> QED BY <4>1, SubSeqAt
    <3> HIDE DEF a
    <3>2. ASSUME NEW i \in 1 .. at - 1 PROVE a[i] = s[i]
      <4>1. 1 + i - 1 = i /\ i \in 1 .. (at - 1) - 1 + 1 BY <2>1
      <4> QED BY <3>1, <4>1
    <3> QED BY <2>1, <3>1, <3>2
  <2>4. /\ b \in Seq(Keys) /\ Len(b) = Len(s) - at
        /\ \A i \in 1 .. Len(s) - at : b[i] = s[at + i]
    <3>1. /\ b \in Seq(Keys) /\ Len(b) = Len(s) - (at + 1) + 1
          /\ \A i \in 1 .. Len(s) - (at + 1) + 1 : b[i] = s[(at + 1) + i - 1]
      <4>1. at + 1 \in 1 .. Len(s) + 1 /\ Len(s) \in (at + 1) - 1 .. Len(s) BY <1>0, <2>1
      <4> QED BY <4>1, SubSeqAt
    <3> HIDE DEF b
    <3>2. ASSUME NEW i \in 1 .. Len(s) - at PROVE b[i] = s[at + i]
      <4>1. (at + 1) + i - 1 = at + i /\ i \in 1 .. Len(s) - (at + 1) + 1 BY <1>0, <2>1
      <4> QED BY <3>1, <4>1
    <3> QED BY <1>0, <2>1, <3>1, <3>2
  <2> HIDE DEF a, b
  <2>5. /\ w \in Seq(Keys) /\ Len(w) = Len(s) - 1
        /\ \A i \in 1 .. Len(s) - 1 : w[i] = IF i < at THEN s[i] ELSE s[i + 1]
    <3> HIDE DEF w
    <3>1. /\ w \in Seq(Keys) /\ Len(w) = Len(a) + Len(b)
          /\ \A i \in 1 .. Len(a) + Len(b) : w[i] = IF i <= Len(a) THEN a[i] ELSE b[i - Len(a)]
      BY <2>2, <2>3, <2>4, ConcatProperties
    <3>2. ASSUME NEW i \in 1 .. Len(s) - 1 PROVE w[i] = IF i < at THEN s[i] ELSE s[i + 1]
      <4>1. w[i] = IF i <= Len(a) THEN a[i] ELSE b[i - Len(a)]
        BY <1>0, <2>1, <2>3, <2>4, <3>1
      <4>2. CASE i < at
        BY <2>1, <2>3, <4>1, <4>2
      <4>3. CASE ~(i < at)
        <5>1. i - Len(a) \in 1 .. Len(s) - at /\ at + (i - Len(a)) = i + 1
          BY <1>0, <2>1, <2>3, <4>3
        <5>2. w[i] = b[i - Len(a)]
          BY <2>1, <2>3, <4>1, <4>3
        <5> QED BY <2>4, <4>3, <5>1, <5>2
      <4> QED BY <4>2, <4>3
    <3> QED BY <1>0, <2>1, <2>3, <2>4, <3>1, <3>2
  <2> HIDE DEF w
  <2>6. DOMAIN w = 1 .. Len(s) - 1
    BY <2>5, LenProperties
  <2> DEFINE from(i) == IF i < at THEN i ELSE i + 1
  <2>7. \A i \in DOMAIN w : from(i) \in DOMAIN s \ {at} /\ w[i] = s[from(i)]
    BY <1>0, <2>1, <2>5, <2>6
  <2>8. \A i, j \in DOMAIN w : from(i) = from(j) => i = j
    BY <1>0, <2>1, <2>6
  <2> HIDE DEF from
  <2>9. OnceIn(w)
    BY <2>7, <2>8 DEF OnceIn
  <2>10. ~Server!KeyIn(k, w)
    BY <1>0, <2>1, <2>5, <2>6, <2>7 DEF OnceIn, Server!KeyIn
  <2> QED BY <2>5, <2>9, <2>10 DEF w
<1> QED BY <1>1, <1>2

LEMMA KeptOnce ==
  ASSUME NEW r \in Requests, KeyOf[r] # NoKey,
         order \in [Players -> Seq(Keys)], OrderedOnce
  PROVE  /\ Server!KeptForRoom(r) \in Seq(Keys)
         /\ OnceIn(Server!KeptForRoom(r)) /\ ~Server!KeyIn(KeyOf[r], Server!KeptForRoom(r))
         /\ Append(Server!KeptForRoom(r), KeyOf[r]) \in Seq(Keys)
         /\ OnceIn(Append(Server!KeptForRoom(r), KeyOf[r]))
<1> DEFINE kept == Server!Kept(r)
           room == Server!KeptForRoom(r)
           first == Len(kept) - MaxEntries + 2
<1>0. PlayerOf[r] \in Players /\ KeyOf[r] \in Keys
  BY RequestsAre
<1>1. kept \in Seq(Keys) /\ OnceIn(kept) /\ ~Server!KeyIn(KeyOf[r], kept)
  <2>1. order[PlayerOf[r]] \in Seq(Keys) /\ OnceIn(order[PlayerOf[r]])
    BY <1>0 DEF OrderedOnce, OnceIn
  <2> QED BY <2>1, WithoutKey DEF Server!Kept
<1> HIDE DEF kept
<1>2. Len(kept) \in Nat /\ DOMAIN kept = 1 .. Len(kept) /\ kept \in [1 .. Len(kept) -> Keys]
  BY <1>1, LenProperties
<1>3. room \in Seq(Keys) /\ OnceIn(room) /\ ~Server!KeyIn(KeyOf[r], room)
  <2>1. CASE Len(kept) >= MaxEntries
    <3>0. MaxEntries \in Nat \ {0} BY CallsAssumption
    <3>1. room = SubSeq(kept, first, Len(kept))
      BY <2>1 DEF Server!KeptForRoom, kept
    <3>2. first \in 2 .. Len(kept) + 1
      BY <1>2, <2>1, <3>0
    <3>3. /\ room \in Seq(Keys) /\ Len(room) = Len(kept) - first + 1
          /\ \A i \in 1 .. Len(kept) - first + 1 : room[i] = kept[first + i - 1]
      BY <1>1, <1>2, <3>1, <3>2, SubSeqAt
    <3> HIDE DEF room, first
    <3>5. DOMAIN room = 1 .. Len(room)
      BY <3>3, LenProperties
    <3>6. \A i \in DOMAIN room : room[i] = kept[first + i - 1] /\ first + i - 1 \in DOMAIN kept
      BY <1>2, <3>2, <3>3, <3>5
    <3>7. OnceIn(room)
      BY <1>1, <1>2, <3>2, <3>5, <3>6 DEF OnceIn
    <3>8. ~Server!KeyIn(KeyOf[r], room)
      BY <1>1, <1>2, <3>5, <3>6 DEF Server!KeyIn
    <3> QED BY <3>3, <3>7, <3>8
  <2>2. CASE ~(Len(kept) >= MaxEntries)
    BY <1>1, <2>2 DEF Server!KeptForRoom, kept
  <2> QED BY <2>1, <2>2
<1> HIDE DEF room
<1>4. DEFINE more == Append(room, KeyOf[r])
<1>5. /\ more \in Seq(Keys) /\ Len(room) \in Nat /\ DOMAIN room = 1 .. Len(room)
      /\ DOMAIN more = 1 .. Len(room) + 1
      /\ \A i \in 1 .. Len(room) : more[i] = room[i]
      /\ more[Len(room) + 1] = KeyOf[r]
  BY <1>0, <1>3, AppendProperties, LenProperties
<1> HIDE DEF more
<1>6. OnceIn(more)
  BY <1>3, <1>5 DEF OnceIn, Server!KeyIn
<1> QED BY <1>3, <1>5, <1>6 DEF room, more

-----------------------------------------------------------------------------
(* What the parts of a server step keep.                                   *)

ServerRest ==
  /\ down \in [Players -> Seq([of : Requests, result : Server!Results])]
  /\ departed \subseteq Players
  /\ budget \in [Players -> Budgets \cup {Server!NoState}]
  /\ entries \in [Players -> [Keys -> Requests \cup {NoKey}]]
  /\ order \in [Players -> Seq(Keys)]
  /\ stage \in [Requests -> {"new", "dropped", "shares", "checking", "running", "done"}]
  /\ result \in [Requests -> Server!Results \cup {Server!NoResult}]
  /\ sharers \in [Requests -> Seq(Requests)]
  /\ stale \subseteq Requests /\ ran \subseteq Requests /\ forgotten \subseteq Requests

LEMMA ServerTypeParts ==
  /\ Server!ServerTypeOK <=> up \in [Players -> Seq(Requests)] /\ ServerRest
  /\ (Server!ServerTypeOK <=> up \in [Players -> Seq(Requests)] /\ ServerRest)'
BY DEF Server!ServerTypeOK, ServerRest, Budgets

LEMMA MakeRoomKeeps ==
  ASSUME ServerRest, OrderedOnce, NEW r \in Requests, NEW added \in BOOLEAN,
         ~Server!Remembers(r), Server!MakeRoom(r, added)
  PROVE  /\ entries' \in [Players -> [Keys -> Requests \cup {NoKey}]]
         /\ order' \in [Players -> Seq(Keys)] /\ OrderedOnce'
         /\ forgotten' \subseteq Requests
         /\ \A q \in Requests : KeyOf[q] # NoKey /\ Holds(q) => Holds(q)'
         /\ added /\ KeyOf[r] # NoKey => Holds(r)'
         /\ \A p \in Players \ {PlayerOf[r]} : entries'[p] = entries[p] /\ order'[p] = order[p]
<1>1. CASE KeyOf[r] = NoKey
  <2>1. UNCHANGED <<entries, order, forgotten>>
    BY <1>1 DEF Server!MakeRoom, Server!memoryVars
  <2>2. OrderedOnce' <=> OrderedOnce
    BY <2>1 DEF OrderedOnce
  <2>3. \A q \in Requests : Holds(q)' <=> Holds(q)
    BY <2>1 DEF Holds
  <2> QED BY <1>1, <2>1, <2>2, <2>3 DEF ServerRest
<1>2. CASE KeyOf[r] # NoKey
  <2> DEFINE p == PlayerOf[r]
             room == Server!KeptForRoom(r)
             row == [k \in Keys |-> IF k = KeyOf[r] THEN IF added THEN r ELSE NoKey
                                    ELSE IF Server!KeyIn(k, room) THEN entries[p][k] ELSE NoKey]
             line == IF added THEN Append(room, KeyOf[r]) ELSE room
  <2>1. p \in Players /\ KeyOf[r] \in Keys
    BY <1>2, RequestsAre
  <2>2. /\ room \in Seq(Keys) /\ OnceIn(room) /\ ~Server!KeyIn(KeyOf[r], room)
        /\ line \in Seq(Keys) /\ OnceIn(line)
    BY <1>2, KeptOnce DEF ServerRest
  <2>3. /\ entries' = [entries EXCEPT ![p] = row]
        /\ order' = [order EXCEPT ![p] = line]
        /\ forgotten' = forgotten \cup
             {q \in Requests : \E k \in Keys :
                entries[p][k] = q /\ ~Server!KeyIn(k, room) /\ (k # KeyOf[r] \/ q \in stale)}
    BY <1>2 DEF Server!MakeRoom
  <2>4. row \in [Keys -> Requests \cup {NoKey}]
    BY <2>1 DEF ServerRest
  <2> HIDE DEF room, line
  <2>5. /\ entries' \in [Players -> [Keys -> Requests \cup {NoKey}]]
        /\ entries'[p] = row /\ \A o \in Players \ {p} : entries'[o] = entries[o]
    BY <2>1, <2>3, <2>4 DEF ServerRest
  <2>6. /\ order' \in [Players -> Seq(Keys)]
        /\ order'[p] = line /\ \A o \in Players \ {p} : order'[o] = order[o]
    BY <2>1, <2>2, <2>3 DEF ServerRest
  <2>7. OrderedOnce'
    BY <2>2, <2>6 DEF OrderedOnce, OnceIn
  <2>8. forgotten' \subseteq Requests
    BY <2>3 DEF ServerRest
  <2>9. ASSUME NEW q \in Requests, KeyOf[q] # NoKey, Holds(q)
        PROVE  Holds(q)'
    <3>1. PlayerOf[q] \in Players /\ KeyOf[q] \in Keys
      BY <2>9, RequestsAre
    <3>2. CASE q \in forgotten \/ PlayerOf[q] # p
      BY <2>3, <2>5, <2>9, <3>1, <3>2 DEF Holds
    <3>3. CASE PlayerOf[q] = p /\ entries[p][KeyOf[q]] = q /\ KeyOf[q] = KeyOf[r]
      <4>1. q \in stale
        BY <1>2, <3>3 DEF Server!Remembers
      <4>2. q \in forgotten'
        BY <2>2, <2>3, <3>1, <3>3, <4>1
      <4> QED BY <4>2 DEF Holds
    <3>4. CASE PlayerOf[q] = p /\ entries[p][KeyOf[q]] = q /\ KeyOf[q] # KeyOf[r]
      <4>1. CASE Server!KeyIn(KeyOf[q], room)
        BY <2>5, <3>1, <3>4, <4>1 DEF Holds
      <4>2. CASE ~Server!KeyIn(KeyOf[q], room)
        <5>1. q \in forgotten'
          BY <2>3, <3>1, <3>4, <4>2
        <5> QED BY <5>1 DEF Holds
      <4> QED BY <4>1, <4>2
    <3> QED BY <2>9, <3>2, <3>3, <3>4 DEF Holds
  <2>10. added => Holds(r)'
    BY <2>1, <2>5 DEF Holds
  <2> QED BY <2>5, <2>6, <2>7, <2>8, <2>9, <2>10
<1> QED BY <1>1, <1>2

LEMMA ForgetRefusalKeeps ==
  ASSUME ServerRest, OrderedOnce, Server!NothingForTheGone, NEW r \in Requests,
         Server!ForgetRefusal(r)
  PROVE  /\ entries' \in [Players -> [Keys -> Requests \cup {NoKey}]]
         /\ order' \in [Players -> Seq(Keys)] /\ OrderedOnce'
         /\ forgotten' = forgotten
         /\ \A q \in Requests \ {r} : KeyOf[q] # NoKey /\ Holds(q) => Holds(q)'
         /\ \A p \in departed : entries'[p] = entries[p] /\ order'[p] = order[p]
<1> DEFINE p == PlayerOf[r]
<1>1. CASE KeyOf[r] # NoKey /\ entries[p][KeyOf[r]] = r
  <2>1. p \in Players /\ KeyOf[r] \in Keys
    BY <1>1, RequestsAre
  <2> DEFINE line == Server!Without(order[p], KeyOf[r])
             row == [entries[p] EXCEPT ![KeyOf[r]] = NoKey]
  <2>2. /\ entries' = [entries EXCEPT ![p] = row]
        /\ order' = [order EXCEPT ![p] = line] /\ forgotten' = forgotten
    BY <1>1, <2>1 DEF Server!ForgetRefusal, ServerRest
  <2>3. line \in Seq(Keys) /\ OnceIn(line)
    <3>1. order[p] \in Seq(Keys) /\ OnceIn(order[p])
      BY <2>1 DEF OrderedOnce, OnceIn, ServerRest
    <3> QED BY <3>1, WithoutKey
  <2>4. row \in [Keys -> Requests \cup {NoKey}] /\ \A k \in Keys \ {KeyOf[r]} : row[k] = entries[p][k]
    BY <2>1 DEF ServerRest
  <2> HIDE DEF line, row
  <2>5. /\ entries' \in [Players -> [Keys -> Requests \cup {NoKey}]]
        /\ entries'[p] = row /\ \A o \in Players \ {p} : entries'[o] = entries[o]
    BY <2>1, <2>2, <2>4 DEF ServerRest
  <2>6. /\ order' \in [Players -> Seq(Keys)]
        /\ order'[p] = line /\ \A o \in Players \ {p} : order'[o] = order[o]
    BY <2>1, <2>2, <2>3 DEF ServerRest
  <2>7. OrderedOnce'
    BY <2>3, <2>6 DEF OrderedOnce, OnceIn
  <2>8. ASSUME NEW q \in Requests \ {r}, KeyOf[q] # NoKey, Holds(q)
        PROVE  Holds(q)'
    <3>1. PlayerOf[q] \in Players /\ KeyOf[q] \in Keys
      BY <2>8, RequestsAre
    <3> QED BY <1>1, <2>1, <2>2, <2>4, <2>5, <2>8, <3>1 DEF Holds
  <2>9. p \notin departed
    BY <1>1, <2>1, CallsAssumption DEF Server!NothingForTheGone
  <2> QED BY <2>2, <2>5, <2>6, <2>7, <2>8, <2>9 DEF ServerRest
<1>2. CASE ~(KeyOf[r] # NoKey /\ entries[p][KeyOf[r]] = r)
  <2>1. UNCHANGED <<entries, order, forgotten>>
    BY <1>2 DEF Server!ForgetRefusal, Server!memoryVars
  <2>2. OrderedOnce' <=> OrderedOnce
    BY <2>1 DEF OrderedOnce
  <2>3. \A q \in Requests : Holds(q)' <=> Holds(q)
    BY <2>1 DEF Holds
  <2> QED BY <2>1, <2>2, <2>3 DEF ServerRest
<1> QED BY <1>1, <1>2

(* What is settled stays as it is, and only a checked request runs.        *)
Moves ==
  /\ \A q \in Requests : stage[q] = "done" => stage'[q] = "done" /\ result'[q] = result[q]
  /\ \A q \in ran' : q \in ran \/ stage[q] = "checking"

LEMMA SharesKept ==
  ASSUME ServerRest, SharesOne, sharers' = sharers,
         \A q \in Requests : stage[q] = "shares" => stage'[q] = "shares"
  PROVE  SharesOne'
<1>1. ASSUME NEW r \in Requests, NEW i \in DOMAIN sharers[r] PROVE sharers[r][i] \in Requests
  <2>1. sharers[r] \in Seq(Requests) BY DEF ServerRest
  <2> QED BY <2>1, ElementOfSeq, LenProperties
<1> QED BY <1>1 DEF SharesOne

LEMMA AnswersKept ==
  ASSUME ServerRest, AnswersTrue, Moves, NEW p \in Players, NEW i \in DOMAIN down[p]
  PROVE  /\ down[p][i] \in [of : Requests, result : Server!Results]
         /\ stage'[down[p][i].of] = "done" /\ result'[down[p][i].of] = down[p][i].result
<1>1. down[p] \in Seq([of : Requests, result : Server!Results]) BY DEF ServerRest
<1>2. down[p][i] \in [of : Requests, result : Server!Results]
  BY <1>1, ElementOfSeq, LenProperties
<1> QED BY <1>2 DEF AnswersTrue, Moves

LEMMA RespondTrue ==
  ASSUME ServerRest, AnswersTrue, Moves, NEW p \in Players, NEW rs \in Seq(Requests),
         NEW res \in Server!Results, Server!Respond(p, rs, res),
         \A i \in DOMAIN rs : stage'[rs[i]] = "done" /\ result'[rs[i]] = res
  PROVE  down' \in [Players -> Seq([of : Requests, result : Server!Results])] /\ AnswersTrue'
<1> DEFINE Answered == [of : Requests, result : Server!Results]
           more == Server!Responses(rs, res)
<1>0. Len(rs) \in Nat /\ DOMAIN rs = 1 .. Len(rs) /\ rs \in [1 .. Len(rs) -> Requests]
  BY LenProperties
<1>1. /\ more \in Seq(Answered)
      /\ \A i \in DOMAIN more : more[i].of = rs[i] /\ more[i].result = res /\ i \in DOMAIN rs
  <2>1. CASE rs[1] \in OneWay
    <3>1. more = <<>> BY <2>1 DEF Server!Responses
    <3> QED BY <3>1
  <2>2. CASE rs[1] \notin OneWay
    <3>1. more = [i \in 1 .. Len(rs) |-> [of |-> rs[i], result |-> res]]
      BY <2>2 DEF Server!Responses, Server!Response
    <3>2. more \in [1 .. Len(rs) -> Answered]
      BY <1>0, <3>1
    <3>3. more \in Seq(Answered)
      <4> HIDE DEF more, Answered
      <4> QED BY <1>0, <3>2, SeqDef
    <3>4. DOMAIN more = DOMAIN rs
      BY <1>0, <3>2
    <3>5. \A i \in DOMAIN rs : more[i].of = rs[i] /\ more[i].result = res
      BY <1>0, <3>1
    <3> HIDE DEF more
    <3> QED BY <3>3, <3>4, <3>5
  <2> QED BY <2>1, <2>2
<1>2. CASE p \in departed
  <2>1. down' = down BY <1>2 DEF Server!Respond
  <2> QED BY <2>1, AnswersKept, ZenonT(30) DEF ServerRest, AnswersTrue
<1>3. CASE p \notin departed
  <2> HIDE DEF more
  <2>1. down' = [down EXCEPT ![p] = down[p] \o more]
    BY <1>3 DEF Server!Respond, more
  <2>2. down[p] \in Seq(Answered) BY DEF ServerRest
  <2> DEFINE line == down[p] \o more
  <2>3. /\ line \in Seq(Answered) /\ Len(line) = Len(down[p]) + Len(more)
        /\ \A i \in 1 .. Len(down[p]) + Len(more) :
             line[i] = IF i <= Len(down[p]) THEN down[p][i] ELSE more[i - Len(down[p])]
    BY <1>1, <2>2, ConcatProperties
  <2>4. /\ DOMAIN line = 1 .. Len(line) /\ Len(down[p]) \in Nat /\ Len(more) \in Nat
        /\ DOMAIN down[p] = 1 .. Len(down[p]) /\ DOMAIN more = 1 .. Len(more)
    BY <1>1, <2>2, <2>3, LenProperties
  <2> HIDE DEF line
  <2>5. ASSUME NEW i \in DOMAIN line
        PROVE  stage'[line[i].of] = "done" /\ result'[line[i].of] = line[i].result
    <3>1. CASE i <= Len(down[p])
      <4>1. i \in DOMAIN down[p] /\ line[i] = down[p][i] BY <2>3, <2>4, <3>1
      <4> QED BY <4>1, AnswersKept
    <3>2. CASE ~(i <= Len(down[p]))
      <4>1. i - Len(down[p]) \in DOMAIN more /\ line[i] = more[i - Len(down[p])]
        BY <2>3, <2>4, <3>2, SMTT(30)
      <4> QED BY <1>1, <4>1
    <3> QED BY <3>1, <3>2
  <2>6. /\ down' \in [Players -> Seq(Answered)] /\ down'[p] = line
        /\ \A o \in Players \ {p} : down'[o] = down[o]
    BY <2>1, <2>3 DEF ServerRest, line
  <2>7. ASSUME NEW o \in Players, NEW i \in DOMAIN down'[o]
        PROVE  stage'[down'[o][i].of] = "done" /\ result'[down'[o][i].of] = down'[o][i].result
    <3>1. CASE o = p BY <2>5, <2>6, <3>1
    <3>2. CASE o # p BY <2>6, <3>2, AnswersKept
    <3> QED BY <3>1, <3>2
  <2> QED BY <2>6, <2>7 DEF AnswersTrue
<1> QED BY <1>2, <1>3

LEMMA RespondOneTrue ==
  ASSUME ServerRest, AnswersTrue, Moves, NEW r \in Requests,
         NEW res \in Server!Results, Server!Respond(PlayerOf[r], <<r>>, res),
         stage'[r] = "done" /\ result'[r] = res
  PROVE  down' \in [Players -> Seq([of : Requests, result : Server!Results])] /\ AnswersTrue'
<1> DEFINE rs == <<r>>
<1>1. rs \in Seq(Requests) /\ \A i \in DOMAIN rs : rs[i] = r OBVIOUS
<1>2. Server!Respond(PlayerOf[r], rs, res) OBVIOUS
<1> HIDE DEF rs
<1>3. \A i \in DOMAIN rs : stage'[rs[i]] = "done" /\ result'[rs[i]] = res BY <1>1
<1>4. PlayerOf[r] \in Players BY RequestsAre
<1> QED BY <1>1, <1>2, <1>3, <1>4, RespondTrue

(* The slots, when one dispatch starts, goes on or ends.                   *)
Slotted(r) == stage[r] \in {"checking", "running"}

LEMMA SlotsKept ==
  ASSUME ServerRest, SlotsTaken, NEW r \in Requests,
         departed' = departed,
         \A q \in Requests \ {r} : Slotted(q)' <=> Slotted(q),
         \A p \in Players \ {PlayerOf[r]} : budget'[p] = budget[p],
         \/ Slotted(r)' <=> Slotted(r)
         \/ Slotted(r) /\ ~Slotted(r)'
         \/ ~Slotted(r) /\ Slotted(r)',
         PlayerOf[r] \notin departed =>
           SlotsOf(PlayerOf[r])' =
             SlotsOf(PlayerOf[r]) + (IF Slotted(r)' THEN 1 ELSE 0) - (IF Slotted(r) THEN 1 ELSE 0),
         Slotted(r)' /\ ~Slotted(r) => SlotsOf(PlayerOf[r]) < MaxInFlight
  PROVE  SlotsTaken'
<1>0. PlayerOf[r] \in Players /\ MaxInFlight \in Nat BY RequestsAre, CallsAssumption
<1>1. ASSUME NEW p \in Players \ {PlayerOf[r]} PROVE UnderWay(p)' = UnderWay(p) /\ SlotsOf(p)' = SlotsOf(p)
  BY DEF UnderWay, SlotsOf, Slotted
<1> DEFINE p == PlayerOf[r]
<1>2. CASE Slotted(r)' <=> Slotted(r)
  <2>1. UnderWay(p)' = UnderWay(p) BY <1>2 DEF UnderWay, Slotted
  <2>2. IsFiniteSet(UnderWay(p)) /\ Cardinality(UnderWay(p)) \in Nat
    BY <1>0, FS_CardinalityType DEF SlotsTaken
  <2>3. p \notin departed => SlotsOf(p)' = SlotsOf(p)
    BY <1>0, <1>2, <2>2 DEF SlotsTaken
  <2> QED BY <1>0, <1>1, <2>1, <2>2, <2>3 DEF SlotsTaken
<1>3. CASE Slotted(r) /\ ~Slotted(r)'
  <2>1. UnderWay(p)' = UnderWay(p) \ {r} /\ r \in UnderWay(p)
    BY <1>3 DEF UnderWay, Slotted
  <2>2. IsFiniteSet(UnderWay(p)) /\ Cardinality(UnderWay(p)) \in Nat
    BY <1>0, FS_CardinalityType DEF SlotsTaken
  <2>3. IsFiniteSet(UnderWay(p)') /\ Cardinality(UnderWay(p)') = Cardinality(UnderWay(p)) - 1
    BY <2>1, <2>2, FS_RemoveElement
  <2>4. p \notin departed => SlotsOf(p)' = Cardinality(UnderWay(p)') /\ SlotsOf(p)' <= MaxInFlight
    BY <1>0, <1>3, <2>2, <2>3 DEF SlotsTaken
  <2> QED BY <1>0, <1>1, <2>3, <2>4 DEF SlotsTaken
<1>4. CASE ~Slotted(r) /\ Slotted(r)'
  <2>1. UnderWay(p)' = UnderWay(p) \cup {r} /\ r \notin UnderWay(p)
    BY <1>4 DEF UnderWay, Slotted
  <2>2. IsFiniteSet(UnderWay(p)) /\ Cardinality(UnderWay(p)) \in Nat
    BY <1>0, FS_CardinalityType DEF SlotsTaken
  <2>3. IsFiniteSet(UnderWay(p)') /\ Cardinality(UnderWay(p)') = Cardinality(UnderWay(p)) + 1
    BY <2>1, <2>2, FS_AddElement
  <2>4. p \notin departed => SlotsOf(p)' = Cardinality(UnderWay(p)') /\ SlotsOf(p)' <= MaxInFlight
    BY <1>0, <1>4, <2>2, <2>3 DEF SlotsTaken
  <2> QED BY <1>0, <1>1, <2>3, <2>4 DEF SlotsTaken
<1> QED BY <1>2, <1>3, <1>4

(* A settled request settles whoever shares it too, and no other.          *)
LEMMA SettleKeeps ==
  ASSUME ServerRest, ServerIInv, NEW r \in Requests, NEW res \in Server!Results,
         stage[r] \in {"checking", "running"}, Server!Settle(r, res),
         \A q \in ran' : q \in ran \/ stage[q] = "checking"
  PROVE  /\ stage' \in [Requests -> {"new", "dropped", "shares", "checking", "running", "done"}]
         /\ result' \in [Requests -> Server!Results \cup {Server!NoResult}]
         /\ sharers' \in [Requests -> Seq(Requests)]
         /\ down' \in [Players -> Seq([of : Requests, result : Server!Results])]
         /\ stage'[r] = "done" /\ result'[r] = res
         /\ \A q \in Requests \ {r} : \/ stage'[q] = stage[q] /\ result'[q] = result[q]
                                      \/ stage[q] = "shares" /\ stage'[q] = "done" /\ result'[q] = res
         /\ SharesOne' /\ AnswersTrue' /\ Moves
<1>1. sharers[r] \in Seq(Requests) /\ PlayerOf[r] \in Players
  BY RequestsAre DEF ServerRest
<1>2. /\ Len(sharers[r]) \in Nat /\ DOMAIN sharers[r] = 1 .. Len(sharers[r])
      /\ \A i \in DOMAIN sharers[r] : sharers[r][i] \in Requests
  BY <1>1, LenProperties, ElementOfSeq
<1>3. \A q \in Requests : Server!KeyIn(q, sharers[r]) => stage[q] = "shares"
  BY <1>2 DEF Server!KeyIn, ServerIInv, SharesOne
<1>4. /\ stage' = [q \in Requests |->
            IF q = r \/ Server!KeyIn(q, sharers[r]) THEN "done" ELSE stage[q]]
      /\ result' = [q \in Requests |->
            IF q = r \/ Server!KeyIn(q, sharers[r]) THEN res ELSE result[q]]
      /\ Server!Respond(PlayerOf[r], <<r>> \o sharers[r], res)
      /\ sharers' = [sharers EXCEPT ![r] = <<>>]
  BY DEF Server!Settle
<1>5. /\ stage' \in [Requests -> {"new", "dropped", "shares", "checking", "running", "done"}]
      /\ result' \in [Requests -> Server!Results \cup {Server!NoResult}]
      /\ sharers' \in [Requests -> Seq(Requests)]
  BY <1>4 DEF ServerRest
<1>6. /\ stage'[r] = "done" /\ result'[r] = res
      /\ \A q \in Requests \ {r} : \/ stage'[q] = stage[q] /\ result'[q] = result[q]
                                   \/ stage[q] = "shares" /\ stage'[q] = "done" /\ result'[q] = res
  BY <1>3, <1>4
<1>7. Moves
  BY <1>6 DEF Moves
<1>8. down' \in [Players -> Seq([of : Requests, result : Server!Results])] /\ AnswersTrue'
  <2> DEFINE all == <<r>> \o sharers[r]
  <2>1. <<r>> \in Seq(Requests) /\ Len(<<r>>) = 1 /\ <<r>>[1] = r
    OBVIOUS
  <2>2. /\ all \in Seq(Requests) /\ Len(all) = 1 + Len(sharers[r])
        /\ \A i \in 1 .. 1 + Len(sharers[r]) :
             all[i] = IF i <= 1 THEN <<r>>[i] ELSE sharers[r][i - 1]
    BY <1>1, <2>1, ConcatProperties
  <2> HIDE DEF all
  <2>3. DOMAIN all = 1 .. 1 + Len(sharers[r]) BY <2>2, LenProperties
  <2>4. ASSUME NEW i \in DOMAIN all PROVE stage'[all[i]] = "done" /\ result'[all[i]] = res
    <3>1. CASE i = 1
      BY <1>6, <2>1, <2>2, <2>3, <3>1
    <3>2. CASE i # 1
      <4>1. all[i] = sharers[r][i - 1] /\ i - 1 \in DOMAIN sharers[r]
        BY <1>2, <2>2, <2>3, <3>2
      <4>2. Server!KeyIn(all[i], sharers[r]) /\ all[i] \in Requests
        BY <1>2, <4>1 DEF Server!KeyIn
      <4> QED BY <1>4, <4>2
    <3> QED BY <3>1, <3>2
  <2>5. Server!Respond(PlayerOf[r], all, res) BY <1>4 DEF all
  <2>6. AnswersTrue BY DEF ServerIInv
  <2> QED BY <1>1, <1>7, <2>2, <2>4, <2>5, <2>6, RespondTrue
<1>9. SharesOne'
  <2>1. sharers'[r] = <<>> /\ \A q \in Requests \ {r} : sharers'[q] = sharers[q]
    BY <1>4 DEF ServerRest
  <2>2. ASSUME NEW q \in Requests \ {r}, NEW i \in DOMAIN sharers[q]
        PROVE  stage'[sharers[q][i]] = "shares"
    <3>1. sharers[q][i] \in Requests
      <4>1. sharers[q] \in Seq(Requests) BY DEF ServerRest
      <4> QED BY <4>1, ElementOfSeq, LenProperties
    <3>2. stage[sharers[q][i]] = "shares" BY DEF ServerIInv, SharesOne
    <3>3. ~Server!KeyIn(sharers[q][i], sharers[r])
      BY <1>2 DEF Server!KeyIn, ServerIInv, SharesOne
    <3> QED BY <1>4, <3>1, <3>2, <3>3
  <2> QED BY <2>1, <2>2 DEF ServerIInv, SharesOne
<1> QED BY <1>5, <1>6, <1>7, <1>8, <1>9

-----------------------------------------------------------------------------
(* What each step of the server keeps.                                     *)

ServerKept == ServerRest' /\ ServerIInv' /\ Moves
Reads(r) == \A q \in Requests \ {r} : stage[q] = "new" => stage'[q] = "new"
StaysNew == \A q \in Requests : stage[q] = "new" => stage'[q] = "new"

(* While its player is here, StateFor is the state the guard keeps.        *)
LEMMA ChargeOps ==
  ASSUME ServerRest, NEW p \in Players, Burst \in Nat \ {0}
  PROVE  /\ Server!StateFor(p) \in Budgets /\ Server!StateFor(p).inFlight = SlotsOf(p)
         /\ Server!Admits(p) => /\ Server!Charged(p) \in Budgets
                                /\ Server!Charged(p).inFlight = SlotsOf(p)
                                /\ p \notin departed
<1>1. Server!StateFor(p) \in Budgets /\ Server!StateFor(p).inFlight = SlotsOf(p)
  BY DEF ServerRest, Server!StateFor, SlotsOf, Budgets
<1>2. ASSUME Server!Admits(p)
      PROVE  /\ Server!Charged(p) \in Budgets /\ Server!Charged(p).inFlight = SlotsOf(p)
             /\ p \notin departed
  BY <1>1, <1>2 DEF Server!Admits, Server!Charged, Budgets
<1> QED BY <1>1, <1>2

LEMMA BudgetNotNone == ASSUME NEW state \in Budgets PROVE state # Server!NoState
BY DEF Budgets, Server!NoState

LEMMA DropKeeps ==
  ASSUME ServerRest, ServerIInv, NEW r \in Requests, stage[r] = "new", Server!Drop(r)
  PROVE  ServerKept /\ Reads(r)
<1> DEFINE p == PlayerOf[r]
<1>0. p \in Players BY RequestsAre
<1>1. /\ stage' = [stage EXCEPT ![r] = "dropped"]
      /\ budget' = IF p \in departed THEN budget ELSE [budget EXCEPT ![p] = Server!StateFor(p)]
      /\ UNCHANGED <<down, departed, entries, order, forgotten, stale, result, ran, sharers>>
  BY DEF Server!Drop, Server!memoryVars
<1>2. Server!StateFor(p) \in Budgets /\ Server!StateFor(p).inFlight = SlotsOf(p)
  BY <1>0, ChargeOps, CallsAssumption
<1>3. /\ stage'[r] = "dropped" /\ \A q \in Requests \ {r} : stage'[q] = stage[q]
      /\ \A o \in Players \ {p} : budget'[o] = budget[o]
      /\ p \in departed => budget' = budget
      /\ p \notin departed => SlotsOf(p)' = SlotsOf(p)
  BY <1>0, <1>1, <1>2, BudgetNotNone DEF ServerRest, SlotsOf
<1>4. ServerRest'
  BY <1>1, <1>2 DEF ServerRest
<1>5. Moves /\ Reads(r)
  BY <1>1, <1>3 DEF Moves, Reads
<1>6. SharesOne'
  BY <1>1, <1>3, SharesKept DEF ServerIInv
<1>7. AnswersTrue'
  BY <1>1, <1>5, AnswersKept DEF ServerIInv, AnswersTrue
<1>8. EndsAsRun' /\ Remembered' /\ OrderedOnce'
  BY <1>1, <1>3 DEF ServerIInv, EndsAsRun, Remembered, OrderedOnce, Holds
<1>9. SlotsTaken'
  <2>1. ~Slotted(r) /\ ~Slotted(r)' /\ \A q \in Requests \ {r} : Slotted(q)' <=> Slotted(q)
    BY <1>3 DEF Slotted
  <2>2. p \notin departed => SlotsOf(p) \in Nat
    BY <1>2, ChargeOps DEF Budgets
  <2> QED BY <1>1, <1>3, <2>1, <2>2, SlotsKept DEF ServerIInv
<1>10. Server!NothingForTheGone'
  BY <1>1, <1>3 DEF ServerIInv, Server!NothingForTheGone, ServerRest
<1> QED BY <1>4, <1>5, <1>6, <1>7, <1>8, <1>9, <1>10 DEF ServerKept, ServerIInv

(* A budget charged for r, with a slot more or not.                        *)
LEMMA ChargeKeeps ==
  ASSUME ServerRest, NEW r \in Requests, Server!Admits(PlayerOf[r]),
         NEW state \in Budgets, budget' = [budget EXCEPT ![PlayerOf[r]] = state]
  PROVE  /\ budget' \in [Players -> Budgets \cup {Server!NoState}]
         /\ \A o \in Players \ {PlayerOf[r]} : budget'[o] = budget[o]
         /\ \A o \in departed : budget'[o] = budget[o]
         /\ SlotsOf(PlayerOf[r])' = state.inFlight
         /\ PlayerOf[r] \notin departed /\ PlayerOf[r] \in Players
<1>1. PlayerOf[r] \in Players BY RequestsAre
<1>2. PlayerOf[r] \notin departed BY DEF Server!Admits
<1> QED BY <1>1, <1>2, BudgetNotNone DEF ServerRest, SlotsOf

LEMMA ShareKeeps ==
  ASSUME ServerRest, ServerIInv, NEW r \in Requests, stage[r] = "new", Server!Share(r)
  PROVE  ServerKept /\ Reads(r)
<1> DEFINE p == PlayerOf[r]
           first == entries[p][KeyOf[r]]
<1>0. p \in Players /\ KeyOf[r] \in Keys \cup {NoKey} BY RequestsAre
<1>1. first \in Requests
  BY DEF Server!Share, Server!Remembers
<1>2. /\ Server!Admits(p) /\ budget' = [budget EXCEPT ![p] = Server!Charged(p)]
      /\ UNCHANGED <<departed, entries, order, forgotten, stale, ran>>
  BY DEF Server!Share, Server!memoryVars
<1>3. Server!Charged(p) \in Budgets /\ Server!Charged(p).inFlight = SlotsOf(p)
  BY <1>0, <1>2, ChargeOps, CallsAssumption
<1>4. /\ budget' \in [Players -> Budgets \cup {Server!NoState}]
      /\ \A o \in Players \ {p} : budget'[o] = budget[o]
      /\ \A o \in departed : budget'[o] = budget[o]
      /\ SlotsOf(p)' = SlotsOf(p) /\ p \notin departed
  BY <1>2, <1>3, ChargeKeeps
<1>5. SlotsOf(p) \in Nat BY <1>3 DEF Budgets
<1> HIDE DEF first
<1>6. CASE stage[first] = "done"
  <2>1. /\ stage' = [stage EXCEPT ![r] = "done"]
        /\ result' = [result EXCEPT ![r] = result[first]]
        /\ Server!Respond(p, <<r>>, result[first]) /\ sharers' = sharers
    BY <1>6 DEF Server!Share, first
  <2>2. /\ stage'[r] = "done" /\ \A q \in Requests \ {r} : stage'[q] = stage[q]
        /\ result'[r] = result[first] /\ \A q \in Requests \ {r} : result'[q] = result[q]
        /\ result[first] \in Server!Results
    BY <1>1, <1>6, <2>1 DEF ServerRest, ServerIInv, EndsAsRun
  <2>3. Moves /\ Reads(r)
    BY <1>2, <2>2 DEF Moves, Reads
  <2>4. down' \in [Players -> Seq([of : Requests, result : Server!Results])] /\ AnswersTrue'
    BY <2>1, <2>2, <2>3, RespondOneTrue DEF ServerIInv
  <2>5. ServerRest'
    BY <1>2, <1>4, <2>1, <2>2, <2>4 DEF ServerRest
  <2>6. SharesOne'
    BY <2>1, <2>2, SharesKept DEF ServerIInv
  <2>7. EndsAsRun' /\ Remembered' /\ OrderedOnce'
    <3>1. EndsAsRun'
      BY <1>2, <2>2 DEF ServerRest, ServerIInv, EndsAsRun
    <3>2. Remembered'
      BY <1>2, <2>2 DEF ServerIInv, Remembered, Holds
    <3>3. OrderedOnce'
      BY <1>2 DEF ServerIInv, OrderedOnce
    <3> QED BY <3>1, <3>2, <3>3
  <2>8. SlotsTaken'
    <3>1. ~Slotted(r) /\ ~Slotted(r)' /\ \A q \in Requests \ {r} : Slotted(q)' <=> Slotted(q)
      BY <2>2 DEF Slotted
    <3> QED BY <1>2, <1>4, <1>5, <3>1, SlotsKept DEF ServerIInv
  <2>9. Server!NothingForTheGone'
    BY <1>2, <1>4 DEF ServerIInv, Server!NothingForTheGone
  <2> QED BY <2>3, <2>4, <2>5, <2>6, <2>7, <2>8, <2>9 DEF ServerKept, ServerIInv
<1>7. CASE stage[first] # "done"
  <2>1. /\ stage' = [stage EXCEPT ![r] = "shares"]
        /\ sharers' = [sharers EXCEPT ![first] = Append(sharers[first], r)]
        /\ UNCHANGED <<result, down>>
    BY <1>7 DEF Server!Share, first
  <2>2. stage'[r] = "shares" /\ \A q \in Requests \ {r} : stage'[q] = stage[q]
    BY <2>1 DEF ServerRest
  <2>3. Moves /\ Reads(r)
    BY <1>2, <2>1, <2>2 DEF Moves, Reads
  <2> DEFINE line == Append(sharers[first], r)
  <2>4. sharers[first] \in Seq(Requests)
    BY <1>1 DEF ServerRest
  <2>5. /\ line \in Seq(Requests) /\ DOMAIN sharers[first] = 1 .. Len(sharers[first])
        /\ Len(sharers[first]) \in Nat /\ DOMAIN line = 1 .. Len(sharers[first]) + 1
        /\ \A i \in 1 .. Len(sharers[first]) : line[i] = sharers[first][i]
        /\ line[Len(sharers[first]) + 1] = r
    BY <2>4, AppendProperties, LenProperties
  <2> HIDE DEF line
  <2>6. /\ sharers' \in [Requests -> Seq(Requests)] /\ sharers'[first] = line
        /\ \A q \in Requests \ {first} : sharers'[q] = sharers[q]
    BY <1>1, <2>1, <2>5 DEF ServerRest, line
  <2>7. ServerRest'
    BY <1>2, <1>4, <2>1, <2>6 DEF ServerRest
  <2>8. AnswersTrue'
    BY <2>1, <2>3, AnswersKept DEF ServerIInv, AnswersTrue
  <2>9. EndsAsRun' /\ Remembered' /\ OrderedOnce'
    BY <1>2, <2>1, <2>2 DEF ServerIInv, EndsAsRun, Remembered, OrderedOnce, Holds
  <2>10. SlotsTaken'
    <3>1. ~Slotted(r) /\ ~Slotted(r)' /\ \A q \in Requests \ {r} : Slotted(q)' <=> Slotted(q)
      BY <2>2 DEF Slotted
    <3> QED BY <1>2, <1>4, <1>5, <3>1, SlotsKept DEF ServerIInv
  <2>11. Server!NothingForTheGone'
    BY <1>2, <1>4 DEF ServerIInv, Server!NothingForTheGone
  <2>12. SharesOne'
    <3>1. \A q \in Requests : \A i \in DOMAIN sharers[q] :
            sharers[q][i] \in Requests \ {r} /\ stage[sharers[q][i]] = "shares"
      <4>1. ASSUME NEW q \in Requests, NEW i \in DOMAIN sharers[q] PROVE sharers[q][i] \in Requests
        <5>1. sharers[q] \in Seq(Requests) BY DEF ServerRest
        <5> QED BY <5>1, ElementOfSeq, LenProperties
      <4> QED BY <4>1 DEF ServerIInv, SharesOne
    <3>2. \A q \in Requests : \A i \in DOMAIN sharers'[q] :
            \/ i \in DOMAIN sharers[q] /\ sharers'[q][i] = sharers[q][i]
            \/ q = first /\ sharers'[q][i] = r
      <4>1. \A i \in DOMAIN line : (i \in DOMAIN sharers[first] /\ line[i] = sharers[first][i])
                                   \/ line[i] = r
        BY <2>5
      <4> QED BY <2>6, <4>1
    <3>3. \A q \in Requests : \A i \in DOMAIN sharers'[q] : stage'[sharers'[q][i]] = "shares"
      BY <2>2, <3>1, <3>2
    <3>4. \A q, o \in Requests : \A i \in DOMAIN sharers'[q], j \in DOMAIN sharers'[o] :
            sharers'[q][i] = sharers'[o][j] => q = o
      BY <3>1, <3>2 DEF ServerIInv, SharesOne
    <3> QED BY <3>3, <3>4 DEF SharesOne
  <2> QED BY <2>3, <2>7, <2>8, <2>9, <2>10, <2>11, <2>12 DEF ServerKept, ServerIInv
<1> QED BY <1>6, <1>7

LEMMA TurnAwayKeeps ==
  ASSUME ServerRest, ServerIInv, NEW r \in Requests, stage[r] = "new", Server!TurnAway(r)
  PROVE  ServerKept /\ Reads(r)
<1> DEFINE p == PlayerOf[r]
<1>0. p \in Players BY RequestsAre
<1>1. /\ Server!Admits(p) /\ ~Server!Remembers(r) /\ Server!MakeRoom(r, FALSE)
      /\ budget' = [budget EXCEPT ![p] = Server!Charged(p)]
      /\ stage' = [stage EXCEPT ![r] = "done"] /\ result' = [result EXCEPT ![r] = "busy"]
      /\ Server!Respond(p, <<r>>, "busy")
      /\ UNCHANGED <<departed, stale, ran, sharers>>
  BY DEF Server!TurnAway
<1>2. Server!Charged(p) \in Budgets /\ Server!Charged(p).inFlight = SlotsOf(p)
  BY <1>0, <1>1, ChargeOps, CallsAssumption
<1>3. /\ budget' \in [Players -> Budgets \cup {Server!NoState}]
      /\ \A o \in Players \ {p} : budget'[o] = budget[o]
      /\ \A o \in departed : budget'[o] = budget[o]
      /\ SlotsOf(p)' = SlotsOf(p) /\ p \notin departed /\ SlotsOf(p) \in Nat
  BY <1>1, <1>2, ChargeKeeps DEF Budgets
<1>4. /\ entries' \in [Players -> [Keys -> Requests \cup {NoKey}]]
      /\ order' \in [Players -> Seq(Keys)] /\ OrderedOnce' /\ forgotten' \subseteq Requests
      /\ \A q \in Requests : KeyOf[q] # NoKey /\ Holds(q) => Holds(q)'
      /\ \A o \in Players \ {p} : entries'[o] = entries[o] /\ order'[o] = order[o]
  BY <1>1, MakeRoomKeeps DEF ServerIInv
<1>5. /\ stage'[r] = "done" /\ \A q \in Requests \ {r} : stage'[q] = stage[q]
      /\ result'[r] = "busy" /\ \A q \in Requests \ {r} : result'[q] = result[q]
      /\ "busy" \in Server!Results
  BY <1>1 DEF ServerRest, Server!Results, Server!Refusals
<1>6. Moves /\ Reads(r)
  BY <1>1, <1>5 DEF Moves, Reads
<1>7. down' \in [Players -> Seq([of : Requests, result : Server!Results])] /\ AnswersTrue'
  BY <1>1, <1>5, <1>6, RespondOneTrue DEF ServerIInv
<1>8. ServerRest'
  BY <1>1, <1>3, <1>4, <1>5, <1>7 DEF ServerRest
<1>9. SharesOne'
  BY <1>1, <1>5, SharesKept DEF ServerIInv
<1>10. EndsAsRun' /\ Remembered'
  BY <1>1, <1>4, <1>5 DEF ServerIInv, EndsAsRun, Remembered
<1>11. SlotsTaken'
  <2>1. ~Slotted(r) /\ ~Slotted(r)' /\ \A q \in Requests \ {r} : Slotted(q)' <=> Slotted(q)
    BY <1>5 DEF Slotted
  <2> QED BY <1>1, <1>3, <2>1, SlotsKept DEF ServerIInv
<1>12. Server!NothingForTheGone'
  BY <1>1, <1>3, <1>4 DEF ServerIInv, Server!NothingForTheGone, ServerRest
<1> QED BY <1>4, <1>6, <1>7, <1>8, <1>9, <1>10, <1>11, <1>12 DEF ServerKept, ServerIInv

LEMMA StartKeeps ==
  ASSUME ServerRest, ServerIInv, NEW r \in Requests, stage[r] = "new", Server!Start(r)
  PROVE  ServerKept /\ Reads(r)
<1> DEFINE p == PlayerOf[r]
           state == [Server!Charged(p) EXCEPT !.inFlight = Server!Charged(p).inFlight + 1]
<1>0. p \in Players BY RequestsAre
<1>1. /\ Server!Admits(p) /\ ~Server!Remembers(r) /\ Server!MakeRoom(r, TRUE)
      /\ Server!Begins(p) /\ budget' = [budget EXCEPT ![p] = state]
      /\ stage' = [stage EXCEPT ![r] = "checking"]
      /\ UNCHANGED <<down, departed, stale, result, ran, sharers>>
  BY DEF Server!Start
<1>2. /\ Server!Charged(p) \in Budgets /\ Server!Charged(p).inFlight = SlotsOf(p)
      /\ SlotsOf(p) < MaxInFlight
  BY <1>0, <1>1, ChargeOps, CallsAssumption DEF Server!Begins
<1>3. state \in Budgets /\ state.inFlight = SlotsOf(p) + 1 /\ SlotsOf(p) \in Nat
  BY <1>2 DEF Budgets
<1> HIDE DEF state
<1>4. /\ budget' \in [Players -> Budgets \cup {Server!NoState}]
      /\ \A o \in Players \ {p} : budget'[o] = budget[o]
      /\ \A o \in departed : budget'[o] = budget[o]
      /\ SlotsOf(p)' = SlotsOf(p) + 1 /\ p \notin departed
  BY <1>1, <1>3, ChargeKeeps
<1>5. /\ entries' \in [Players -> [Keys -> Requests \cup {NoKey}]]
      /\ order' \in [Players -> Seq(Keys)] /\ OrderedOnce' /\ forgotten' \subseteq Requests
      /\ \A q \in Requests : KeyOf[q] # NoKey /\ Holds(q) => Holds(q)'
      /\ KeyOf[r] # NoKey => Holds(r)'
      /\ \A o \in Players \ {p} : entries'[o] = entries[o] /\ order'[o] = order[o]
  BY <1>1, MakeRoomKeeps DEF ServerIInv
<1>6. stage'[r] = "checking" /\ \A q \in Requests \ {r} : stage'[q] = stage[q]
  BY <1>1 DEF ServerRest
<1>7. Moves /\ Reads(r)
  BY <1>1, <1>6 DEF Moves, Reads
<1>8. ServerRest'
  BY <1>1, <1>4, <1>5 DEF ServerRest
<1>9. SharesOne'
  BY <1>1, <1>6, SharesKept DEF ServerIInv
<1>10. AnswersTrue'
  BY <1>1, <1>7, AnswersKept DEF ServerIInv, AnswersTrue
<1>11. EndsAsRun' /\ Remembered'
  BY <1>1, <1>5, <1>6 DEF ServerIInv, EndsAsRun, Remembered
<1>12. SlotsTaken'
  <2>1. ~Slotted(r) /\ Slotted(r)' /\ \A q \in Requests \ {r} : Slotted(q)' <=> Slotted(q)
    BY <1>6 DEF Slotted
  <2> QED BY <1>1, <1>2, <1>3, <1>4, <2>1, SlotsKept DEF ServerIInv
<1>13. Server!NothingForTheGone'
  BY <1>1, <1>4, <1>5 DEF ServerIInv, Server!NothingForTheGone, ServerRest
<1> QED BY <1>5, <1>7, <1>8, <1>9, <1>10, <1>11, <1>12, <1>13 DEF ServerKept, ServerIInv

LEMMA RunKeeps ==
  ASSUME ServerRest, ServerIInv, NEW r \in Requests, Server!Run(r)
  PROVE  ServerKept /\ StaysNew /\ up' = up
<1> DEFINE p == PlayerOf[r]
<1>0. p \in Players BY RequestsAre
<1>1. /\ stage[r] = "checking" /\ stage' = [stage EXCEPT ![r] = "running"]
      /\ ran' = ran \cup {r}
      /\ budget' = [budget EXCEPT ![p] = Server!Refunded(r, budget[p])]
      /\ UNCHANGED <<up, down, departed, entries, order, forgotten, stale, result, sharers>>
  BY DEF Server!Run, Server!memoryVars
<1>2. /\ budget[p] \in Budgets \cup {Server!NoState}
      /\ Server!Refunded(r, budget[p]) \in Budgets \cup {Server!NoState}
      /\ Server!Refunded(r, budget[p]) = Server!NoState <=> budget[p] = Server!NoState
      /\ Server!Refunded(r, budget[p]).inFlight = budget[p].inFlight
  BY <1>0, BudgetOps DEF ServerRest
<1>3. /\ stage'[r] = "running" /\ \A q \in Requests \ {r} : stage'[q] = stage[q]
      /\ budget' \in [Players -> Budgets \cup {Server!NoState}]
      /\ \A o \in Players \ {p} : budget'[o] = budget[o]
      /\ budget[p] = Server!NoState => budget'[p] = Server!NoState
      /\ SlotsOf(p)' = SlotsOf(p)
  BY <1>0, <1>1, <1>2 DEF ServerRest, SlotsOf
<1>4. ServerRest'
  BY <1>1, <1>3 DEF ServerRest
<1>5. Moves /\ StaysNew
  BY <1>1, <1>3 DEF Moves, StaysNew
<1>6. SharesOne'
  BY <1>1, <1>3, SharesKept DEF ServerIInv
<1>7. AnswersTrue'
  BY <1>1, <1>5, AnswersKept DEF ServerIInv, AnswersTrue
<1>8. EndsAsRun'
  BY <1>1, <1>3 DEF ServerIInv, EndsAsRun, ServerRest
<1>9. Remembered' /\ OrderedOnce'
  BY <1>1, <1>3 DEF ServerIInv, Remembered, OrderedOnce, Holds
<1>10. SlotsTaken'
  <2>1. Slotted(r) /\ Slotted(r)' /\ \A q \in Requests \ {r} : Slotted(q)' <=> Slotted(q)
    BY <1>1, <1>3 DEF Slotted
  <2>2. p \notin departed => SlotsOf(p) \in Nat
    BY <1>0 DEF ServerRest, SlotsOf, Budgets
  <2> QED BY <1>1, <1>3, <2>1, <2>2, SlotsKept DEF ServerIInv
<1>11. Server!NothingForTheGone'
  BY <1>1, <1>3 DEF ServerIInv, Server!NothingForTheGone, ServerRest
<1> QED BY <1>1, <1>4, <1>5, <1>6, <1>7, <1>8, <1>9, <1>10, <1>11 DEF ServerKept, ServerIInv

(* The slot given back when r settles is one that r had.                   *)
LEMMA FinishedSlot ==
  ASSUME ServerRest, ServerIInv, NEW r \in Requests, Slotted(r),
         NEW state \in Budgets \cup {Server!NoState},
         state = Server!NoState <=> budget[PlayerOf[r]] = Server!NoState,
         state.inFlight = budget[PlayerOf[r]].inFlight,
         budget' = [budget EXCEPT ![PlayerOf[r]] = Server!Finished(state)],
         departed' = departed
  PROVE  /\ budget' \in [Players -> Budgets \cup {Server!NoState}]
         /\ \A o \in Players \ {PlayerOf[r]} : budget'[o] = budget[o]
         /\ budget[PlayerOf[r]] = Server!NoState => budget'[PlayerOf[r]] = Server!NoState
         /\ PlayerOf[r] \notin departed => SlotsOf(PlayerOf[r])' = SlotsOf(PlayerOf[r]) - 1
<1> DEFINE p == PlayerOf[r]
<1>0. p \in Players BY RequestsAre
<1>1. /\ Server!Finished(state) \in Budgets \cup {Server!NoState}
      /\ Server!Finished(state) = Server!NoState <=> state = Server!NoState
      /\ state \in Budgets => Server!Finished(state).inFlight =
           IF state.inFlight > 0 THEN state.inFlight - 1 ELSE 0
  BY BudgetOps
<1>2. /\ budget' \in [Players -> Budgets \cup {Server!NoState}]
      /\ budget'[p] = Server!Finished(state)
      /\ \A o \in Players \ {p} : budget'[o] = budget[o]
  BY <1>0, <1>1 DEF ServerRest
<1>3. ASSUME p \notin departed PROVE SlotsOf(p)' = SlotsOf(p) - 1
  <2>1. IsFiniteSet(UnderWay(p)) /\ SlotsOf(p) = Cardinality(UnderWay(p))
    BY <1>0, <1>3 DEF ServerIInv, SlotsTaken
  <2>2. r \in UnderWay(p)
    BY DEF UnderWay, Slotted
  <2>3. SlotsOf(p) \in Nat /\ SlotsOf(p) # 0
    BY <2>1, <2>2, FS_CardinalityType, FS_EmptySet
  <2>4. budget[p] # Server!NoState /\ SlotsOf(p) = budget[p].inFlight
    BY <2>3 DEF SlotsOf
  <2>5. state \in Budgets /\ state.inFlight = SlotsOf(p)
    BY <2>4
  <2>6. budget'[p] # Server!NoState /\ budget'[p].inFlight = SlotsOf(p) - 1
    BY <1>1, <1>2, <2>3, <2>4, <2>5
  <2> QED BY <2>6 DEF SlotsOf
<1> QED BY <1>1, <1>2, <1>3

LEMMA RefuseKeeps ==
  ASSUME ServerRest, ServerIInv, NEW r \in Requests,
         NEW why \in {"limited", "invalid", "forbidden"}, Server!Refuse(r, why)
  PROVE  ServerKept /\ StaysNew /\ up' = up
<1> DEFINE p == PlayerOf[r]
           state == IF why = "forbidden" THEN Server!Refunded(r, budget[p]) ELSE budget[p]
<1>0. p \in Players /\ why \in Server!Results
  BY RequestsAre DEF Server!Results, Server!Refusals
<1>1. /\ stage[r] = "checking" /\ Server!Settle(r, why) /\ Server!ForgetRefusal(r)
      /\ budget' = [budget EXCEPT ![p] = Server!Finished(state)]
      /\ UNCHANGED <<up, departed, stale, ran>>
  BY DEF Server!Refuse
<1>2. /\ state \in Budgets \cup {Server!NoState}
      /\ state = Server!NoState <=> budget[p] = Server!NoState
      /\ state.inFlight = budget[p].inFlight
  <2>1. budget[p] \in Budgets \cup {Server!NoState}
    BY <1>0 DEF ServerRest
  <2>2. /\ Server!Refunded(r, budget[p]) \in Budgets \cup {Server!NoState}
        /\ Server!Refunded(r, budget[p]) = Server!NoState <=> budget[p] = Server!NoState
        /\ Server!Refunded(r, budget[p]).inFlight = budget[p].inFlight
    BY <2>1, BudgetOps
  <2> QED BY <2>1, <2>2
<1> HIDE DEF state
<1>3. /\ budget' \in [Players -> Budgets \cup {Server!NoState}]
      /\ \A o \in Players \ {p} : budget'[o] = budget[o]
      /\ budget[p] = Server!NoState => budget'[p] = Server!NoState
      /\ p \notin departed => SlotsOf(p)' = SlotsOf(p) - 1
  BY <1>1, <1>2, FinishedSlot DEF Slotted
<1>4. /\ entries' \in [Players -> [Keys -> Requests \cup {NoKey}]]
      /\ order' \in [Players -> Seq(Keys)] /\ OrderedOnce' /\ forgotten' = forgotten
      /\ \A q \in Requests \ {r} : KeyOf[q] # NoKey /\ Holds(q) => Holds(q)'
      /\ \A o \in departed : entries'[o] = entries[o] /\ order'[o] = order[o]
  BY <1>1, ForgetRefusalKeeps DEF ServerIInv
<1>5. /\ stage' \in [Requests -> {"new", "dropped", "shares", "checking", "running", "done"}]
      /\ result' \in [Requests -> Server!Results \cup {Server!NoResult}]
      /\ sharers' \in [Requests -> Seq(Requests)]
      /\ down' \in [Players -> Seq([of : Requests, result : Server!Results])]
      /\ stage'[r] = "done" /\ result'[r] = why
      /\ \A q \in Requests \ {r} : \/ stage'[q] = stage[q] /\ result'[q] = result[q]
                                   \/ stage[q] = "shares" /\ stage'[q] = "done" /\ result'[q] = why
      /\ SharesOne' /\ AnswersTrue' /\ Moves
  BY <1>0, <1>1, SettleKeeps
<1>6. ServerRest'
  BY <1>1, <1>3, <1>4, <1>5 DEF ServerRest
<1>7. StaysNew
  BY <1>1, <1>5 DEF StaysNew
<1>8. EndsAsRun'
  BY <1>0, <1>1, <1>5 DEF ServerIInv, EndsAsRun, ServerRest
<1>9. Remembered'
  <2>1. r \notin ran
    BY <1>1 DEF ServerIInv, EndsAsRun
  <2> QED BY <1>1, <1>4, <1>5, <2>1 DEF ServerIInv, Remembered
<1>10. SlotsTaken'
  <2>1. Slotted(r) /\ ~Slotted(r)' /\ \A q \in Requests \ {r} : Slotted(q)' <=> Slotted(q)
    BY <1>1, <1>5 DEF Slotted
  <2>2. p \notin departed => SlotsOf(p) \in Nat
    BY <1>0 DEF ServerRest, SlotsOf, Budgets
  <2> QED BY <1>1, <1>3, <2>1, <2>2, SlotsKept DEF ServerIInv
<1>11. Server!NothingForTheGone'
  BY <1>1, <1>3, <1>4 DEF ServerIInv, Server!NothingForTheGone, ServerRest
<1> QED BY <1>1, <1>4, <1>5, <1>6, <1>7, <1>8, <1>9, <1>10, <1>11 DEF ServerKept, ServerIInv

LEMMA FinishKeeps ==
  ASSUME ServerRest, ServerIInv, NEW r \in Requests, NEW res \in {"ok", "failed"},
         Server!Finish(r, res)
  PROVE  ServerKept /\ StaysNew /\ up' = up
<1> DEFINE p == PlayerOf[r]
<1>0. p \in Players /\ res \in Server!Results
  BY RequestsAre DEF Server!Results
<1>1. /\ stage[r] = "running" /\ Server!Settle(r, res)
      /\ budget' = [budget EXCEPT ![p] = Server!Finished(budget[p])]
      /\ UNCHANGED <<up, departed, entries, order, forgotten, stale, ran>>
  BY DEF Server!Finish, Server!memoryVars
<1>2. budget[p] \in Budgets \cup {Server!NoState}
  BY <1>0 DEF ServerRest
<1>3. /\ budget' \in [Players -> Budgets \cup {Server!NoState}]
      /\ \A o \in Players \ {p} : budget'[o] = budget[o]
      /\ budget[p] = Server!NoState => budget'[p] = Server!NoState
      /\ p \notin departed => SlotsOf(p)' = SlotsOf(p) - 1
  BY <1>1, <1>2, FinishedSlot DEF Slotted
<1>5. /\ stage' \in [Requests -> {"new", "dropped", "shares", "checking", "running", "done"}]
      /\ result' \in [Requests -> Server!Results \cup {Server!NoResult}]
      /\ sharers' \in [Requests -> Seq(Requests)]
      /\ down' \in [Players -> Seq([of : Requests, result : Server!Results])]
      /\ stage'[r] = "done" /\ result'[r] = res
      /\ \A q \in Requests \ {r} : \/ stage'[q] = stage[q] /\ result'[q] = result[q]
                                   \/ stage[q] = "shares" /\ stage'[q] = "done" /\ result'[q] = res
      /\ SharesOne' /\ AnswersTrue' /\ Moves
  BY <1>0, <1>1, SettleKeeps
<1>6. ServerRest'
  BY <1>1, <1>3, <1>5 DEF ServerRest
<1>7. StaysNew
  BY <1>1, <1>5 DEF StaysNew
<1>8. EndsAsRun'
  BY <1>0, <1>1, <1>5 DEF ServerIInv, EndsAsRun, ServerRest
<1>9. Remembered' /\ OrderedOnce'
  BY <1>1, <1>5 DEF ServerIInv, Remembered, OrderedOnce, Holds
<1>10. SlotsTaken'
  <2>1. Slotted(r) /\ ~Slotted(r)' /\ \A q \in Requests \ {r} : Slotted(q)' <=> Slotted(q)
    BY <1>1, <1>5 DEF Slotted
  <2>2. p \notin departed => SlotsOf(p) \in Nat
    BY <1>0 DEF ServerRest, SlotsOf, Budgets
  <2> QED BY <1>1, <1>3, <2>1, <2>2, SlotsKept DEF ServerIInv
<1>11. Server!NothingForTheGone'
  BY <1>1, <1>3 DEF ServerIInv, Server!NothingForTheGone, ServerRest
<1> QED BY <1>1, <1>5, <1>6, <1>7, <1>8, <1>9, <1>10, <1>11 DEF ServerKept, ServerIInv

LEMMA RefillKeeps ==
  ASSUME ServerRest, ServerIInv, NEW p \in Players, Server!Refill(p)
  PROVE  ServerKept /\ StaysNew /\ up' = up
<1>1. /\ budget[p] # Server!NoState
      /\ budget' = [budget EXCEPT ![p] = Server!WithToken(budget[p])]
      /\ UNCHANGED <<up, down, departed, entries, order, forgotten, stale, stage, result, ran, sharers>>
  BY DEF Server!Refill, Server!memoryVars, Server!callVars
<1>2. /\ budget[p] \in Budgets
      /\ Server!WithToken(budget[p]) \in Budgets
      /\ Server!WithToken(budget[p]).inFlight = budget[p].inFlight
  BY <1>1, BudgetOps DEF ServerRest
<1>3. /\ budget' \in [Players -> Budgets \cup {Server!NoState}]
      /\ \A o \in Players \ {p} : budget'[o] = budget[o]
      /\ \A o \in Players : SlotsOf(o)' = SlotsOf(o)
      /\ p \notin departed
  BY <1>1, <1>2, BudgetNotNone DEF ServerRest, SlotsOf, ServerIInv, Server!NothingForTheGone
<1>4. ServerRest' /\ Moves /\ StaysNew
  BY <1>1, <1>3 DEF ServerRest, Moves, StaysNew
<1>5. SharesOne' /\ EndsAsRun' /\ Remembered' /\ OrderedOnce'
  BY <1>1 DEF ServerIInv, SharesOne, EndsAsRun, Remembered, OrderedOnce, Holds
<1>6. AnswersTrue'
  BY <1>1 DEF ServerIInv, AnswersTrue
<1>7. SlotsTaken'
  <2>1. \A o \in Players : UnderWay(o)' = UnderWay(o)
    BY <1>1 DEF UnderWay
  <2> QED BY <1>1, <1>3, <2>1 DEF ServerIInv, SlotsTaken
<1>8. Server!NothingForTheGone'
  BY <1>1, <1>3 DEF ServerIInv, Server!NothingForTheGone, ServerRest
<1> QED BY <1>1, <1>4, <1>5, <1>6, <1>7, <1>8 DEF ServerKept, ServerIInv

LEMMA LapseKeeps ==
  ASSUME ServerRest, ServerIInv, NEW r \in Requests, Server!Lapse(r)
  PROVE  ServerKept /\ StaysNew /\ up' = up
<1>1. /\ stale' = stale \cup {r}
      /\ UNCHANGED <<up, down, departed, budget, entries, order, forgotten, stage, result, ran, sharers>>
  BY DEF Server!Lapse, Server!guardVars, Server!memoryVars, Server!callVars
<1>2. ServerRest' /\ Moves /\ StaysNew
  BY <1>1 DEF ServerRest, Moves, StaysNew
<1>3. SharesOne' /\ EndsAsRun' /\ Remembered' /\ OrderedOnce'
  BY <1>1 DEF ServerIInv, SharesOne, EndsAsRun, Remembered, OrderedOnce, Holds
<1>4. AnswersTrue' /\ Server!NothingForTheGone'
  BY <1>1 DEF ServerIInv, AnswersTrue, Server!NothingForTheGone
<1>5. SlotsTaken'
  BY <1>1 DEF ServerIInv, SlotsTaken, UnderWay, SlotsOf
<1> QED BY <1>1, <1>2, <1>3, <1>4, <1>5 DEF ServerKept, ServerIInv

LEMMA LeaveKeeps ==
  ASSUME ServerRest, ServerIInv, NEW p \in Players, Server!Leave(p)
  PROVE  ServerKept /\ StaysNew /\ up' = up
<1> DEFINE none == [k \in Keys |-> NoKey]
           gone == {entries[p][k] : k \in {j \in Keys : entries[p][j] # NoKey}}
<1>1. /\ departed' = departed \cup {p}
      /\ budget' = [budget EXCEPT ![p] = Server!NoState]
      /\ entries' = [entries EXCEPT ![p] = none]
      /\ order' = [order EXCEPT ![p] = <<>>]
      /\ forgotten' = forgotten \cup gone
      /\ down' = [down EXCEPT ![p] = <<>>]
      /\ UNCHANGED <<up, stale, stage, result, ran, sharers>>
  BY DEF Server!Leave, Server!Forget, Server!callVars
<1>2. none \in [Keys -> Requests \cup {NoKey}] /\ \A k \in Keys : none[k] = NoKey
  OBVIOUS
<1>3. gone \subseteq Requests
  BY DEF ServerRest
<1>4. \A q \in Requests : PlayerOf[q] = p /\ KeyOf[q] \in Keys /\ entries[p][KeyOf[q]] = q => q \in gone
  BY CallsAssumption
<1> HIDE DEF none, gone
<1>5. /\ budget' \in [Players -> Budgets \cup {Server!NoState}]
      /\ entries' \in [Players -> [Keys -> Requests \cup {NoKey}]]
      /\ order' \in [Players -> Seq(Keys)]
      /\ down' \in [Players -> Seq([of : Requests, result : Server!Results])]
      /\ budget'[p] = Server!NoState /\ entries'[p] = none /\ order'[p] = <<>> /\ down'[p] = <<>>
      /\ \A o \in Players \ {p} : /\ budget'[o] = budget[o] /\ entries'[o] = entries[o]
                                  /\ order'[o] = order[o] /\ down'[o] = down[o]
  <2>1. /\ budget' \in [Players -> Budgets \cup {Server!NoState}]
        /\ budget'[p] = Server!NoState /\ \A o \in Players \ {p} : budget'[o] = budget[o]
    BY <1>1 DEF ServerRest
  <2>2. /\ entries' \in [Players -> [Keys -> Requests \cup {NoKey}]]
        /\ entries'[p] = none /\ \A o \in Players \ {p} : entries'[o] = entries[o]
    BY <1>1, <1>2 DEF ServerRest
  <2>3. <<>> \in Seq(Keys) /\ <<>> \in Seq([of : Requests, result : Server!Results])
    BY EmptySeq
  <2>4. /\ order' \in [Players -> Seq(Keys)]
        /\ order'[p] = <<>> /\ \A o \in Players \ {p} : order'[o] = order[o]
    BY <1>1, <2>3 DEF ServerRest
  <2>5. /\ down' \in [Players -> Seq([of : Requests, result : Server!Results])]
        /\ down'[p] = <<>> /\ \A o \in Players \ {p} : down'[o] = down[o]
    BY <1>1, <2>3 DEF ServerRest
  <2> QED BY <2>1, <2>2, <2>4, <2>5
<1>6. ServerRest'
  BY <1>1, <1>3, <1>5 DEF ServerRest
<1>7. Moves /\ StaysNew
  BY <1>1 DEF Moves, StaysNew
<1>8. SharesOne' /\ EndsAsRun'
  BY <1>1 DEF ServerIInv, SharesOne, EndsAsRun
<1>9. AnswersTrue'
  <2>1. \A o \in Players : \A i \in DOMAIN down'[o] : o # p
    BY <1>5
  <2> QED BY <1>1, <1>5, <2>1 DEF ServerIInv, AnswersTrue
<1>10. Remembered'
  <2>1. ASSUME NEW q \in Requests, KeyOf[q] # NoKey, Holds(q) PROVE Holds(q)'
    <3>1. PlayerOf[q] \in Players /\ KeyOf[q] \in Keys
      BY <2>1, RequestsAre
    <3>2. CASE q \in forgotten
      BY <1>1, <3>2 DEF Holds
    <3>3. CASE PlayerOf[q] = p /\ entries[p][KeyOf[q]] = q
      BY <1>1, <1>4, <3>1, <3>3 DEF Holds
    <3>4. CASE PlayerOf[q] # p
      BY <1>1, <1>5, <2>1, <3>1, <3>4 DEF Holds
    <3> QED BY <2>1, <3>2, <3>3, <3>4 DEF Holds
  <2> QED BY <1>1, <2>1 DEF ServerIInv, Remembered
<1>11. OrderedOnce'
  <2>1. \A o \in Players : \A i \in DOMAIN order'[o] : o # p
    BY <1>5
  <2> QED BY <1>5, <2>1 DEF ServerIInv, OrderedOnce
<1>12. SlotsTaken'
  <2>1. \A o \in Players : UnderWay(o)' = UnderWay(o)
    BY <1>1 DEF UnderWay
  <2>2. \A o \in Players \ {p} : SlotsOf(o)' = SlotsOf(o)
    BY <1>5 DEF SlotsOf
  <2> QED BY <1>1, <2>1, <2>2 DEF ServerIInv, SlotsTaken
<1>13. Server!NothingForTheGone'
  BY <1>1, <1>2, <1>5 DEF ServerIInv, Server!NothingForTheGone, ServerRest
<1> QED BY <1>1, <1>6, <1>7, <1>8, <1>9, <1>10, <1>11, <1>12, <1>13 DEF ServerKept, ServerIInv

-----------------------------------------------------------------------------
(* What a request is sent for.                                             *)

ClientTypes ==
  /\ status \in [Calls -> {"idle", "pending", "asleep", "done"}]
  /\ attempt \in [Calls -> Nat] /\ \A c \in Calls : attempt[c] <= MaxRetries[c] + 1
  /\ outcome \in [Calls -> {"none", "sent", "timeout", "cancelled"} \cup Server!Results]
  /\ cancelled \subseteq Calls

LEMMA TypeParts ==
  /\ TypeOK <=> up \in [Players -> Seq(Requests)] /\ ServerRest /\ ClientTypes
  /\ (TypeOK <=> up \in [Players -> Seq(Requests)] /\ ServerRest /\ ClientTypes)'
BY ServerTypeParts DEF TypeOK, ClientTypes

(* A step of the server sends nothing again that ran, or may yet run.      *)
LEMMA ServerNeverRan ==
  ASSUME NeverRan, Moves, UNCHANGED clientVars
  PROVE  NeverRan'
<1>1. \A r \in Requests : PastAttempt(r)' <=> PastAttempt(r)
  BY DEF PastAttempt, clientVars
<1> QED BY <1>1 DEF NeverRan, Moves

LEMMA ServerSentOnce ==
  ASSUME TypeOK, SentOnce, StaysNew, up' = up, UNCHANGED clientVars
  PROVE  SentOnce'
<1>1. \A p \in Players : \A i \in DOMAIN up[p] : up[p][i] \in Requests
  <2>1. \A p \in Players : up[p] \in Seq(Requests)
    BY TypeParts
  <2> QED BY <2>1, ElementOfSeq, LenProperties
<1> QED BY <1>1 DEF SentOnce, StaysNew, clientVars

LEMMA ReceiveKeeps ==
  ASSUME IInv, NEW p \in Players, Server!Receive(p), UNCHANGED clientVars
  PROVE  ServerKept /\ SentOnce' /\ up' \in [Players -> Seq(Requests)]
<1> DEFINE r == Head(up[p])
           rest == Tail(up[p])
<1>1. /\ up[p] # <<>> /\ up' = [up EXCEPT ![p] = rest]
      /\ Server!Drop(r) \/ Server!Share(r) \/ Server!TurnAway(r) \/ Server!Start(r)
  BY DEF Server!Receive
<1>2. up \in [Players -> Seq(Requests)] /\ up[p] \in Seq(Requests)
  BY TypeParts DEF IInv
<1>3. /\ rest \in Seq(Requests) /\ Len(rest) = Len(up[p]) - 1
      /\ \A i \in 1 .. Len(rest) : rest[i] = up[p][i + 1]
      /\ r = up[p][1] /\ Len(up[p]) \in Nat \ {0} /\ DOMAIN up[p] = 1 .. Len(up[p])
      /\ DOMAIN rest = 1 .. Len(rest)
  BY <1>1, <1>2, HeadTailProperties, LenProperties, EmptySeq
<1>4. 1 \in DOMAIN up[p] /\ r \in Requests
  BY <1>2, <1>3, ElementOfSeq
<1> HIDE DEF r, rest
<1>5. stage[r] = "new" /\ r[2] <= attempt[r[1]]
  BY <1>3, <1>4 DEF IInv, SentOnce
<1>6. ServerKept /\ Reads(r)
  BY <1>1, <1>4, <1>5, TypeParts, DropKeeps, ShareKeeps, TurnAwayKeeps, StartKeeps DEF IInv
<1>7. /\ up' \in [Players -> Seq(Requests)] /\ up'[p] = rest
      /\ \A o \in Players \ {p} : up'[o] = up[o]
  BY <1>1, <1>2, <1>3
<1>8. \A o \in Players : \A i \in DOMAIN up[o] : up[o][i] \in Requests
  <2>1. \A o \in Players : up[o] \in Seq(Requests)
    BY <1>2
  <2> QED BY <2>1, ElementOfSeq, LenProperties
<1>9. ASSUME NEW o \in Players, NEW i \in DOMAIN up'[o]
      PROVE  \E j \in DOMAIN up[o] :
               /\ up'[o][i] = up[o][j] /\ up[o][j] # r /\ (o = p => j = i + 1) /\ (o # p => j = i)
  <2>1. CASE o = p
    <3>1. i + 1 \in DOMAIN up[p] /\ rest[i] = up[p][i + 1] /\ i + 1 # 1
      BY <1>3, <1>7, <2>1
    <3>2. up[p][i + 1] # r
      BY <1>3, <1>4, <3>1 DEF IInv, SentOnce
    <3> QED BY <1>7, <2>1, <3>1, <3>2
  <2>2. CASE o # p
    <3>1. PlayerOf[r] = p
      BY <1>3, <1>4 DEF IInv, SentOnce
    <3>2. i \in DOMAIN up[o] /\ up'[o][i] = up[o][i] /\ PlayerOf[up[o][i]] = o
      BY <1>7, <2>2 DEF IInv, SentOnce
    <3> QED BY <2>2, <3>1, <3>2
  <2> QED BY <2>1, <2>2
<1>10. SentOnce'
  <2>1. UNCHANGED <<status, attempt>>
    BY DEF clientVars
  <2>2. \A q \in Requests : q[2] > attempt[q[1]] => stage'[q] = "new"
    <3>1. ASSUME NEW q \in Requests, q[2] > attempt[q[1]] PROVE stage'[q] = "new"
      <4>1. stage[q] = "new" BY <3>1 DEF IInv, SentOnce
      <4>2. q # r
        <5>1. \A x \in Requests : x[2] \in Int /\ attempt[x[1]] \in Int
          BY RequestsAre, TypeParts DEF IInv, ClientTypes
        <5> QED BY <1>4, <1>5, <3>1, <5>1
      <4> QED BY <1>6, <4>1, <4>2 DEF Reads
    <3> QED BY <3>1
  <2>3. ASSUME NEW o \in Players, NEW i \in DOMAIN up'[o]
        PROVE  /\ PlayerOf[up'[o][i]] = o /\ stage'[up'[o][i]] = "new"
               /\ up'[o][i][2] <= attempt[up'[o][i][1]]
               /\ \A j \in DOMAIN up'[o] : up'[o][j] = up'[o][i] => j = i
    <3>1. PICK j \in DOMAIN up[o] : up'[o][i] = up[o][j] /\ up[o][j] # r
                                    /\ (o = p => j = i + 1) /\ (o # p => j = i)
      BY <1>9
    <3>2. stage[up[o][j]] = "new" /\ stage'[up[o][j]] = "new"
      BY <1>6, <1>8, <3>1 DEF IInv, SentOnce, Reads
    <3>3. PlayerOf[up[o][j]] = o /\ up[o][j][2] <= attempt[up[o][j][1]]
      BY DEF IInv, SentOnce
    <3>4. ASSUME NEW k \in DOMAIN up'[o], up'[o][k] = up'[o][i] PROVE k = i
      <4>1. PICK m \in DOMAIN up[o] : up'[o][k] = up[o][m] /\ (o = p => m = k + 1) /\ (o # p => m = k)
        BY <1>9
      <4>2. m = j
        BY <3>1, <3>4, <4>1, ZenonT(30) DEF IInv, SentOnce
      <4>3. DOMAIN up'[o] \subseteq Int
        <5>1. up'[o] \in Seq(Requests) BY <1>7
        <5> QED BY <5>1, LenProperties
      <4> QED BY <3>1, <4>1, <4>2, <4>3
    <3> QED BY <3>1, <3>2, <3>3, <3>4
  <2> QED BY <2>1, <2>2, <2>3 DEF IInv, SentOnce
<1> QED BY <1>6, <1>7, <1>10

-----------------------------------------------------------------------------
(* The client's steps.                                                     *)

(* The server's invariant is of the server's state, but for the streams.   *)
LEMMA StillKeeps ==
  ASSUME ServerRest, ServerIInv, UNCHANGED serverRest, down' = down
  PROVE  ServerRest' /\ ServerIInv'
<1>1. UNCHANGED <<down, budget, entries, order, stale, stage, result, ran, sharers, forgotten, departed>>
  BY DEF serverRest
<1>2. ServerRest'
  BY <1>1 DEF ServerRest
<1>3. SharesOne' /\ AnswersTrue' /\ EndsAsRun' /\ Remembered' /\ OrderedOnce'
  BY <1>1 DEF ServerIInv, SharesOne, AnswersTrue, EndsAsRun, Remembered, OrderedOnce, Holds
<1>4. SlotsTaken' /\ Server!NothingForTheGone'
  BY <1>1 DEF ServerIInv, SlotsTaken, UnderWay, SlotsOf, Server!NothingForTheGone
<1> QED BY <1>2, <1>3, <1>4 DEF ServerIInv

(* A call's status changes, and nothing is sent.                           *)
LEMMA QuietKeeps ==
  ASSUME IInv, NEW c \in Calls, UNCHANGED <<up, serverRest, attempt>>, ClientTypes',
         \A d \in Calls \ {c} : status'[d] = status[d],
         status'[c] # "idle" \/ status[c] = "idle",
         status'[c] = "asleep" /\ status[c] # "asleep" =>
           /\ attempt[c] <= MaxRetries[c]
           /\ c \notin Idempotent =>
                \A r \in Requests : r[1] = c /\ r[2] = attempt[c] => stage[r] = "done" /\ r \notin ran
  PROVE  SentOnce' /\ NeverRan'
<1>1. UNCHANGED <<up, attempt, stage, ran>>
  BY DEF serverRest
<1>2. SentOnce'
  BY <1>1 DEF IInv, SentOnce
<1>3. ASSUME NEW r \in Requests, r[1] \notin Idempotent, PastAttempt(r)'
      PROVE  stage[r] = "done" /\ r \notin ran
  <2>1. CASE PastAttempt(r)
    BY <1>3, <2>1 DEF IInv, NeverRan
  <2>2. CASE ~PastAttempt(r)
    <3>1. r[1] = c /\ r[2] = attempt[c] /\ status'[c] = "asleep" /\ status[c] # "asleep"
      BY <1>1, <1>3, <2>2, RequestsAre DEF PastAttempt
    <3> QED BY <1>3, <3>1
  <2> QED BY <2>1, <2>2
<1> QED BY <1>1, <1>2, <1>3 DEF NeverRan

LEMMA SendKeeps ==
  ASSUME IInv, NEW c \in Calls, status[c] \in {"idle", "asleep"}, Send(c)
  PROVE  IInv'
<1> DEFINE p == CallerOf[c]
           r == <<c, attempt[c] + 1>>
           line == Append(up[p], r)
           where == IF c \in OneWayCalls THEN "done" ELSE "pending"
           told == IF c \in OneWayCalls THEN "sent" ELSE outcome[c]
<1>0. ServerRest /\ ServerIInv /\ ClientTypes /\ up \in [Players -> Seq(Requests)]
  BY TypeParts DEF IInv
<1>1. /\ attempt' = [attempt EXCEPT ![c] = attempt[c] + 1]
      /\ status' = [status EXCEPT ![c] = where]
      /\ outcome' = [outcome EXCEPT ![c] = told]
      /\ up' = [up EXCEPT ![p] = line]
      /\ down' = down /\ UNCHANGED serverRest /\ cancelled' = cancelled
  BY DEF Send
<1>2. attempt[c] \in Nat /\ attempt[c] <= MaxRetries[c] /\ MaxRetries[c] \in Nat
  BY <1>0, CallsAssumption DEF ClientTypes, IInv, SentOnce
<1>3. r \in Requests /\ r[1] = c /\ r[2] = attempt[c] + 1 /\ p \in Players /\ PlayerOf[r] = p
  <2>1. attempt[c] + 1 \in 1 .. MaxRetries[c] + 1 BY <1>2
  <2>2. r \in Requests BY <2>1, RequestsAre
  <2> QED BY <2>2, RequestsAre, CallsAssumption
<1>4. where \in {"done", "pending"}
  OBVIOUS
<1>5. told \in {"none", "sent", "timeout", "cancelled"} \cup Server!Results
  BY <1>0 DEF ClientTypes
<1>6. stage[r] = "new"
  <2>1. r[2] > attempt[r[1]] BY <1>2, <1>3
  <2> QED BY <1>3, <2>1 DEF IInv, SentOnce
<1>7. up[p] \in Seq(Requests)
  BY <1>0, <1>3
<1> HIDE DEF r, where, told
<1>8. /\ line \in Seq(Requests) /\ Len(up[p]) \in Nat
      /\ DOMAIN up[p] = 1 .. Len(up[p]) /\ DOMAIN line = 1 .. Len(up[p]) + 1
      /\ \A i \in 1 .. Len(up[p]) : line[i] = up[p][i]
      /\ line[Len(up[p]) + 1] = r
  BY <1>3, <1>7, AppendProperties, LenProperties
<1> HIDE DEF line
<1>9. /\ attempt'[c] = attempt[c] + 1 /\ \A d \in Calls \ {c} : attempt'[d] = attempt[d]
      /\ status'[c] = where /\ \A d \in Calls \ {c} : status'[d] = status[d]
      /\ ClientTypes'
  BY <1>0, <1>1, <1>2, <1>4, <1>5 DEF ClientTypes
<1>10. /\ up' \in [Players -> Seq(Requests)] /\ up'[p] = line
       /\ \A o \in Players \ {p} : up'[o] = up[o]
  BY <1>0, <1>1, <1>3, <1>8
<1>11. ServerRest' /\ ServerIInv'
  BY <1>0, <1>1, StillKeeps
<1>12. UNCHANGED <<stage, ran>>
  BY <1>1 DEF serverRest
<1>13. \A d \in Calls : attempt[d] \in Int /\ attempt'[d] \in Int /\ attempt[d] <= attempt'[d]
  <2>1. \A d \in Calls : attempt[d] \in Nat /\ attempt'[d] \in Nat
    BY <1>0, <1>9 DEF ClientTypes
  <2> QED BY <1>9, <2>1
<1>14. \A q \in Requests : q[1] \in Calls /\ q[2] \in Int /\ q = <<q[1], q[2]>>
  BY RequestsAre
<1>15. \A o \in Players : \A i \in DOMAIN up[o] : up[o][i] \in Requests
  <2>1. \A o \in Players : up[o] \in Seq(Requests) BY <1>0
  <2> QED BY <2>1, ElementOfSeq, LenProperties
<1>16. SentOnce'
  <2>1. \A d \in Calls : status'[d] = "idle" => attempt'[d] = 0
    BY <1>4, <1>9 DEF IInv, SentOnce
  <2>2. \A d \in Calls : status'[d] = "asleep" => attempt'[d] <= MaxRetries[d]
    BY <1>4, <1>9 DEF IInv, SentOnce
  <2>3. ASSUME NEW q \in Requests, q[2] > attempt'[q[1]] PROVE stage'[q] = "new"
    <3>1. q[2] > attempt[q[1]]
      BY <1>13, <1>14, <2>3
    <3> QED BY <1>12, <3>1 DEF IInv, SentOnce
  <2>4. ASSUME NEW o \in Players, NEW i \in DOMAIN up'[o]
        PROVE  \/ /\ i \in DOMAIN up[o] /\ up'[o][i] = up[o][i] /\ up[o][i] # r
                  /\ up[o][i] \in Requests
               \/ o = p /\ i = Len(up[p]) + 1 /\ up'[o][i] = r
    <3>1. CASE o = p /\ i = Len(up[p]) + 1
      BY <1>8, <1>10, <3>1
    <3>2. CASE ~(o = p /\ i = Len(up[p]) + 1)
      <4>1. i \in DOMAIN up[o] /\ up'[o][i] = up[o][i]
        BY <1>8, <1>10, <3>2
      <4>2. up[o][i] \in Requests /\ up[o][i][2] <= attempt[up[o][i][1]]
        BY <1>15, <4>1 DEF IInv, SentOnce
      <4>3. up[o][i] # r
        BY <1>2, <1>3, <4>2
      <4> QED BY <4>1, <4>2, <4>3
    <3> QED BY <3>1, <3>2
  <2>5. ASSUME NEW o \in Players, NEW i \in DOMAIN up'[o]
        PROVE  /\ PlayerOf[up'[o][i]] = o /\ stage'[up'[o][i]] = "new"
               /\ up'[o][i][2] <= attempt'[up'[o][i][1]]
               /\ \A j \in DOMAIN up'[o] : up'[o][j] = up'[o][i] => j = i
    <3>1. CASE o = p /\ i = Len(up[p]) + 1 /\ up'[o][i] = r
      <4>1. \A j \in DOMAIN up'[o] : up'[o][j] = r => j = i
        BY <2>4, <3>1
      <4> QED BY <1>2, <1>3, <1>6, <1>9, <1>12, <3>1, <4>1
    <3>2. CASE i \in DOMAIN up[o] /\ up'[o][i] = up[o][i] /\ up[o][i] # r /\ up[o][i] \in Requests
      <4>1. /\ PlayerOf[up[o][i]] = o /\ stage[up[o][i]] = "new"
            /\ up[o][i][2] <= attempt[up[o][i][1]]
            /\ \A j \in DOMAIN up[o] : up[o][j] = up[o][i] => j = i
        BY <3>2 DEF IInv, SentOnce
      <4>2. up[o][i][2] <= attempt'[up[o][i][1]]
        BY <1>13, <1>14, <3>2, <4>1
      <4>3. \A j \in DOMAIN up'[o] : up'[o][j] = up'[o][i] => j = i
        BY <2>4, <3>2, <4>1
      <4> QED BY <1>12, <3>2, <4>1, <4>2, <4>3
    <3> QED BY <2>4, <3>1, <3>2
  <2> QED BY <2>1, <2>2, <2>3, <2>5 DEF SentOnce
<1>17. NeverRan'
  <2>1. ASSUME NEW q \in Requests, q[1] \notin Idempotent, PastAttempt(q)'
        PROVE  stage[q] = "done" /\ q \notin ran
    <3>1. CASE q[1] # c
      BY <1>9, <1>14, <2>1, <3>1 DEF IInv, NeverRan, PastAttempt
    <3>2. CASE q[1] = c
      <4>1. q[2] <= attempt[c]
        BY <1>2, <1>4, <1>9, <1>14, <2>1, <3>2 DEF PastAttempt
      <4>2. q[2] # 0
        BY RequestsAre
      <4>3. status[c] = "asleep"
        BY <1>14, <4>1, <4>2, RequestsAre DEF IInv, SentOnce
      <4>4. PastAttempt(q)
        BY <1>2, <1>14, <3>2, <4>1, <4>3 DEF PastAttempt
      <4> QED BY <2>1, <4>4 DEF IInv, NeverRan
    <3> QED BY <3>1, <3>2
  <2> QED BY <1>12, <2>1 DEF NeverRan
<1> QED BY <1>9, <1>10, <1>11, <1>16, <1>17, TypeParts DEF IInv

(* An attempt that is rejected is made again only if it never ran.         *)
LEMMA RejectedKeeps ==
  ASSUME IInv, NEW c \in Calls, NEW why, why \in {"timeout"} \cup Server!Results, status[c] = "pending",
         Rejected(c, why), UNCHANGED <<up, serverRest>>,
         why \in {"limited", "busy"} =>
           \A r \in Requests : r[1] = c /\ r[2] = attempt[c] => stage[r] = "done" /\ result[r] = why
  PROVE  SentOnce' /\ NeverRan' /\ ClientTypes'
<1>0. ClientTypes
  BY TypeParts DEF IInv
<1>1. UNCHANGED <<attempt, cancelled>>
  BY DEF Rejected
<1>2. CASE attempt[c] <= MaxRetries[c] /\ c \notin cancelled /\ Retryable(c, why)
  <2>1. status' = [status EXCEPT ![c] = "asleep"] /\ outcome' = outcome
    BY <1>2 DEF Rejected
  <2>2. ClientTypes' /\ status'[c] = "asleep" /\ \A d \in Calls \ {c} : status'[d] = status[d]
    BY <1>0, <1>1, <2>1 DEF ClientTypes
  <2>3. c \notin Idempotent =>
          \A r \in Requests : r[1] = c /\ r[2] = attempt[c] => stage[r] = "done" /\ r \notin ran
    BY <1>2 DEF Retryable, IInv, ServerIInv, EndsAsRun
  <2> QED BY <1>1, <1>2, <2>2, <2>3, QuietKeeps
<1>3. CASE ~(attempt[c] <= MaxRetries[c] /\ c \notin cancelled /\ Retryable(c, why))
  <2>1. status' = [status EXCEPT ![c] = "done"] /\ outcome' = [outcome EXCEPT ![c] = why]
    BY <1>3 DEF Rejected, Ended
  <2>2. ClientTypes' /\ status'[c] = "done" /\ \A d \in Calls \ {c} : status'[d] = status[d]
    BY <1>0, <1>1, <2>1 DEF ClientTypes
  <2> QED BY <1>1, <2>2, QuietKeeps
<1> QED BY <1>2, <1>3

LEMMA EndedKeeps ==
  ASSUME IInv, NEW c \in Calls, NEW how \in {"cancelled", "ok"}, Ended(c, how),
         UNCHANGED <<up, serverRest, attempt>>, cancelled' \subseteq Calls
  PROVE  SentOnce' /\ NeverRan' /\ ClientTypes'
<1>0. ClientTypes
  BY TypeParts DEF IInv
<1>1. status' = [status EXCEPT ![c] = "done"] /\ outcome' = [outcome EXCEPT ![c] = how]
  BY DEF Ended
<1>2. how \in {"cancelled"} \cup Server!Results
  BY DEF Server!Results
<1>3. ClientTypes' /\ status'[c] = "done" /\ \A d \in Calls \ {c} : status'[d] = status[d]
  BY <1>0, <1>1, <1>2 DEF ClientTypes
<1> QED BY <1>3, QuietKeeps

LEMMA AttemptKeeps ==
  ASSUME IInv, NEW c \in Calls, status[c] \in {"idle", "asleep"}, Attempt(c)
  PROVE  IInv'
<1>0. ServerRest /\ ServerIInv /\ ClientTypes /\ up \in [Players -> Seq(Requests)]
  BY TypeParts DEF IInv
<1>1. CASE c \in cancelled /\ c \notin OneWayCalls
  <2>1. Ended(c, "cancelled") /\ UNCHANGED <<up, down, serverRest, attempt, cancelled>>
    BY <1>1 DEF Attempt
  <2>2. cancelled' \subseteq Calls
    BY <1>0, <2>1 DEF ClientTypes
  <2>3. SentOnce' /\ NeverRan' /\ ClientTypes'
    BY <2>1, <2>2, EndedKeeps
  <2> QED BY <1>0, <2>1, <2>3, StillKeeps, TypeParts DEF IInv
<1>2. CASE ~(c \in cancelled /\ c \notin OneWayCalls)
  BY <1>2, SendKeeps DEF Attempt
<1> QED BY <1>1, <1>2

LEMMA CancelKeeps ==
  ASSUME IInv, NEW c \in Calls, Cancel(c)
  PROVE  IInv'
<1>0. ServerRest /\ ServerIInv /\ ClientTypes /\ up \in [Players -> Seq(Requests)]
  BY TypeParts DEF IInv
<1>1. /\ cancelled' = cancelled \cup {c} /\ UNCHANGED <<up, down, serverRest, attempt>>
      /\ IF status[c] = "pending" THEN Ended(c, "cancelled") ELSE UNCHANGED <<status, outcome>>
  BY DEF Cancel, Trigger
<1>2. cancelled' \subseteq Calls
  BY <1>0, <1>1 DEF ClientTypes
<1>3. CASE status[c] = "pending"
  <2>1. SentOnce' /\ NeverRan' /\ ClientTypes'
    BY <1>1, <1>2, <1>3, EndedKeeps
  <2> QED BY <1>0, <1>1, <2>1, StillKeeps, TypeParts DEF IInv
<1>4. CASE status[c] # "pending"
  <2>1. UNCHANGED <<status, outcome>>
    BY <1>1, <1>4
  <2>2. ClientTypes'
    BY <1>0, <1>1, <1>2, <2>1 DEF ClientTypes
  <2>3. SentOnce' /\ NeverRan'
    BY <1>1, <2>1, <2>2, QuietKeeps
  <2> QED BY <1>0, <1>1, <2>2, <2>3, StillKeeps, TypeParts DEF IInv
<1> QED BY <1>3, <1>4

LEMMA HearKeeps ==
  ASSUME IInv, NEW p \in Players, Hear(p)
  PROVE  IInv'
<1> DEFINE d == Head(down[p])
           c == d.of[1]
           rest == Tail(down[p])
           Answered == [of : Requests, result : Server!Results]
<1>0. /\ ServerRest /\ ServerIInv /\ ClientTypes /\ up \in [Players -> Seq(Requests)]
      /\ down \in [Players -> Seq(Answered)] /\ down[p] \in Seq(Answered)
  BY TypeParts DEF IInv, ServerRest
<1>1. /\ down[p] # <<>> /\ down' = [down EXCEPT ![p] = rest]
      /\ UNCHANGED <<up, serverRest>>
      /\ IF ~Answers(c, d.of[2]) THEN UNCHANGED clientVars
         ELSE IF d.result = "ok" THEN Ended(c, "ok") /\ UNCHANGED <<attempt, cancelled>>
         ELSE Rejected(c, d.result)
  BY DEF Hear
<1>2. /\ rest \in Seq(Answered) /\ Len(rest) = Len(down[p]) - 1
      /\ \A i \in 1 .. Len(rest) : rest[i] = down[p][i + 1]
      /\ d = down[p][1] /\ Len(down[p]) \in Nat \ {0} /\ DOMAIN down[p] = 1 .. Len(down[p])
      /\ DOMAIN rest = 1 .. Len(rest)
  BY <1>0, <1>1, HeadTailProperties, LenProperties, EmptySeq
<1>3. 1 \in DOMAIN down[p] /\ d \in Answered
  <2> HIDE DEF d, rest, Answered
  <2>1. 1 \in 1 .. Len(down[p]) BY <1>2
  <2> QED BY <1>0, <1>2, <2>1, ElementOfSeq
<1> HIDE DEF d, rest
<1>4. d.of \in Requests /\ d.result \in Server!Results /\ c \in Calls /\ d.of = <<c, d.of[2]>>
  BY <1>3, RequestsAre
<1>5. stage[d.of] = "done" /\ result[d.of] = d.result
  BY <1>0, <1>2, <1>3 DEF ServerIInv, AnswersTrue
<1>6. /\ down' \in [Players -> Seq(Answered)] /\ down'[p] = rest
      /\ \A o \in Players \ {p} : down'[o] = down[o]
  BY <1>0, <1>1, <1>2
<1>7. UNCHANGED <<budget, entries, order, stale, stage, result, ran, sharers, forgotten, departed>>
  BY <1>1 DEF serverRest
<1>8. ServerRest'
  BY <1>0, <1>6, <1>7 DEF ServerRest
<1>9. AnswersTrue'
  <2>1. ASSUME NEW o \in Players, NEW i \in DOMAIN down'[o]
        PROVE  \E j \in DOMAIN down[o] : down'[o][i] = down[o][j]
    <3>1. CASE o = p
      <4>1. i + 1 \in DOMAIN down[p] /\ rest[i] = down[p][i + 1]
        BY <1>2, <1>6, <3>1
      <4> QED BY <1>6, <3>1, <4>1
    <3>2. CASE o # p
      BY <1>6, <3>2
    <3> QED BY <3>1, <3>2
  <2> QED BY <1>0, <1>7, <2>1 DEF ServerIInv, AnswersTrue
<1>10. SharesOne' /\ EndsAsRun' /\ Remembered' /\ OrderedOnce' /\ SlotsTaken'
       /\ Server!NothingForTheGone'
  <2>1. SharesOne' /\ EndsAsRun' /\ Remembered' /\ OrderedOnce'
    BY <1>0, <1>7 DEF ServerIInv, SharesOne, EndsAsRun, Remembered, OrderedOnce, Holds
  <2>2. SlotsTaken' /\ Server!NothingForTheGone'
    BY <1>0, <1>7 DEF ServerIInv, SlotsTaken, UnderWay, SlotsOf, Server!NothingForTheGone
  <2> QED BY <2>1, <2>2
<1>11. SentOnce' /\ NeverRan' /\ ClientTypes'
  <2>1. CASE ~Answers(c, d.of[2])
    <3>1. UNCHANGED <<status, attempt, outcome, cancelled>>
      BY <1>1, <2>1 DEF clientVars
    <3>2. ClientTypes'
      BY <1>0, <3>1 DEF ClientTypes
    <3> QED BY <1>1, <1>4, <3>1, <3>2, QuietKeeps
  <2>2. CASE Answers(c, d.of[2]) /\ d.result = "ok"
    <3>1. Ended(c, "ok") /\ UNCHANGED <<attempt, cancelled>>
      BY <1>1, <2>2
    <3>2. cancelled' \subseteq Calls
      BY <1>0, <3>1 DEF ClientTypes
    <3> QED BY <1>1, <1>4, <3>1, <3>2, EndedKeeps
  <2>3. CASE Answers(c, d.of[2]) /\ d.result # "ok"
    <3>1. Rejected(c, d.result)
      BY <1>1, <2>3
    <3>2. status[c] = "pending" /\ d.of[2] = attempt[c]
      BY <2>3 DEF Answers
    <3>3. \A r \in Requests : r[1] = c /\ r[2] = attempt[c] => r = d.of
      BY <1>4, <3>2, RequestsAre
    <3> QED BY <1>1, <1>4, <1>5, <3>1, <3>2, <3>3, RejectedKeeps
  <2> QED BY <2>1, <2>2, <2>3
<1>12. up' \in [Players -> Seq(Requests)]
  BY <1>0, <1>1
<1> QED BY <1>8, <1>9, <1>10, <1>11, <1>12, TypeParts DEF IInv, ServerIInv

LEMMA ClientStepKeeps ==
  ASSUME IInv, ClientStep
  PROVE  IInv'
<1>0. ServerRest /\ ServerIInv /\ ClientTypes /\ up \in [Players -> Seq(Requests)]
  BY TypeParts DEF IInv
<1>1. ASSUME NEW c \in Calls, Invoke(c) \/ Wake(c) PROVE IInv'
  BY <1>1, AttemptKeeps DEF Invoke, Wake
<1>2. ASSUME NEW c \in Calls, TimeOut(c) PROVE IInv'
  <2>1. status[c] = "pending" /\ Rejected(c, "timeout") /\ UNCHANGED <<up, down, serverRest>>
    BY <1>2 DEF TimeOut
  <2>2. SentOnce' /\ NeverRan' /\ ClientTypes'
    BY <2>1, RejectedKeeps
  <2> QED BY <1>0, <2>1, <2>2, StillKeeps, TypeParts DEF IInv
<1>3. ASSUME NEW c \in Calls, Cancel(c) PROVE IInv'
  BY <1>3, CancelKeeps
<1>4. ASSUME NEW p \in Players, Hear(p) PROVE IInv'
  BY <1>4, HearKeeps
<1>5. CASE \E c \in Calls : Invoke(c) \/ TimeOut(c) \/ Wake(c) \/ Cancel(c)
  <2>1. PICK c \in Calls : Invoke(c) \/ TimeOut(c) \/ Wake(c) \/ Cancel(c)
    BY <1>5
  <2> QED BY <1>1, <1>2, <1>3, <2>1
<1>6. CASE \E p \in Players : Hear(p)
  BY <1>4, <1>6
<1> QED BY <1>5, <1>6 DEF ClientStep

LEMMA ServerStepKeeps ==
  ASSUME IInv, Server!ServerStep, UNCHANGED clientVars
  PROVE  IInv'
<1>0. ServerRest /\ ServerIInv /\ ClientTypes /\ up \in [Players -> Seq(Requests)]
  BY TypeParts DEF IInv
<1>1. ClientTypes'
  BY <1>0 DEF ClientTypes, clientVars
<1>2. ASSUME NEW p \in Players, Server!Receive(p) PROVE IInv'
  <2>1. ServerKept /\ SentOnce' /\ up' \in [Players -> Seq(Requests)]
    BY <1>2, ReceiveKeeps
  <2>2. NeverRan'
    BY <2>1, ServerNeverRan DEF ServerKept, IInv
  <2> QED BY <1>1, <2>1, <2>2, TypeParts DEF ServerKept, IInv
<1>3. ASSUME ServerKept /\ StaysNew /\ up' = up PROVE IInv'
  <2>1. SentOnce'
    BY <1>3, ServerSentOnce DEF IInv
  <2>2. NeverRan'
    BY <1>3, ServerNeverRan DEF ServerKept, IInv
  <2> QED BY <1>0, <1>1, <1>3, <2>1, <2>2, TypeParts DEF ServerKept, IInv
<1>4. ASSUME NEW p \in Players, Server!Refill(p) \/ Server!Leave(p) PROVE IInv'
  BY <1>0, <1>3, <1>4, RefillKeeps, LeaveKeeps
<1>5. ASSUME NEW r \in Requests, Server!Lapse(r) \/ Server!Checks(r) \/ Server!Returns(r) PROVE IInv'
  <2>1. CASE Server!Lapse(r)
    BY <1>0, <1>3, <2>1, LapseKeeps
  <2>2. CASE Server!Run(r)
    BY <1>0, <1>3, <2>2, RunKeeps
  <2>3. CASE \E why \in {"limited", "invalid", "forbidden"} : Server!Refuse(r, why)
    <3>1. PICK why \in {"limited", "invalid", "forbidden"} : Server!Refuse(r, why)
      BY <2>3
    <3> QED BY <1>0, <1>3, <3>1, RefuseKeeps
  <2>4. CASE Server!Returns(r)
    <3>1. PICK res \in {"ok", "failed"} : Server!Finish(r, res)
      BY <2>4 DEF Server!Returns
    <3> QED BY <1>0, <1>3, <3>1, FinishKeeps
  <2> QED BY <1>5, <2>1, <2>2, <2>3, <2>4 DEF Server!Checks
<1>6. CASE \E p \in Players : Server!Receive(p) \/ Server!Refill(p)
  BY <1>2, <1>4, <1>6
<1>7. CASE \E r \in Requests : Server!Lapse(r) \/ Server!Checks(r) \/ Server!Returns(r)
  BY <1>5, <1>7
<1>8. CASE \E p \in Players : Server!Leave(p)
  BY <1>4, <1>8
<1> QED BY <1>6, <1>7, <1>8 DEF Server!ServerStep

-----------------------------------------------------------------------------
(* Theorems.                                                               *)

LEMMA InitIInv == Init => IInv
<1> SUFFICES ASSUME Init PROVE IInv
  OBVIOUS
<1>1. /\ up = [p \in Players |-> <<>>] /\ down = [p \in Players |-> <<>>]
      /\ departed = {} /\ budget = [p \in Players |-> Server!NoState]
      /\ entries = [p \in Players |-> [k \in Keys |-> NoKey]]
      /\ order = [p \in Players |-> <<>>] /\ stale = {} /\ ran = {} /\ forgotten = {}
      /\ stage = [r \in Requests |-> "new"] /\ result = [r \in Requests |-> Server!NoResult]
      /\ sharers = [r \in Requests |-> <<>>]
      /\ status = [c \in Calls |-> "idle"] /\ attempt = [c \in Calls |-> 0]
      /\ outcome = [c \in Calls |-> "none"] /\ cancelled = {}
  BY DEF Init, Server!Init
<1>2. up \in [Players -> Seq(Requests)] /\ \A p \in Players : DOMAIN up[p] = {}
  BY <1>1
<1>3. ServerRest
  BY <1>1 DEF ServerRest
<1>4. ClientTypes
  BY <1>1, CallsAssumption DEF ClientTypes
<1>5. SentOnce
  BY <1>1, <1>2, RequestsAre DEF SentOnce
<1>6. SharesOne /\ AnswersTrue /\ OrderedOnce
  <2>1. /\ \A p \in Players : DOMAIN down[p] = {} /\ DOMAIN order[p] = {}
        /\ \A r \in Requests : DOMAIN sharers[r] = {}
    BY <1>1
  <2> QED BY <2>1 DEF SharesOne, AnswersTrue, OrderedOnce
<1>7. EndsAsRun /\ Remembered
  BY <1>1 DEF EndsAsRun, Remembered
<1>8. SlotsTaken
  <2>1. \A p \in Players : UnderWay(p) = {} /\ SlotsOf(p) = 0
    BY <1>1 DEF UnderWay, SlotsOf
  <2> QED BY <2>1, FS_EmptySet, CallsAssumption DEF SlotsTaken
<1>9. Server!NothingForTheGone
  BY <1>1 DEF Server!NothingForTheGone
<1>10. NeverRan
  BY <1>1, RequestsAre DEF NeverRan, PastAttempt
<1> QED BY <1>2, <1>3, <1>4, <1>5, <1>6, <1>7, <1>8, <1>9, <1>10, TypeParts DEF IInv, ServerIInv

LEMMA NextIInv == IInv /\ [Next]_vars => IInv'
<1> SUFFICES ASSUME IInv, [Next]_vars PROVE IInv'
  OBVIOUS
<1>1. CASE ClientStep
  BY <1>1, ClientStepKeeps
<1>2. CASE Server!ServerStep /\ UNCHANGED clientVars
  BY <1>2, ServerStepKeeps
<1>3. CASE UNCHANGED vars
  <2>1. UNCHANGED <<up, down, departed, budget, entries, order, stale, stage, result, ran, sharers,
                    forgotten, status, attempt, outcome, cancelled>>
    BY <1>3 DEF vars, clientVars, Server!serverVars, Server!guardVars, Server!memoryVars, Server!callVars
  <2>2. ServerRest /\ ServerIInv /\ ClientTypes /\ up \in [Players -> Seq(Requests)]
    BY TypeParts DEF IInv
  <2>3. ServerRest' /\ ServerIInv'
    <3>1. UNCHANGED serverRest BY <2>1 DEF serverRest
    <3> QED BY <2>1, <2>2, <3>1, StillKeeps
  <2>4. ClientTypes'
    BY <2>1, <2>2 DEF ClientTypes
  <2>5. SentOnce' /\ NeverRan'
    BY <2>1 DEF IInv, SentOnce, NeverRan, PastAttempt
  <2> QED BY <2>1, <2>2, <2>3, <2>4, <2>5, TypeParts DEF IInv
<1> QED BY <1>1, <1>2, <1>3 DEF Next

LEMMA Inductive == Spec => []IInv
BY InitIInv, NextIInv, PTL DEF Spec

(* The state of the client and of the server keeps its shape, and no call  *)
(* is sent more often than its retry policy allows.                        *)
THEOREM TypeCorrect == Spec => []TypeOK
<1>1. IInv => TypeOK
  BY DEF IInv
<1> QED BY <1>1, Inductive, PTL

(* A key's handler runs once while its entry is kept, and a call of an     *)
(* action not declared idempotent runs at most once whatever is forgotten, *)
(* times out, is cancelled or is retried (idempotency.ts:83-131;           *)
(* client-runtime.ts:277-297).                                             *)
THEOREM RunsAtMostOnce == Spec => []RunsOnce
<1>1. IInv => RunsOnce
  <2> SUFFICES ASSUME IInv PROVE RunsOnce
    OBVIOUS
  <2>0. ServerRest
    BY TypeParts DEF IInv
  <2>1. Server!RunsOnce
    <3>1. \A r \in ran : r \in Requests /\ (KeyOf[r] # NoKey => Holds(r))
      BY <2>0 DEF IInv, ServerIInv, Remembered, ServerRest
    <3> QED BY <3>1 DEF Server!RunsOnce, Holds
  <2>2. ASSUME NEW c \in Calls \ Idempotent
        PROVE  Cardinality({r \in ran : r[1] = c}) <= 1
    <3> DEFINE mine == {r \in ran : r[1] = c}
    <3>1. ASSUME NEW r \in mine, NEW q \in mine PROVE r = q
      <4>1. /\ r \in Requests /\ q \in Requests /\ r[1] = c /\ q[1] = c
            /\ r = <<c, r[2]>> /\ q = <<c, q[2]>> /\ r[2] \in Int /\ q[2] \in Int
        BY <2>0, RequestsAre DEF ServerRest
      <4>2. attempt[c] \in Int /\ ~PastAttempt(r) /\ ~PastAttempt(q) /\ stage[r] # "new" /\ stage[q] # "new"
        BY <4>1, TypeParts DEF IInv, ClientTypes, NeverRan, ServerIInv, EndsAsRun
      <4>3. r[2] = attempt[c] /\ q[2] = attempt[c]
        BY <4>1, <4>2 DEF IInv, SentOnce, PastAttempt
      <4> QED BY <4>1, <4>3
    <3>2. CASE mine = {}
      BY <3>2, FS_EmptySet
    <3>3. CASE mine # {}
      <4>1. PICK r \in mine : TRUE
        BY <3>3
      <4>2. mine = {r}
        BY <3>1
      <4>3. Cardinality({r}) = 1
        BY FS_Singleton
      <4> QED BY <4>2, <4>3
    <3> QED BY <3>2, <3>3
  <2> QED BY <2>1, <2>2 DEF RunsOnce
<1> QED BY <1>1, Inductive, PTL

(* The in-flight count is the player's dispatches under way and never over *)
(* its cap, and nothing is kept for who left (request-guard.ts:45-50, 204, *)
(* 223-241).                                                               *)
THEOREM SlotsAreExact == Spec => []InFlightExact
<1>1. IInv => InFlightExact
  <2> SUFFICES ASSUME IInv PROVE InFlightExact
    OBVIOUS
  <2>1. \A p \in Players : budget[p] # Server!NoState => p \notin departed
    BY DEF IInv, ServerIInv, Server!NothingForTheGone
  <2>2. ASSUME NEW p \in Players, budget[p] # Server!NoState
        PROVE  /\ budget[p].inFlight = Cardinality(UnderWay(p))
               /\ budget[p].inFlight <= MaxInFlight
    BY <2>1, <2>2 DEF IInv, ServerIInv, SlotsTaken, SlotsOf
  <2>3. \A p \in Players : budget[p] # Server!NoState =>
          /\ budget[p].inFlight =
               Cardinality({r \in Requests : PlayerOf[r] = p /\ stage[r] \in {"checking", "running"}})
          /\ budget[p].inFlight <= MaxInFlight
    BY <2>2, Zenon DEF UnderWay
  <2>4. \A S : Server!Cardinality(S) = Cardinality(S)
    BY DEF Server!Cardinality, Cardinality
  <2> QED BY <2>3, <2>4 DEF IInv, ServerIInv, InFlightExact, Server!InFlightExact
<1> QED BY <1>1, Inductive, PTL
=============================================================================
