--------------------------- MODULE ResourcesProofs ---------------------------
(***************************************************************************)
(* What a resource host guarantees for any players, calls and writes, any  *)
(* cap on tags, and loads that read whenever they like.                    *)
(***************************************************************************)
EXTENDS Resources, SequenceTheorems, TLAPS

-----------------------------------------------------------------------------
(* Types.  Items in flight carry revisions already given, which is why no  *)
(* client can have seen a higher one.                                      *)

ItemsTo(r) == {item \in Items : item.t = "state" => item.v <= r}

HostIInv ==
  /\ HostTypeOK
  /\ \A k \in Keys : load[k].at <= revision
  /\ outbox \in [Players -> Seq(ItemsTo(revision))]

ClientIInv ==
  /\ ClientTypeOK
  /\ \A p \in Players : floor[p] <= revision
  /\ down \in [Players -> Seq(ItemsTo(revision))]

TypeIInv == HostIInv /\ ClientIInv

LEMMA KeyOfType == \A p \in Players : KeyOf(p) \in Keys /\ p \in Keys
BY DEF KeyOf, Keys

LEMMA ItemsGrow ==
  ASSUME NEW r \in Nat, NEW s \in Nat, r <= s, NEW q \in Seq(ItemsTo(r))
  PROVE  q \in Seq(ItemsTo(s))
<1>1. ItemsTo(r) \subseteq ItemsTo(s)
  BY DEF ItemsTo, Items, StateItems, Responses
<1> QED BY <1>1, SeqMonotonic

LEMMA ItemsAreItems ==
  ASSUME NEW r, NEW q \in Seq(ItemsTo(r))
  PROVE  q \in Seq(Items)
<1>1. ItemsTo(r) \subseteq Items
  BY DEF ItemsTo
<1> QED BY <1>1, SeqMonotonic

LEMMA StateItemType ==
  ASSUME NEW r \in Nat, NEW at \in 1 .. r, NEW data \in Values \cup {NoValue},
         NEW error \in {"none", "load", "forbidden"}
  PROVE  StateItem(at, data, error) \in StateItems \cap ItemsTo(r)
BY DEF StateItem, StateItems, ItemsTo, Items

LEMMA TaggedType ==
  ASSUME NEW r \in Nat, NEW item \in StateItems \cap ItemsTo(r),
         NEW covering \in SUBSET Calls, NEW p
  PROVE  Tagged(item, covering, p) \in StateItems \cap ItemsTo(r)
BY DEF Tagged, StateItems, ItemsTo, Items

LEMMA MergedType ==
  ASSUME NEW r \in Nat, NEW queued \in ItemsTo(r), queued.t = "state",
         NEW item \in StateItems \cap ItemsTo(r)
  PROVE  Merged(queued, item) \in ItemsTo(r)
BY DEF Merged, StateItems, Responses, ItemsTo, Items

(* An item put into an outbox leaves it an outbox.                         *)
LEMMA ReplaceType ==
  ASSUME NEW r \in Nat, NEW box \in Seq(ItemsTo(r)),
         NEW item \in StateItems \cap ItemsTo(r)
  PROVE  Replace(box, item) \in Seq(ItemsTo(r))
<1>1. CASE \E i \in DOMAIN box : box[i].t = "state"
  <2> DEFINE merged == [i \in DOMAIN box |->
                          IF box[i].t = "state" THEN Merged(box[i], item) ELSE box[i]]
  <2>1. Len(box) \in Nat /\ DOMAIN box = 1 .. Len(box) /\ box \in [1 .. Len(box) -> ItemsTo(r)]
    BY LenProperties
  <2>2. ASSUME NEW i \in DOMAIN box
        PROVE  (IF box[i].t = "state" THEN Merged(box[i], item) ELSE box[i]) \in ItemsTo(r)
    BY <2>1, MergedType
  <2>3. merged \in [1 .. Len(box) -> ItemsTo(r)]
    BY <2>1, <2>2
  <2>4. merged \in Seq(ItemsTo(r))
    BY <2>1, <2>3, SeqDef
  <2> QED BY <1>1, <2>4 DEF Replace
<1>2. CASE ~\E i \in DOMAIN box : box[i].t = "state"
  BY <1>2, AppendProperties DEF Replace
<1> QED BY <1>1, <1>2

LEMMA ResponseType ==
  ASSUME NEW r, NEW c \in Calls, NEW pending \in BOOLEAN
  PROVE  Response(c, pending) \in ItemsTo(r)
BY DEF Response, Responses, ItemsTo, Items

-----------------------------------------------------------------------------
(* The host's steps.                                                       *)

LEMMA LoadsGrow ==
  ASSUME HostIInv, NEW k \in Keys, NEW covering \in SUBSET Calls, NEW data \in Values,
         StartLoad(k, covering, data)
  PROVE  /\ revision' \in Nat /\ revision <= revision'
         /\ load' \in [Keys -> Loads]
         /\ \A j \in Keys : load'[j].at <= revision'
         /\ dirty' \in [Keys -> BOOLEAN]
<1>1. ASSUME NEW sync \in BOOLEAN
      PROVE  [at |-> revision + 1, covering |-> covering, read |-> data, sync |-> sync] \in Loads
  BY DEF HostIInv, HostTypeOK, Loads
<1>2. revision \in Nat /\ load \in [Keys -> Loads] /\ \A j \in Keys : load[j].at \in Nat
  BY DEF HostIInv, HostTypeOK, Loads
<1> QED BY <1>1, <1>2 DEF StartLoad, HostIInv, HostTypeOK

LEMMA LoadType ==
  ASSUME HostIInv, NEW k \in Keys, NEW covering \in SUBSET Calls, NEW data \in Values,
         Load(k, covering, data)
  PROVE  /\ revision' \in Nat /\ revision <= revision'
         /\ load' \in [Keys -> Loads]
         /\ \A j \in Keys : load'[j].at <= revision'
         /\ dirty' \in [Keys -> BOOLEAN]
<1>1. CASE StartLoad(k, covering, data)
  BY <1>1, LoadsGrow
<1>2. CASE dirty' = [dirty EXCEPT ![k] = TRUE] /\ UNCHANGED <<revision, load>>
  BY <1>2 DEF HostIInv, HostTypeOK
<1> QED BY <1>1, <1>2 DEF Load

LEMMA InvalidateType ==
  ASSUME HostIInv, NEW k \in Keys, NEW covering \in SUBSET Calls, NEW data \in Values,
         Invalidate(k, covering, data)
  PROVE  /\ revision' \in Nat /\ revision <= revision'
         /\ load' \in [Keys -> Loads]
         /\ \A j \in Keys : load'[j].at <= revision'
         /\ dirty' \in [Keys -> BOOLEAN]
         /\ cached' \in [Keys -> Values \cup {NoValue}]
<1>1. CASE Load(k, covering, data) /\ UNCHANGED cached
  BY <1>1, LoadType DEF HostIInv, HostTypeOK
<1>2. CASE /\ dirty' = [dirty EXCEPT ![k] = @ \/ Running(k)]
           /\ cached' = [cached EXCEPT ![k] = NoValue]
           /\ UNCHANGED <<revision, load>>
  <2>1. Running(k) \in BOOLEAN /\ dirty[k] \in BOOLEAN
    BY DEF Running, HostIInv, HostTypeOK
  <2> QED BY <1>2, <2>1 DEF HostIInv, HostTypeOK
<1> QED BY <1>1, <1>2 DEF Invalidate

LEMMA NoLoadType == NoLoad \in Loads /\ NoLoad.at = 0
BY DEF NoLoad, Loads, Values

(* A sent item leaves every outbox an outbox, whatever revision is given   *)
(* meanwhile.                                                              *)
LEMMA BoxesGrow ==
  ASSUME HostIInv, revision' \in Nat, revision <= revision'
  PROVE  \A p \in Players : outbox[p] \in Seq(ItemsTo(revision'))
BY ItemsGrow DEF HostIInv, HostTypeOK

LEMMA BoxesAreBoxes ==
  ASSUME outbox' \in [Players -> Seq(ItemsTo(revision'))]
  PROVE  outbox' \in [Players -> Seq(Items)]
BY ItemsAreItems

LEMMA DropResultType ==
  ASSUME HostIInv, NEW k \in Keys, NEW ok \in BOOLEAN, DropResult(k, ok)
  PROVE  HostIInv' /\ revision <= revision'
<1>1. load' \in [Keys -> Loads] /\ \A j \in Keys : load'[j].at <= revision'
  BY NoLoadType DEF HostIInv, HostTypeOK, DropResult
<1>2. cached' \in [Keys -> Values \cup {NoValue}]
  BY DEF HostIInv, HostTypeOK, DropResult
<1>3. sent' \in [Keys -> 0 .. revision] /\ dirty' \in [Keys -> BOOLEAN]
  <2>1. 0 \in 0 .. revision /\ sent \in [Keys -> 0 .. revision] /\ dirty \in [Keys -> BOOLEAN]
    BY DEF HostIInv, HostTypeOK
  <2>2. \/ dirty' = [dirty EXCEPT ![k] = FALSE] /\ sent' = [sent EXCEPT ![k] = 0]
        \/ dirty' = dirty /\ sent' = sent
    BY DEF DropResult
  <2> QED BY <2>1, <2>2
<1>4. last' \in [Keys -> {"none", "ok", "failed", "dropped"}]
  BY DEF HostIInv, HostTypeOK, DropResult
<1>5. UNCHANGED <<worldVars, callVars, wireVars, revision, subscribers, tags>>
  BY DEF DropResult
<1> QED
  BY <1>1, <1>2, <1>3, <1>4, <1>5
  DEF HostIInv, HostTypeOK, worldVars, callVars, wireVars

LEMMA FinishedType ==
  ASSUME HostIInv, NEW k \in Keys, NEW ok \in BOOLEAN, Running(k)
  PROVE  Finished(k, ok) \in StateItems \cap ItemsTo(revision)
<1>1. load[k].at \in 1 .. revision /\ load[k].read \in Values /\ revision \in Nat
  BY DEF HostIInv, HostTypeOK, Loads, Running
<1> QED BY <1>1, StateItemType DEF Finished

LEMMA SendResultType ==
  ASSUME HostIInv, NEW k \in Keys, NEW ok \in BOOLEAN, SendResult(k, ok)
  PROVE  HostIInv' /\ revision <= revision'
<1> DEFINE left == tags[k] \ load[k].covering
           item == Finished(k, ok)
<1>1. /\ load[k].at \in 0 .. revision /\ load[k].covering \in SUBSET Calls
      /\ load[k].read \in Values /\ left \in SUBSET Calls /\ source[k] \in Values
      /\ revision \in Nat
  BY DEF HostIInv, HostTypeOK, Loads
<1>2. /\ revision' \in Nat /\ revision <= revision'
      /\ load' \in [Keys -> Loads]
      /\ \A j \in Keys : load'[j].at <= revision'
      /\ dirty' \in [Keys -> BOOLEAN]
  <2>1. CASE StartLoad(k, left, source[k])
    BY <1>1, <2>1, LoadsGrow
  <2>2. CASE load' = [load EXCEPT ![k] = NoLoad] /\ UNCHANGED <<revision, dirty>>
    BY <2>2, NoLoadType DEF HostIInv, HostTypeOK
  <2> QED BY <2>1, <2>2 DEF SendResult
<1>3. sent' \in [Keys -> 0 .. revision'] /\ refusedAt' \in [Players -> 0 .. revision']
  BY <1>1, <1>2 DEF HostIInv, HostTypeOK, SendResult
<1>4. cached' \in [Keys -> Values \cup {NoValue}]
  BY <1>1 DEF HostIInv, HostTypeOK, SendResult, CachedAfter
<1>5. outbox' \in [Players -> Seq(ItemsTo(revision'))]
  <2>1. ASSUME NEW p \in Players
        PROVE  Replace(outbox[p], Tagged(item, load[k].covering, p)) \in Seq(ItemsTo(revision))
    <3>1. Tagged(item, load[k].covering, p) \in StateItems \cap ItemsTo(revision)
      BY <1>1, FinishedType, TaggedType DEF SendResult
    <3> QED BY <1>1, <3>1, ReplaceType DEF HostIInv
  <2>2. \A p \in Players :
          Replace(outbox[p], Tagged(item, load[k].covering, p)) \in Seq(ItemsTo(revision'))
    BY <1>1, <1>2, <2>1, ItemsGrow
  <2>3. \A p \in Players : outbox[p] \in Seq(ItemsTo(revision'))
    BY <1>2, BoxesGrow
  <2> QED BY <2>2, <2>3 DEF SendResult
<1>6. tags' \in [Keys -> SUBSET Calls]
  BY <1>1 DEF HostIInv, HostTypeOK, SendResult
<1>7. last' \in [Keys -> {"none", "ok", "failed", "dropped"}]
  BY DEF HostIInv, HostTypeOK, SendResult, Outcome
<1> QED
  BY <1>2, <1>3, <1>4, <1>5, <1>6, <1>7, BoxesAreBoxes
  DEF HostIInv, HostTypeOK, SendResult, worldVars, callVars

LEMMA UnlinkType ==
  ASSUME HostIInv, NEW p \in Players, Unlink(p)
  PROVE  /\ subscribers' \in [Keys -> SUBSET Players]
         /\ tags' \in [Keys -> SUBSET Calls]
         /\ sent' \in [Keys -> 0 .. revision]
         /\ last' \in [Keys -> {"none", "ok", "failed", "dropped"}]
BY KeyOfType DEF HostIInv, HostTypeOK, Unlink

LEMMA UnsubscribeType ==
  ASSUME HostIInv, NEW p \in Players, Unsubscribe(p)
  PROVE  HostIInv' /\ revision <= revision'
<1>1. CASE Unlink(p)
  BY <1>1, UnlinkType
  DEF Unsubscribe, HostIInv, HostTypeOK, worldVars, callVars, wireVars
<1>2. CASE UNCHANGED <<subscribers, tags, sent, last>>
  BY <1>2 DEF Unsubscribe, HostIInv, HostTypeOK, worldVars, callVars, wireVars
<1> QED BY <1>1, <1>2 DEF Unsubscribe

(* An item under a new revision in p's outbox.                             *)
LEMMA AnswerType ==
  ASSUME HostIInv, NEW p \in Players, NEW data \in Values \cup {NoValue},
         NEW error \in {"none", "load", "forbidden"}, revision' = revision + 1,
         outbox' = [outbox EXCEPT ![p] = Replace(@, StateItem(revision + 1, data, error))]
  PROVE  outbox' \in [Players -> Seq(ItemsTo(revision'))]
<1>1. revision' \in Nat /\ revision <= revision' /\ revision + 1 \in 1 .. revision'
  BY DEF HostIInv, HostTypeOK
<1>2. \A q \in Players : outbox[q] \in Seq(ItemsTo(revision'))
  BY <1>1, BoxesGrow
<1>3. Replace(outbox[p], StateItem(revision + 1, data, error)) \in Seq(ItemsTo(revision'))
  BY <1>1, <1>2, StateItemType, ReplaceType
<1>4. outbox = [q \in Players |-> outbox[q]]
  BY DEF HostIInv
<1> QED BY <1>2, <1>3, <1>4

LEMMA SubscribeType ==
  ASSUME HostIInv, NEW p \in Players, Subscribe(p)
  PROVE  HostIInv' /\ revision <= revision'
<1> USE KeyOfType
<1>0. revision \in Nat
  BY DEF HostIInv, HostTypeOK
<1>1. CASE Refuse(p)
  <2>1. /\ subscribers' \in [Keys -> SUBSET Players]
        /\ tags' \in [Keys -> SUBSET Calls]
        /\ sent' \in [Keys -> 0 .. revision]
        /\ last' \in [Keys -> {"none", "ok", "failed", "dropped"}]
    BY <1>1, UnlinkType DEF Refuse, HostIInv, HostTypeOK
  <2>2. outbox' \in [Players -> Seq(ItemsTo(revision'))]
    BY <1>1, AnswerType DEF Refuse
  <2>3. 0 .. revision \subseteq 0 .. revision' /\ revision + 1 \in 0 .. revision'
    BY <1>0, <1>1 DEF Refuse
  <2>4. refusedAt' \in [Players -> 0 .. revision'] /\ sent' \in [Keys -> 0 .. revision']
    BY <1>1, <2>1, <2>3 DEF Refuse, HostIInv, HostTypeOK
  <2>5. load' \in [Keys -> Loads] /\ \A j \in Keys : load'[j].at <= revision'
    BY <1>0, <1>1 DEF Refuse, HostIInv, HostTypeOK, Loads
  <2>6. outbox' \in [Players -> Seq(Items)] /\ revision' \in Nat /\ revision <= revision'
    BY <1>0, <1>1, <2>2, BoxesAreBoxes DEF Refuse
  <2>7. UNCHANGED <<worldVars, source, ran, untagged, dirty, cached>>
    BY <1>1 DEF Refuse
  <2>8. cutOff' \subseteq Calls
    BY <1>1 DEF Refuse, TagsOf, HostIInv, HostTypeOK
  <2> QED
    BY <2>1, <2>2, <2>4, <2>5, <2>6, <2>7, <2>8 DEF HostIInv, HostTypeOK, worldVars
<1>2. CASE Join(p)
  BY <1>2 DEF Join, Admitted, HostIInv, HostTypeOK, worldVars, callVars, wireVars
<1>3. CASE AnswerCached(p)
  <2>1. outbox' \in [Players -> Seq(ItemsTo(revision'))]
    BY <1>3, AnswerType DEF AnswerCached, FreshRevision, HostIInv, HostTypeOK
  <2>2. /\ subscribers' \in [Keys -> SUBSET Players]
        /\ refusedAt' \in [Players -> 0 .. revision'] /\ sent' \in [Keys -> 0 .. revision']
    BY <1>0, <1>3 DEF AnswerCached, Admitted, FreshRevision, HostIInv, HostTypeOK
  <2> QED
    BY <1>0, <1>3, <2>1, <2>2, BoxesAreBoxes
    DEF AnswerCached, FreshRevision, HostIInv, HostTypeOK, Loads, worldVars, callVars
<1>4. CASE LoadFor(p)
  <2> DEFINE k == KeyOf(p)
  <2>1. /\ revision' \in Nat /\ revision <= revision'
        /\ load' \in [Keys -> Loads]
        /\ \A j \in Keys : load'[j].at <= revision'
        /\ dirty' \in [Keys -> BOOLEAN]
    BY <1>4, LoadType DEF LoadFor, HostIInv, HostTypeOK
  <2>2. outbox' \in [Players -> Seq(ItemsTo(revision'))]
    BY <1>4, <2>1, BoxesGrow DEF LoadFor, HostIInv, wireVars
  <2>3. /\ subscribers' \in [Keys -> SUBSET Players]
        /\ refusedAt' \in [Players -> 0 .. revision'] /\ sent' \in [Keys -> 0 .. revision']
    BY <1>0, <1>4, <2>1 DEF LoadFor, Admitted, HostIInv, HostTypeOK, wireVars
  <2> QED
    BY <1>4, <2>1, <2>2, <2>3, BoxesAreBoxes
    DEF LoadFor, HostIInv, HostTypeOK, worldVars, callVars, wireVars
<1> QED BY <1>1, <1>2, <1>3, <1>4 DEF Subscribe

LEMMA ForgetPlayerType ==
  ASSUME HostIInv, NEW p \in Players, ForgetPlayer(p)
  PROVE  HostIInv' /\ revision <= revision'
<1> USE KeyOfType
<1>1. load' \in [Keys -> Loads] /\ \A j \in Keys : load'[j].at <= revision'
  BY NoLoadType DEF HostIInv, HostTypeOK, ForgetPlayer
<1>2. 0 \in 0 .. revision /\ << >> \in Seq(ItemsTo(revision)) /\ revision \in Nat
  BY EmptySeq DEF HostIInv, HostTypeOK
<1>3. sent' \in [Keys -> 0 .. revision'] /\ outbox' \in [Players -> Seq(ItemsTo(revision'))]
  BY <1>2 DEF HostIInv, HostTypeOK, ForgetPlayer
<1>4. /\ here' \subseteq Players /\ dirty' \in [Keys -> BOOLEAN]
      /\ subscribers' \in [Keys -> SUBSET Players] /\ tags' \in [Keys -> SUBSET Calls]
      /\ last' \in [Keys -> {"none", "ok", "failed", "dropped"}]
  BY DEF HostIInv, HostTypeOK, ForgetPlayer
<1>5. UNCHANGED <<scope, late, allowed, callVars, revision, cached, refusedAt>>
  BY DEF ForgetPlayer
<1> QED
  BY <1>1, <1>2, <1>3, <1>4, <1>5, BoxesAreBoxes DEF HostIInv, HostTypeOK, callVars

LEMMA WriteType ==
  ASSUME HostIInv, NEW k \in Keys, NEW w \in Calls \cup Pushes, Write(k, w)
  PROVE  source' \in [Keys -> Values] /\ source[k] \cup {w} \in Values
BY DEF HostIInv, HostTypeOK, Write, Values

LEMMA PushType ==
  ASSUME HostIInv, NEW k \in Keys, NEW w \in Pushes, Push(k, w)
  PROVE  HostIInv' /\ revision <= revision'
<1>1. source' \in [Keys -> Values] /\ source[k] \cup {w} \in Values
  BY WriteType DEF Push
<1>2. /\ revision' \in Nat /\ revision <= revision' /\ revision \in Nat
      /\ load' \in [Keys -> Loads]
      /\ \A j \in Keys : load'[j].at <= revision'
      /\ dirty' \in [Keys -> BOOLEAN]
      /\ cached' \in [Keys -> Values \cup {NoValue}]
  BY <1>1, InvalidateType DEF Push, HostIInv, HostTypeOK
<1>3. UNCHANGED <<worldVars, wireVars, ran, untagged, cutOff, subscribers, sent, tags, last>>
  BY DEF Push
<1>4. outbox' \in [Players -> Seq(ItemsTo(revision'))]
  BY <1>2, <1>3, BoxesGrow DEF HostIInv, wireVars
<1>5. sent' \in [Keys -> 0 .. revision'] /\ refusedAt' \in [Players -> 0 .. revision']
  BY <1>2, <1>3 DEF HostIInv, HostTypeOK, wireVars
<1> QED
  BY <1>1, <1>2, <1>3, <1>4, <1>5, BoxesAreBoxes DEF HostIInv, HostTypeOK, worldVars

LEMMA TagsWithType ==
  ASSUME HostIInv, NEW c \in Calls
  PROVE  TagsWith(c) \in SUBSET Calls
BY ItemsAssumption, KeyOfType DEF TagsWith, HostIInv, HostTypeOK

LEMMA RunCallType ==
  ASSUME HostIInv, NEW c \in Calls, RunCall(c)
  PROVE  HostIInv' /\ revision <= revision'
<1> DEFINE k == KeyOf(Caller[c])
<1>0. Caller[c] \in Players /\ k \in Keys
  BY ItemsAssumption, KeyOfType
<1>1. source' \in [Keys -> Values] /\ source[k] \cup {c} \in Values
  BY <1>0, WriteType DEF RunCall
<1>2. /\ revision' \in Nat /\ revision <= revision' /\ revision \in Nat
      /\ load' \in [Keys -> Loads]
      /\ \A j \in Keys : load'[j].at <= revision'
      /\ dirty' \in [Keys -> BOOLEAN]
      /\ cached' \in [Keys -> Values \cup {NoValue}]
  BY <1>0, <1>1, TagsWithType, InvalidateType DEF RunCall, Covered, HostIInv, HostTypeOK
<1>3. UNCHANGED <<worldVars, wireVars, cutOff, subscribers, sent, last>>
  BY DEF RunCall
<1>4. outbox' \in [Players -> Seq(ItemsTo(revision'))]
  BY <1>2, <1>3, BoxesGrow DEF HostIInv, wireVars
<1>5. sent' \in [Keys -> 0 .. revision'] /\ refusedAt' \in [Players -> 0 .. revision']
  BY <1>2, <1>3 DEF HostIInv, HostTypeOK, wireVars
<1>6. /\ tags' \in [Keys -> SUBSET Calls] /\ untagged' \subseteq Calls
      /\ ran' \in [Calls -> {"no", "received", "ran", "failed", "answered"}]
  BY <1>0, TagsWithType DEF RunCall, HostIInv, HostTypeOK
<1> QED
  BY <1>1, <1>2, <1>3, <1>4, <1>5, <1>6, BoxesAreBoxes DEF HostIInv, HostTypeOK, worldVars

LEMMA LateReadType ==
  ASSUME HostIInv, NEW k \in Keys, LateRead(k)
  PROVE  HostIInv' /\ revision <= revision'
<1>1. load' \in [Keys -> Loads] /\ \A j \in Keys : load'[j].at <= revision
  <2> DEFINE reread == [load[k] EXCEPT !.read = source[k]]
  <2>1. load[k] \in Loads /\ source[k] \in Values /\ load[k].at <= revision
    BY DEF HostIInv, HostTypeOK
  <2>2. reread \in Loads /\ reread.at <= revision
    BY <2>1 DEF Loads
  <2>3. load' = [load EXCEPT ![k] = reread]
    BY DEF LateRead
  <2> QED BY <2>2, <2>3 DEF HostIInv, HostTypeOK
<1>2. UNCHANGED <<worldVars, callVars, wireVars, revision, subscribers, dirty, sent,
                  cached, tags, last>>
  BY DEF LateRead
<1> QED
  BY <1>1, <1>2 DEF HostIInv, HostTypeOK, worldVars, callVars, wireVars

LEMMA RespondType ==
  ASSUME HostIInv, NEW c \in Calls, Respond(c)
  PROVE  HostIInv' /\ revision <= revision'
<1> DEFINE p == Caller[c]
<1>0. p \in Players /\ PendingTag(c) \in BOOLEAN
  BY ItemsAssumption DEF PendingTag
<1>1. Append(outbox[p], Response(c, PendingTag(c))) \in Seq(ItemsTo(revision))
  BY <1>0, ResponseType, AppendProperties DEF HostIInv
<1>2. ran' \in [Calls -> {"no", "received", "ran", "failed", "answered"}]
  BY DEF Respond, HostIInv, HostTypeOK
<1>3. UNCHANGED <<worldVars, keyVars, source, untagged, cutOff, refusedAt>>
  BY DEF Respond
<1>4. outbox' \in [Players -> Seq(ItemsTo(revision'))]
  BY <1>1, <1>3 DEF Respond, HostIInv, keyVars
<1> QED
  BY <1>2, <1>3, <1>4, BoxesAreBoxes DEF HostIInv, HostTypeOK, worldVars, keyVars

(* The steps that touch no key.                                            *)
LEMMA OtherHostType ==
  ASSUME HostIInv,
         \/ \E c \in Calls : FailCall(c)
         \/ \E p \in Players : Authorize(p)
         \/ UNCHANGED hostVars
  PROVE  HostIInv' /\ revision <= revision'
<1>1. CASE \E c \in Calls : FailCall(c)
  BY <1>1 DEF FailCall, HostIInv, HostTypeOK, worldVars, keyVars, wireVars
<1>2. CASE \E p \in Players : Authorize(p)
  BY <1>2 DEF Authorize, HostIInv, HostTypeOK, keyVars, callVars, wireVars
<1>3. CASE UNCHANGED hostVars
  BY <1>3 DEF hostVars, HostIInv, HostTypeOK, worldVars, keyVars, callVars, wireVars
<1> QED BY <1>1, <1>2, <1>3

-----------------------------------------------------------------------------
(* The clients' steps, and the whole.                                      *)

LEMMA DownGrows ==
  ASSUME HostIInv, ClientIInv, revision' \in Nat, revision <= revision', UNCHANGED down
  PROVE  down' \in [Players -> Seq(ItemsTo(revision'))]
BY ItemsGrow DEF HostIInv, HostTypeOK, ClientIInv

LEMMA FloorsGrow ==
  ASSUME HostIInv, ClientIInv, revision' \in Nat, revision <= revision', UNCHANGED floor
  PROVE  \A p \in Players : floor'[p] <= revision'
BY DEF HostIInv, HostTypeOK, ClientIInv, ClientTypeOK

(* A host step, as the clients see it.                                     *)
LEMMA ClientFrame ==
  ASSUME HostIInv, ClientIInv, HostIInv', revision <= revision',
         UNCHANGED <<active, status, value, floor, updates, called, up, down>>
  PROVE  ClientIInv'
<1>1. revision' \in Nat
  BY DEF HostIInv, HostTypeOK
<1> QED BY <1>1, DownGrows, FloorsGrow DEF ClientIInv, ClientTypeOK

LEMMA RequestTypes ==
  /\ Subscribing \in Requests /\ Unsubscribing \in Requests
  /\ \A c \in Calls : Calling(c) \in Requests
  /\ \A item \in Requests : item.o = "call" => item.i \in Calls
<1>1. ASSUME NEW item \in Requests, item.o = "call"
      PROVE  item.i \in Calls
  <2>1. item # Subscribing /\ item # Unsubscribing
    BY <1>1 DEF Subscribing, Unsubscribing
  <2>2. PICK c \in Calls : item = Calling(c)
    BY <2>1 DEF Requests
  <2> QED BY <2>2 DEF Calling
<1> QED BY <1>1 DEF Requests

LEMMA RequestType ==
  ASSUME ClientTypeOK, NEW p \in Players, NEW item \in Requests, Request(p, item)
  PROVE  up' \in [Players -> Seq(Requests)]
<1>1. Append(up[p], item) \in Seq(Requests)
  BY AppendProperties DEF ClientTypeOK
<1> QED BY <1>1 DEF ClientTypeOK, Request

LEMMA ShedType ==
  ASSUME ClientTypeOK, NEW p \in Players, Shed(p)
  PROVE  /\ active' \in [Players -> BOOLEAN]
         /\ status' \in [Players -> {"loading", "ready", "error"}]
         /\ value' \in [Players -> Values \cup {NoValue}]
         /\ updates' \in [Players -> SUBSET Calls]
BY DEF ClientTypeOK, Shed

LEMMA ClientStepType ==
  ASSUME TypeIInv, NEW p \in Players, ClientStep(p)
  PROVE  TypeIInv'
<1> USE DEF TypeIInv
<1>1. HostIInv' /\ UNCHANGED <<hostVars, down>>
  BY OtherHostType DEF ClientStep
<1>2. ClientTypeOK
  BY DEF ClientIInv
<1>3. ClientTypeOK' /\ UNCHANGED floor
  <2>1. CASE ClientSubscribe(p)
    BY <1>2, <2>1, RequestTypes, RequestType DEF ClientSubscribe, ClientTypeOK
  <2>2. CASE Refresh(p)
    BY <1>2, <2>2, RequestTypes, RequestType DEF Refresh, ClientTypeOK
  <2>3. CASE Disconnect(p)
    BY <1>2, <2>3, RequestTypes, RequestType, ShedType DEF Disconnect, ClientTypeOK
  <2>4. ASSUME NEW c \in Calls, Caller[c] = p, BeginCall(c)
        PROVE  ClientTypeOK' /\ UNCHANGED floor
    <3>1. up' \in [Players -> Seq(Requests)]
      BY <1>2, <2>4, RequestTypes, RequestType DEF BeginCall
    <3>2. called' \in [Calls -> {"new", "waiting", "answered", "rejected", "expired"}]
      BY <1>2, <2>4 DEF BeginCall, ClientTypeOK
    <3>3. updates' \in [Players -> SUBSET Calls]
      BY <1>2, <2>4 DEF BeginCall, ClientTypeOK
    <3> QED BY <1>2, <2>4, <3>1, <3>2, <3>3 DEF BeginCall, ClientTypeOK
  <2> QED BY <2>1, <2>2, <2>3, <2>4 DEF ClientStep
<1> QED
  BY <1>1, <1>3
  DEF ClientIInv, HostIInv, HostTypeOK, hostVars, keyVars

LEMMA CallStepType ==
  ASSUME TypeIInv, NEW c \in Calls, CallStep(c)
  PROVE  TypeIInv'
<1> USE DEF TypeIInv
<1>1. HostIInv' /\ UNCHANGED <<hostVars, down>>
  BY OtherHostType DEF CallStep
<1>2. /\ updates' \in [Players -> SUBSET Calls]
      /\ called' \in [Calls -> {"new", "waiting", "answered", "rejected", "expired"}]
      /\ UNCHANGED <<active, status, value, floor, up>>
  <2>1. /\ updates \in [Players -> SUBSET Calls]
        /\ called \in [Calls -> {"new", "waiting", "answered", "rejected", "expired"}]
    BY DEF ClientIInv, ClientTypeOK
  <2>2. updates' \in [Players -> SUBSET Calls]
    BY <2>1 DEF CallStep, RejectCall, SettleTimeout, Withdraw
  <2>3. called' \in [Calls -> {"new", "waiting", "answered", "rejected", "expired"}]
    BY <2>1 DEF CallStep, RejectCall, SettleTimeout
  <2> QED BY <2>2, <2>3 DEF CallStep, RejectCall, SettleTimeout
<1> QED
  BY <1>1, <1>2
  DEF ClientIInv, ClientTypeOK, HostIInv, HostTypeOK, hostVars, keyVars

LEMMA ReceiveType ==
  ASSUME TypeIInv, NEW p \in Players, Receive(p)
  PROVE  TypeIInv'
<1> USE DEF TypeIInv
<1> DEFINE item == Head(up[p])
<1>1. item \in Requests /\ Tail(up[p]) \in Seq(Requests)
  BY HeadTailProperties DEF Receive, ClientIInv, ClientTypeOK
<1>2. HostIInv' /\ revision <= revision'
  <2>1. CASE Subscribe(p)
    BY <2>1, SubscribeType
  <2>2. CASE Unsubscribe(p)
    BY <2>2, UnsubscribeType
  <2>3. CASE /\ item.o = "call"
             /\ ran' = [ran EXCEPT ![item.i] = "received"]
             /\ UNCHANGED <<worldVars, keyVars, wireVars, source, untagged, cutOff>>
    <3>1. ran' \in [Calls -> {"no", "received", "ran", "failed", "answered"}]
      BY <1>1, <2>3, RequestTypes DEF HostIInv, HostTypeOK
    <3> QED
      BY <2>3, <3>1 DEF HostIInv, HostTypeOK, worldVars, keyVars, wireVars
  <2> QED BY <2>1, <2>2, <2>3 DEF Receive
<1>3. up' \in [Players -> Seq(Requests)]
  BY <1>1 DEF Receive, ClientIInv, ClientTypeOK
<1>4. UNCHANGED <<active, status, value, floor, updates, called, down>>
  BY DEF Receive
<1>5. down' \in [Players -> Seq(ItemsTo(revision'))] /\ \A q \in Players : floor'[q] <= revision'
  BY <1>2, <1>4, DownGrows, FloorsGrow DEF HostIInv, HostTypeOK
<1> QED BY <1>2, <1>3, <1>4, <1>5 DEF ClientIInv, ClientTypeOK

LEMMA FlushType ==
  ASSUME TypeIInv, Flush
  PROVE  TypeIInv'
<1> USE DEF TypeIInv
<1>1. UNCHANGED <<worldVars, callVars, keyVars, refusedAt, clientVars>>
  BY DEF Flush
<1>2. \A p \in Players :
        << >> \in Seq(ItemsTo(revision)) /\ down[p] \o outbox[p] \in Seq(ItemsTo(revision))
  BY EmptySeq, ConcatProperties DEF HostIInv, ClientIInv
<1>3. outbox' \in [Players -> Seq(ItemsTo(revision'))] /\ down' \in [Players -> Seq(ItemsTo(revision'))]
  BY <1>1, <1>2 DEF Flush, keyVars
<1>4. HostIInv'
  BY <1>1, <1>3, BoxesAreBoxes DEF HostIInv, HostTypeOK, worldVars, callVars, keyVars
<1> QED
  BY <1>1, <1>3, <1>4 DEF ClientIInv, ClientTypeOK, clientVars, keyVars

LEMMA DeliverType ==
  ASSUME TypeIInv, NEW p \in Players, Deliver(p)
  PROVE  TypeIInv'
<1> USE DEF TypeIInv
<1> DEFINE item == Head(down[p])
<1>1. item \in ItemsTo(revision) /\ Tail(down[p]) \in Seq(ItemsTo(revision))
  BY HeadTailProperties DEF Deliver, ClientIInv
<1>2. HostIInv' /\ UNCHANGED hostVars
  BY OtherHostType DEF Deliver
<1>3. ClientTypeOK' /\ \A q \in Players : floor'[q] <= revision
  <2>1. CASE HandleState(p, item)
    <3>1. item \in StateItems /\ item.v \in Nat /\ item.v <= revision
      BY <1>1, <2>1 DEF HandleState, ItemsTo, Items, StateItems, Responses
    <3>2. /\ updates' \in [Players -> SUBSET Calls]
          /\ floor' \in [Players -> Nat] /\ \A q \in Players : floor'[q] <= revision
      BY <2>1, <3>1 DEF HandleState, Unsettled, ClientIInv, ClientTypeOK
    <3>3. /\ status' \in [Players -> {"loading", "ready", "error"}]
          /\ value' \in [Players -> Values \cup {NoValue}]
      BY <2>1, <3>1 DEF HandleState, ClientIInv, ClientTypeOK, StateItems
    <3> QED BY <2>1, <3>2, <3>3 DEF HandleState, ClientIInv, ClientTypeOK
  <2>2. CASE HandleResponse(p, item)
    <3>1. item.i \in Calls
      BY <1>1, <2>2 DEF HandleResponse, ItemsTo, Items, StateItems, Responses
    <3>2. /\ updates' \in [Players -> SUBSET Calls]
          /\ called' \in [Calls -> {"new", "waiting", "answered", "rejected", "expired"}]
          /\ UNCHANGED <<active, status, value, floor, up>>
      <4>1. /\ updates \in [Players -> SUBSET Calls]
            /\ called \in [Calls -> {"new", "waiting", "answered", "rejected", "expired"}]
        BY DEF ClientIInv, ClientTypeOK
      <4>2. CASE called[item.i] = "waiting"
        BY <2>2, <3>1, <4>1, <4>2 DEF HandleResponse
      <4>3. CASE called[item.i] # "waiting"
        BY <2>2, <4>1, <4>3 DEF HandleResponse
      <4> QED BY <4>2, <4>3
    <3> QED BY <3>2 DEF ClientIInv, ClientTypeOK
  <2> QED BY <2>1, <2>2 DEF Deliver, Handle
<1>4. down' \in [Players -> Seq(ItemsTo(revision))]
  BY <1>1 DEF Deliver, ClientIInv
<1> QED BY <1>2, <1>3, <1>4 DEF ClientIInv, hostVars, keyVars

LEMMA LeaveType ==
  ASSUME TypeIInv, NEW p \in Players, Leave(p)
  PROVE  TypeIInv'
<1> USE DEF TypeIInv
<1>1. HostIInv' /\ UNCHANGED revision
  BY ForgetPlayerType DEF Leave, ForgetPlayer
<1>2. /\ active' \in [Players -> BOOLEAN]
      /\ status' \in [Players -> {"loading", "ready", "error"}]
      /\ value' \in [Players -> Values \cup {NoValue}]
      /\ updates' \in [Players -> SUBSET Calls]
  BY ShedType DEF Leave, ClientGone, ClientIInv
<1>3. up' \in [Players -> Seq(Requests)] /\ UNCHANGED <<floor, called>>
  BY EmptySeq DEF Leave, ClientGone, ClientIInv, ClientTypeOK
<1>4. down' \in [Players -> Seq(ItemsTo(revision))]
  BY EmptySeq DEF Leave, ClientIInv
<1> QED BY <1>1, <1>2, <1>3, <1>4 DEF ClientIInv, ClientTypeOK

LEMMA TypeInit == Init => TypeIInv
<1> SUFFICES ASSUME Init PROVE TypeIInv
  OBVIOUS
<1>1. HostIInv
  <2>1. /\ load \in [Keys -> Loads] /\ \A k \in Keys : load[k].at <= revision
        /\ outbox \in [Players -> Seq(ItemsTo(revision))] /\ outbox \in [Players -> Seq(Items)]
    BY NoLoadType, EmptySeq DEF Init, HostInit
  <2> QED BY <2>1 DEF Init, HostInit, HostIInv, HostTypeOK, Values
<1>2. ClientIInv
  <2>1. /\ up \in [Players -> Seq(Requests)]
        /\ down \in [Players -> Seq(ItemsTo(revision))]
    BY EmptySeq DEF Init, ClientInit
  <2> QED BY <2>1 DEF Init, HostInit, ClientInit, ClientIInv, ClientTypeOK
<1> QED BY <1>1, <1>2 DEF TypeIInv

(* A host step changes nothing a client has.                               *)
LEMMA HostStepType ==
  ASSUME TypeIInv, HostIInv', revision <= revision', UNCHANGED <<clientVars, down>>
  PROVE  TypeIInv'
BY ClientFrame DEF TypeIInv, clientVars

LEMMA TypeNext == TypeIInv /\ [Next]_vars => TypeIInv'
<1> SUFFICES ASSUME TypeIInv, [Next]_vars PROVE TypeIInv'
  OBVIOUS
<1> USE DEF TypeIInv
<1>1. ASSUME NEW k \in Keys, NEW ok \in BOOLEAN, LoadEnds(k, ok)
      PROVE  TypeIInv'
  BY <1>1, DropResultType, SendResultType, HostStepType DEF LoadEnds, FinishLoad
<1>2. CASE Flush
  BY <1>2, FlushType
<1>3. ASSUME NEW c \in Calls, CallRuns(c)
      PROVE  TypeIInv'
  <2>1. CASE RunCall(c)
    BY <1>3, <2>1, RunCallType, HostStepType DEF CallRuns
  <2>2. CASE FailCall(c)
    BY <1>3, <2>2, OtherHostType, HostStepType DEF CallRuns
  <2>3. CASE Respond(c)
    BY <1>3, <2>3, RespondType, HostStepType DEF CallRuns
  <2> QED BY <1>3, <2>1, <2>2, <2>3 DEF CallRuns
<1>4. ASSUME NEW p \in Players, Receive(p) \/ Deliver(p) \/ ClientStep(p) \/ Leave(p)
      PROVE  TypeIInv'
  BY <1>4, ReceiveType, DeliverType, ClientStepType, LeaveType
<1>5. CASE HostStep
  <2>1. ASSUME NEW k \in Keys, NEW w \in Pushes, Push(k, w) PROVE TypeIInv'
    BY <1>5, <2>1, PushType, HostStepType DEF HostStep
  <2>2. ASSUME NEW k \in Keys, LateRead(k) PROVE TypeIInv'
    BY <1>5, <2>2, LateReadType, HostStepType DEF HostStep
  <2>3. CASE \E p \in Players : Authorize(p)
    BY <1>5, <2>3, OtherHostType, HostStepType DEF HostStep
  <2> QED BY <1>5, <2>1, <2>2, <2>3 DEF HostStep
<1>6. ASSUME NEW c \in Calls, CallStep(c)
      PROVE  TypeIInv'
  BY <1>6, CallStepType
<1>7. CASE UNCHANGED vars
  BY <1>7, OtherHostType, HostStepType DEF vars
<1> QED BY <1>1, <1>2, <1>3, <1>4, <1>5, <1>6, <1>7 DEF Next, Step

LEMMA TypeImplies == TypeIInv => TypeOK
BY ItemsAreItems DEF TypeIInv, HostIInv, ClientIInv, TypeOK

(* Every variable keeps its type, and no client has seen a revision its    *)
(* host has not given (`floors` against `revision`), so an item under a new*)
(* revision is never stale.                                                *)
THEOREM TypeCorrect == Spec => []TypeOK
<1>1. Spec => []TypeIInv
  BY TypeInit, TypeNext, PTL DEF Spec
<1> QED BY <1>1, TypeImplies, PTL

-----------------------------------------------------------------------------
(* Tags.  TagsAreDue alone is not inductive: a tag must be of a subscriber *)
(* of its key, or the load that is to deliver it might not be started, or  *)
(* find nobody to send to.                                                 *)

TagHome ==
  \A k \in Keys : \A c \in tags[k] :
    KeyOf(Caller[c]) = k /\ Caller[c] \in subscribers[k]

TagIInv == TagHome /\ TagsAreDue

(* What a step may do to the keys.                                         *)
KeyStep ==
  \/ \E k \in Keys, ok \in BOOLEAN : DropResult(k, ok) \/ SendResult(k, ok)
  \/ \E k \in Keys : LateRead(k)
  \/ \E k \in Keys, w \in Pushes : Push(k, w)
  \/ \E p \in Players : Unsubscribe(p) \/ Subscribe(p) \/ ForgetPlayer(p)
  \/ \E c \in Calls : RunCall(c)
  \/ UNCHANGED <<scope, source, keyVars>>

LEMMA NextIsKeyStep == [Next]_vars => KeyStep
<1> SUFFICES ASSUME [Next]_vars PROVE KeyStep
  OBVIOUS
<1>1. ASSUME NEW k \in Keys, NEW ok \in BOOLEAN, LoadEnds(k, ok) PROVE KeyStep
  BY <1>1 DEF LoadEnds, FinishLoad, KeyStep
<1>2. CASE Flush
  BY <1>2 DEF Flush, worldVars, callVars, KeyStep
<1>3. ASSUME NEW c \in Calls, CallRuns(c) PROVE KeyStep
  BY <1>3 DEF CallRuns, FailCall, Respond, worldVars, KeyStep
<1>4. ASSUME NEW p \in Players, Receive(p) PROVE KeyStep
  BY <1>4 DEF Receive, worldVars, KeyStep
<1>5. ASSUME NEW p \in Players, Leave(p) PROVE KeyStep
  BY <1>5 DEF Leave, KeyStep
<1>6. CASE HostStep
  BY <1>6 DEF HostStep, Authorize, callVars, KeyStep
<1>7. CASE UNCHANGED hostVars
  BY <1>7 DEF hostVars, worldVars, callVars, KeyStep
<1>8. ASSUME NEW p \in Players, Deliver(p) \/ ClientStep(p) PROVE KeyStep
  BY <1>7, <1>8 DEF Deliver, ClientStep
<1>9. ASSUME NEW c \in Calls, CallStep(c) PROVE KeyStep
  BY <1>7, <1>9 DEF CallStep
<1> QED
  BY <1>1, <1>2, <1>3, <1>4, <1>5, <1>6, <1>7, <1>8, <1>9 DEF Next, Step, vars

LEMMA TagInit == Init => TagIInv
BY DEF Init, HostInit, TagIInv, TagHome, TagsAreDue

(* Fewer tags, with the subscribers of those left and the loads unchanged. *)
LEMMA TagsShrink ==
  ASSUME HostTypeOK, TagIInv, UNCHANGED <<scope, load, dirty>>,
         \A k \in Keys : tags'[k] \subseteq tags[k],
         \A k \in Keys : \A c \in tags'[k] : Caller[c] \in subscribers'[k]
  PROVE  TagIInv'
BY DEF TagIInv, TagHome, TagsAreDue, Running, KeyOf

(* A load of k that covers its tags, now or after the one running.         *)
LEMMA LoadKeepsTags ==
  ASSUME HostIInv, TagIInv, NEW k \in Keys, NEW covering, NEW data,
         Load(k, covering, data), UNCHANGED scope,
         tags' = [tags EXCEPT ![k] = covering],
         \A j \in Keys : subscribers[j] \subseteq subscribers'[j],
         \A c \in covering : KeyOf(Caller[c]) = k /\ Caller[c] \in subscribers'[k]
  PROVE  TagIInv'
<1>1. TagHome'
  BY DEF TagIInv, TagHome, KeyOf, HostIInv, HostTypeOK
<1>2. CASE Running(k) /\ dirty' = [dirty EXCEPT ![k] = TRUE] /\ UNCHANGED <<revision, load>>
  BY <1>1, <1>2 DEF TagIInv, TagsAreDue, Running, HostIInv, HostTypeOK
<1>3. CASE StartLoad(k, covering, data)
  <2>1. PICK sync \in BOOLEAN : load' = [load EXCEPT ![k] =
          [at |-> revision + 1, covering |-> covering, read |-> data, sync |-> sync]]
    BY <1>3 DEF StartLoad
  <2>2. revision + 1 # 0
    BY DEF HostIInv, HostTypeOK
  <2>3. dirty' = [dirty EXCEPT ![k] = FALSE]
    BY <1>3 DEF StartLoad
  <2> QED
    BY <1>1, <2>1, <2>2, <2>3 DEF TagIInv, TagsAreDue, Running, HostIInv, HostTypeOK
<1> QED BY <1>2, <1>3 DEF Load

LEMMA InvalidateKeepsTags ==
  ASSUME HostIInv, TagIInv, NEW k \in Keys, NEW covering, NEW data,
         Invalidate(k, covering, data), UNCHANGED <<scope, subscribers>>,
         tags' = [tags EXCEPT ![k] = covering],
         \A c \in covering : KeyOf(Caller[c]) = k /\ Caller[c] \in subscribers[k]
  PROVE  TagIInv'
<1>1. CASE Load(k, covering, data)
  BY <1>1, LoadKeepsTags
<1>2. CASE /\ subscribers[k] = {}
           /\ dirty' = [dirty EXCEPT ![k] = @ \/ Running(k)]
           /\ UNCHANGED <<revision, load>>
  <2>1. covering = {}
    BY <1>2
  <2> QED
    BY <1>2, <2>1 DEF TagIInv, TagHome, TagsAreDue, Running, KeyOf, HostIInv, HostTypeOK
<1> QED BY <1>1, <1>2 DEF Invalidate

LEMMA UnlinkKeepsTags ==
  ASSUME HostIInv, TagIInv, NEW p \in Players, Unlink(p), UNCHANGED <<scope, load, dirty>>
  PROVE  TagIInv'
<1> DEFINE k == KeyOf(p)
<1>1. \A j \in Keys : tags'[j] = IF j = k THEN tags[j] \ TagsOf(k, p) ELSE tags[j]
  BY KeyOfType DEF Unlink, HostIInv, HostTypeOK
<1>2. \A j \in Keys : subscribers'[j] = IF j = k THEN subscribers[j] \ {p} ELSE subscribers[j]
  BY KeyOfType DEF Unlink, HostIInv, HostTypeOK
<1>3. ASSUME NEW j \in Keys, NEW c \in tags'[j]
      PROVE  Caller[c] \in subscribers'[j]
  <2>1. c \in tags[j] /\ Caller[c] \in subscribers[j]
    BY <1>1, <1>3 DEF TagIInv, TagHome
  <2>2. CASE j = k
    <3>1. Caller[c] # p
      BY <1>1, <1>3, <2>1, <2>2 DEF TagsOf
    <3> QED BY <1>2, <2>1, <3>1
  <2>3. CASE j # k
    BY <1>2, <2>1, <2>3
  <2> QED BY <2>2, <2>3
<1> QED BY <1>1, <1>3, TagsShrink DEF HostIInv

LEMMA SubscribeKeepsTags ==
  ASSUME HostIInv, TagIInv, NEW p \in Players, Subscribe(p)
  PROVE  TagIInv'
<1> DEFINE k == KeyOf(p)
<1>0. k \in Keys
  BY KeyOfType
<1>1. CASE Refuse(p)
  <2>1. UNCHANGED <<scope, load, dirty>>
    BY <1>1 DEF Refuse, worldVars
  <2>2. CASE Unlink(p)
    BY <2>1, <2>2, UnlinkKeepsTags
  <2>3. CASE UNCHANGED <<subscribers, tags, sent, last>>
    BY <2>1, <2>3, TagsShrink DEF HostIInv, TagIInv, TagHome
  <2> QED BY <1>1, <2>2, <2>3 DEF Refuse
<1>2. ASSUME Admitted(p)
      PROVE  \A j \in Keys : subscribers[j] \subseteq subscribers'[j]
  BY <1>0, <1>2 DEF Admitted, HostIInv, HostTypeOK
<1>3. CASE Join(p) \/ AnswerCached(p)
  <2>1. UNCHANGED <<scope, load, dirty, tags>> /\ Admitted(p)
    BY <1>3 DEF Join, AnswerCached, worldVars
  <2> QED BY <1>2, <2>1, TagsShrink DEF HostIInv, TagIInv, TagHome
<1>4. CASE LoadFor(p)
  <2>1. UNCHANGED <<scope, tags>> /\ Admitted(p) /\ Load(k, tags[k], source[k])
    BY <1>4 DEF LoadFor, worldVars
  <2>2. tags' = [tags EXCEPT ![k] = tags[k]]
    BY <2>1 DEF HostIInv, HostTypeOK
  <2>3. \A c \in tags[k] : KeyOf(Caller[c]) = k /\ Caller[c] \in subscribers'[k]
    BY <1>0, <1>2, <2>1 DEF TagIInv, TagHome
  <2> QED BY <1>0, <1>2, <2>1, <2>2, <2>3, LoadKeepsTags
<1> QED BY <1>1, <1>3, <1>4 DEF Subscribe

LEMMA ResultKeepsTags ==
  ASSUME HostIInv, TagIInv, NEW k \in Keys, NEW ok \in BOOLEAN,
         DropResult(k, ok) \/ SendResult(k, ok)
  PROVE  TagIInv'
<1>1. CASE DropResult(k, ok)
  <2>1. tags[k] = {}
    BY <1>1 DEF DropResult, TagIInv, TagHome
  <2>2. \A j \in Keys \ {k} : load'[j] = load[j] /\ dirty'[j] = dirty[j]
    BY <1>1 DEF DropResult, HostIInv, HostTypeOK
  <2>3. UNCHANGED <<scope, subscribers, tags>>
    BY <1>1 DEF DropResult, worldVars
  <2> QED
    BY <2>1, <2>2, <2>3 DEF TagIInv, TagHome, TagsAreDue, Running, KeyOf
<1>2. CASE SendResult(k, ok)
  <2> DEFINE left == tags[k] \ load[k].covering
  <2>0. /\ UNCHANGED <<scope, subscribers>> /\ tags' = [tags EXCEPT ![k] = left]
        /\ Running(k)
    BY <1>2 DEF SendResult, worldVars
  <2>1. TagHome'
    BY <2>0 DEF TagIInv, TagHome, KeyOf, HostIInv, HostTypeOK
  <2>2. CASE dirty[k] /\ StartLoad(k, left, source[k])
    <3>1. PICK sync \in BOOLEAN : load' = [load EXCEPT ![k] =
            [at |-> revision + 1, covering |-> left, read |-> source[k], sync |-> sync]]
      BY <2>2 DEF StartLoad
    <3>2. revision + 1 # 0 /\ dirty' = [dirty EXCEPT ![k] = FALSE]
      BY <2>2 DEF StartLoad, HostIInv, HostTypeOK
    <3> QED
      BY <2>0, <2>1, <3>1, <3>2 DEF TagIInv, TagsAreDue, Running, HostIInv, HostTypeOK
  <2>3. CASE ~dirty[k] /\ load' = [load EXCEPT ![k] = NoLoad] /\ UNCHANGED <<revision, dirty>>
    <3>1. left = {}
      BY <2>3 DEF TagIInv, TagsAreDue
    <3> QED
      BY <2>0, <2>1, <2>3, <3>1 DEF TagIInv, TagsAreDue, Running, HostIInv, HostTypeOK
  <2> QED BY <1>2, <2>2, <2>3 DEF SendResult
<1> QED BY <1>1, <1>2

(* What a late read changes of a load.                                     *)
LEMMA LateReadLoad ==
  ASSUME HostIInv, NEW k \in Keys, LateRead(k)
  PROVE  \A j \in Keys :
           /\ load'[j].at = load[j].at /\ load'[j].covering = load[j].covering
           /\ load'[j].read = IF j = k THEN source[k] ELSE load[j].read
<1> DEFINE reread == [load[k] EXCEPT !.read = source[k]]
<1>1. load[k] \in Loads
  BY DEF HostIInv, HostTypeOK
<1>2. reread.at = load[k].at /\ reread.covering = load[k].covering /\ reread.read = source[k]
  BY <1>1 DEF Loads
<1>3. load' = [load EXCEPT ![k] = reread]
  BY DEF LateRead
<1> QED BY <1>2, <1>3 DEF HostIInv, HostTypeOK

LEMMA TagNext == TypeIInv /\ TagIInv /\ [Next]_vars => TagIInv'
<1> SUFFICES ASSUME HostIInv, TagIInv, KeyStep PROVE TagIInv'
  BY NextIsKeyStep DEF TypeIInv
<1>1. ASSUME NEW k \in Keys, NEW ok \in BOOLEAN, DropResult(k, ok) \/ SendResult(k, ok)
      PROVE  TagIInv'
  BY <1>1, ResultKeepsTags
<1>2. ASSUME NEW k \in Keys, LateRead(k)
      PROVE  TagIInv'
  <2>1. UNCHANGED <<scope, subscribers, tags, dirty>>
    BY <1>2 DEF LateRead, worldVars
  <2>2. \A j \in Keys : load'[j].at = load[j].at /\ load'[j].covering = load[j].covering
    BY <1>2, LateReadLoad
  <2> QED
    BY <2>1, <2>2 DEF TagIInv, TagHome, TagsAreDue, Running, KeyOf
<1>3. ASSUME NEW k \in Keys, NEW w \in Pushes, Push(k, w)
      PROVE  TagIInv'
  <2>1. UNCHANGED <<scope, subscribers, tags>> /\ Invalidate(k, tags[k], source[k] \cup {w})
    BY <1>3 DEF Push, worldVars
  <2>2. tags' = [tags EXCEPT ![k] = tags[k]]
    BY <2>1 DEF HostIInv, HostTypeOK
  <2>3. \A c \in tags[k] : KeyOf(Caller[c]) = k /\ Caller[c] \in subscribers[k]
    BY DEF TagIInv, TagHome
  <2> QED BY <2>1, <2>2, <2>3, InvalidateKeepsTags
<1>4. ASSUME NEW p \in Players, Unsubscribe(p)
      PROVE  TagIInv'
  <2>1. UNCHANGED <<scope, load, dirty>>
    BY <1>4 DEF Unsubscribe, worldVars
  <2>2. CASE Unlink(p)
    BY <2>1, <2>2, UnlinkKeepsTags
  <2>3. CASE UNCHANGED <<subscribers, tags, sent, last>>
    BY <2>1, <2>3, TagsShrink DEF HostIInv, TagIInv, TagHome
  <2> QED BY <1>4, <2>2, <2>3 DEF Unsubscribe
<1>5. ASSUME NEW p \in Players, Subscribe(p)
      PROVE  TagIInv'
  BY <1>5, SubscribeKeepsTags
<1>6. ASSUME NEW p \in Players, ForgetPlayer(p)
      PROVE  TagIInv'
  <2>1. /\ tags' = [k \in Keys |-> tags[k] \ TagsOf(k, p)]
        /\ subscribers' = [k \in Keys |-> subscribers[k] \ {p}]
        /\ UNCHANGED scope
        /\ \A k \in Keys \ {p} : load'[k] = load[k] /\ dirty'[k] = dirty[k]
    BY <1>6 DEF ForgetPlayer, HostIInv, HostTypeOK
  <2>2. TagHome'
    BY <2>1 DEF TagIInv, TagHome, TagsOf, KeyOf
  <2>3. tags'[p] = {}
    <3>1. \A c \in tags[p] : Caller[c] = p
      BY ItemsAssumption, HostAssumption, KeyOfType
      DEF TagIInv, TagHome, KeyOf, HostIInv, HostTypeOK
    <3> QED BY <2>1, <3>1, KeyOfType DEF TagsOf
  <2> QED BY <2>1, <2>2, <2>3 DEF TagIInv, TagsAreDue, Running, TagsOf
<1>7. ASSUME NEW c \in Calls, RunCall(c)
      PROVE  TagIInv'
  <2> DEFINE k == KeyOf(Caller[c])
  <2>1. /\ UNCHANGED <<scope, subscribers>>
        /\ Invalidate(k, TagsWith(c), source[k] \cup {c})
        /\ tags' = [tags EXCEPT ![k] = TagsWith(c)]
    BY <1>7 DEF RunCall, Covered, worldVars
  <2>2. k \in Keys /\ Caller[c] \in Players
    BY ItemsAssumption, KeyOfType
  <2>3. \A t \in TagsWith(c) : KeyOf(Caller[t]) = k /\ Caller[t] \in subscribers[k]
    BY <2>2 DEF TagsWith, Subscribed, TagIInv, TagHome
  <2> QED BY <2>1, <2>2, <2>3, InvalidateKeepsTags
<1>8. CASE UNCHANGED <<scope, source, keyVars>>
  BY <1>8 DEF keyVars, TagIInv, TagHome, TagsAreDue, Running, KeyOf
<1> QED BY <1>1, <1>2, <1>3, <1>4, <1>5, <1>6, <1>7, <1>8 DEF KeyStep

(* resource.ts:660-687: every tag a host holds is of a subscriber of its   *)
(* key, and a load that will deliver it runs or follows, however           *)
(* subscriptions, refusals, departures, calls and loads interleave.        *)
THEOREM TagsCorrect == Spec => [](TagHome /\ TagsAreDue)
<1>1. Spec => []TypeIInv
  BY TypeInit, TypeNext, PTL DEF Spec
<1>2. Spec => []TagIInv
  BY <1>1, TagInit, TagNext, PTL DEF Spec
<1>3. TagIInv => TagHome /\ TagsAreDue
  BY DEF TagIInv
<1> QED BY <1>2, <1>3, PTL

-----------------------------------------------------------------------------
(* Answers.  AnswersAreCurrent needs in addition that a player's key caches*)
(* nothing, as only a global resource's value is kept.                     *)

PlayerUncached == scope = "player" => \A k \in Keys : cached[k] = NoValue

AnswerIInv == PlayerUncached /\ AnswersAreCurrent

(* What AnswersAreCurrent says of a key: what is answered for it is what   *)
(* its source holds.                                                       *)
KeyIsCurrent(k) ==
  /\ Running(k) /\ ~dirty[k] => load[k].read = source[k]
  /\ ~Running(k) /\ last[k] = "ok" /\ cached[k] # NoValue => cached[k] = source[k]

LEMMA CurrentKeys == AnswersAreCurrent <=> \A k \in LiveKeys : KeyIsCurrent(k)
BY DEF AnswersAreCurrent, KeyIsCurrent

LEMMA LiveKeysAreKeys == LiveKeys \subseteq Keys
BY DEF LiveKeys, Keys

LEMMA AnswerInit == Init => AnswerIInv
BY LiveKeysAreKeys
DEF Init, HostInit, NoLoad, AnswerIInv, PlayerUncached, AnswersAreCurrent, Running

(* A step that leaves a key alone leaves it current.                       *)
LEMMA CurrentFrame ==
  ASSUME NEW k, KeyIsCurrent(k), load'[k] = load[k], dirty'[k] = dirty[k],
         source'[k] = source[k], cached'[k] = cached[k],
         last'[k] \in {last[k], "none"}
  PROVE  KeyIsCurrent(k)'
BY DEF KeyIsCurrent, Running

LEMMA LoadIsCurrent ==
  ASSUME HostIInv, NEW k \in Keys, NEW covering, NEW data,
         Load(k, covering, data), source'[k] = data
  PROVE  KeyIsCurrent(k)' /\ \A j \in Keys \ {k} : load'[j] = load[j] /\ dirty'[j] = dirty[j]
<1>1. CASE Running(k) /\ dirty' = [dirty EXCEPT ![k] = TRUE] /\ UNCHANGED <<revision, load>>
  BY <1>1 DEF KeyIsCurrent, Running, HostIInv, HostTypeOK
<1>2. CASE StartLoad(k, covering, data)
  <2>1. PICK sync \in BOOLEAN : load' = [load EXCEPT ![k] =
          [at |-> revision + 1, covering |-> covering, read |-> data, sync |-> sync]]
    BY <1>2 DEF StartLoad
  <2>2. revision + 1 # 0 /\ dirty' = [dirty EXCEPT ![k] = FALSE]
    BY <1>2 DEF StartLoad, HostIInv, HostTypeOK
  <2> QED BY <2>1, <2>2 DEF KeyIsCurrent, Running, HostIInv, HostTypeOK
<1> QED BY <1>1, <1>2 DEF Load

(* An invalidation of a key whose source has just become `data`.           *)
LEMMA InvalidateIsCurrent ==
  ASSUME HostIInv, AnswerIInv, NEW k \in Keys, NEW covering, NEW data,
         Invalidate(k, covering, data), UNCHANGED <<scope, last>>,
         source' = [source EXCEPT ![k] = data]
  PROVE  AnswerIInv'
<1>1. source'[k] = data /\ \A j \in Keys \ {k} : source'[j] = source[j]
  BY DEF HostIInv, HostTypeOK
<1>2. /\ KeyIsCurrent(k)'
      /\ \A j \in Keys \ {k} :
           load'[j] = load[j] /\ dirty'[j] = dirty[j] /\ cached'[j] = cached[j]
  <2>1. CASE Load(k, covering, data) /\ UNCHANGED cached
    BY <1>1, <2>1, LoadIsCurrent
  <2>2. CASE /\ dirty' = [dirty EXCEPT ![k] = @ \/ Running(k)]
             /\ cached' = [cached EXCEPT ![k] = NoValue]
             /\ UNCHANGED <<revision, load>>
    BY <2>2 DEF KeyIsCurrent, Running, HostIInv, HostTypeOK
  <2> QED BY <2>1, <2>2 DEF Invalidate
<1>3. \A j \in LiveKeys : KeyIsCurrent(j)'
  BY <1>1, <1>2, CurrentKeys, CurrentFrame, LiveKeysAreKeys DEF AnswerIInv
<1>4. AnswersAreCurrent'
  BY <1>3 DEF AnswersAreCurrent, KeyIsCurrent, LiveKeys
<1>5. PlayerUncached'
  BY DEF Invalidate, AnswerIInv, PlayerUncached, HostIInv, HostTypeOK
<1> QED BY <1>4, <1>5 DEF AnswerIInv

(* Steps that keep every load, source and cached value.                    *)
LEMMA SameAnswers ==
  ASSUME AnswerIInv, UNCHANGED <<scope, source, load, dirty, cached>>,
         \A k \in Keys : last'[k] \in {last[k], "none"}
  PROVE  AnswerIInv'
BY LiveKeysAreKeys
DEF AnswerIInv, PlayerUncached, AnswersAreCurrent, Running, LiveKeys

LEMMA ResultIsCurrent ==
  ASSUME HostIInv, AnswerIInv, NEW k \in Keys, NEW ok \in BOOLEAN,
         DropResult(k, ok) \/ SendResult(k, ok)
  PROVE  AnswerIInv'
<1> USE NoLoadType
<1>1. PlayerUncached'
  BY DEF DropResult, SendResult, CachedAfter, worldVars, AnswerIInv, PlayerUncached, HostIInv, HostTypeOK
<1>2. UNCHANGED <<scope, source>>
  BY DEF DropResult, SendResult, worldVars, callVars
<1>3. \A j \in Keys \ {k} :
        /\ load'[j] = load[j] /\ dirty'[j] = dirty[j]
        /\ cached'[j] = cached[j] /\ last'[j] = last[j]
  <2>1. CASE DropResult(k, ok)
    BY <2>1 DEF DropResult, HostIInv, HostTypeOK
  <2>2. CASE SendResult(k, ok)
    <3>1. CASE StartLoad(k, tags[k] \ load[k].covering, source[k])
      BY <2>2, <3>1 DEF SendResult, StartLoad, HostIInv, HostTypeOK
    <3>2. CASE load' = [load EXCEPT ![k] = NoLoad] /\ UNCHANGED <<revision, dirty>>
      BY <2>2, <3>2 DEF SendResult, HostIInv, HostTypeOK
    <3> QED BY <2>2, <3>1, <3>2 DEF SendResult
  <2> QED BY <2>1, <2>2
<1>4. ASSUME k \in LiveKeys PROVE KeyIsCurrent(k)'
  <2>1. CASE DropResult(k, ok)
    <3>1. load'[k].at = 0 /\ last'[k] \in {"dropped", "failed"}
      BY <2>1 DEF DropResult, HostIInv, HostTypeOK
    <3> QED BY <3>1 DEF KeyIsCurrent, Running
  <2>2. CASE SendResult(k, ok)
    <3>1. CASE dirty[k] /\ StartLoad(k, tags[k] \ load[k].covering, source[k])
      <4>1. PICK sync \in BOOLEAN : load' = [load EXCEPT ![k] =
              [at |-> revision + 1, covering |-> tags[k] \ load[k].covering,
               read |-> source[k], sync |-> sync]]
        BY <3>1 DEF StartLoad
      <4>2. revision + 1 # 0
        BY DEF HostIInv, HostTypeOK
      <4> QED BY <1>2, <4>1, <4>2 DEF KeyIsCurrent, Running, HostIInv, HostTypeOK
    <3>2. CASE ~dirty[k] /\ load' = [load EXCEPT ![k] = NoLoad] /\ UNCHANGED <<revision, dirty>>
      <4>1. load[k].read = source[k]
        BY <1>4, <2>2, <3>2, CurrentKeys DEF SendResult, AnswerIInv, KeyIsCurrent
      <4>2. load'[k].at = 0
        BY <3>2 DEF HostIInv, HostTypeOK
      <4>3. /\ cached'[k] = CachedAfter(k, ok) /\ last'[k] = Outcome(ok)
        BY <2>2 DEF SendResult, HostIInv, HostTypeOK
      <4>4. last'[k] = "ok" /\ cached'[k] # NoValue => cached'[k] = load[k].read
        BY <4>3 DEF CachedAfter, Outcome, AnswerIInv, PlayerUncached, HostIInv, HostTypeOK
      <4> QED BY <1>2, <4>1, <4>2, <4>4 DEF KeyIsCurrent, Running
    <3> QED BY <2>2, <3>1, <3>2 DEF SendResult
  <2> QED BY <2>1, <2>2
<1>5. \A j \in LiveKeys : KeyIsCurrent(j)'
  BY <1>2, <1>3, <1>4, CurrentKeys, CurrentFrame, LiveKeysAreKeys DEF AnswerIInv
<1> QED BY <1>1, <1>2, <1>5 DEF AnswerIInv, AnswersAreCurrent, KeyIsCurrent, LiveKeys

LEMMA SubscribeIsCurrent ==
  ASSUME HostIInv, AnswerIInv, NEW p \in Players, Subscribe(p)
  PROVE  AnswerIInv'
<1>0. PICK k \in Keys : k = KeyOf(p)
  BY KeyOfType
<1>1. CASE Refuse(p)
  <2>1. UNCHANGED <<scope, source, load, dirty, cached>>
    BY <1>1 DEF Refuse, worldVars, callVars
  <2>2. \A j \in Keys : last'[j] \in {last[j], "none"}
    BY <1>0, <1>1 DEF Refuse, Unlink, HostIInv, HostTypeOK
  <2> QED BY <2>1, <2>2, SameAnswers
<1>2. CASE Join(p) \/ AnswerCached(p)
  <2>1. UNCHANGED <<scope, source, load, dirty, cached, last>>
    BY <1>2 DEF Join, AnswerCached, worldVars, callVars
  <2> QED BY <2>1, SameAnswers
<1>3. CASE LoadFor(p)
  <2>1. UNCHANGED <<scope, source, cached, last>> /\ Load(k, tags[k], source[k])
    BY <1>0, <1>3 DEF LoadFor, worldVars, callVars
  <2>2. /\ KeyIsCurrent(k)'
        /\ \A j \in Keys \ {k} : load'[j] = load[j] /\ dirty'[j] = dirty[j]
    BY <1>0, <2>1, LoadIsCurrent
  <2>3. \A j \in LiveKeys : KeyIsCurrent(j)'
    BY <2>1, <2>2, CurrentKeys, CurrentFrame, LiveKeysAreKeys DEF AnswerIInv
  <2> QED
    BY <2>1, <2>3 DEF AnswerIInv, PlayerUncached, AnswersAreCurrent, KeyIsCurrent, LiveKeys
<1> QED BY <1>1, <1>2, <1>3 DEF Subscribe

LEMMA AnswerNext == TypeIInv /\ AnswerIInv /\ [Next]_vars => AnswerIInv'
<1> SUFFICES ASSUME HostIInv, AnswerIInv, KeyStep PROVE AnswerIInv'
  BY NextIsKeyStep DEF TypeIInv
<1>1. ASSUME NEW k \in Keys, NEW ok \in BOOLEAN, DropResult(k, ok) \/ SendResult(k, ok)
      PROVE  AnswerIInv'
  BY <1>1, ResultIsCurrent
<1>2. ASSUME NEW k \in Keys, LateRead(k)
      PROVE  AnswerIInv'
  <2>1. UNCHANGED <<scope, source, dirty, cached, last>>
    BY <1>2 DEF LateRead, worldVars, callVars
  <2>2. \A j \in Keys : /\ load'[j].at = load[j].at
                       /\ load'[j].read = IF j = k THEN source[k] ELSE load[j].read
    BY <1>2, LateReadLoad
  <2> QED
    BY <2>1, <2>2, LiveKeysAreKeys
    DEF AnswerIInv, PlayerUncached, AnswersAreCurrent, Running, LiveKeys
<1>3. ASSUME NEW k \in Keys, NEW w \in Pushes, Push(k, w)
      PROVE  AnswerIInv'
  <2>1. /\ Invalidate(k, tags[k], source[k] \cup {w})
        /\ UNCHANGED <<scope, last>> /\ source' = [source EXCEPT ![k] = source[k] \cup {w}]
    BY <1>3 DEF Push, Write, worldVars
  <2> QED BY <2>1, InvalidateIsCurrent
<1>4. ASSUME NEW p \in Players, Unsubscribe(p)
      PROVE  AnswerIInv'
  <2>1. UNCHANGED <<scope, source, load, dirty, cached>>
    BY <1>4 DEF Unsubscribe, worldVars, callVars
  <2>2. \A j \in Keys : last'[j] \in {last[j], "none"}
    BY <1>4, KeyOfType DEF Unsubscribe, Unlink, HostIInv, HostTypeOK
  <2> QED BY <2>1, <2>2, SameAnswers
<1>5. ASSUME NEW p \in Players, Subscribe(p)
      PROVE  AnswerIInv'
  BY <1>5, SubscribeIsCurrent
<1>6. ASSUME NEW p \in Players, ForgetPlayer(p)
      PROVE  AnswerIInv'
  <2>1. UNCHANGED <<scope, source, cached>>
    BY <1>6 DEF ForgetPlayer, callVars
  <2>2. load'[p].at = 0 /\ last'[p] = "none"
    BY <1>6, KeyOfType, NoLoadType DEF ForgetPlayer, HostIInv, HostTypeOK
  <2>3. \A j \in Keys \ {p} :
          load'[j] = load[j] /\ dirty'[j] = dirty[j] /\ last'[j] = last[j]
    BY <1>6 DEF ForgetPlayer, HostIInv, HostTypeOK
  <2>4. KeyIsCurrent(p)'
    BY <2>2 DEF KeyIsCurrent, Running
  <2>5. \A j \in LiveKeys : KeyIsCurrent(j)'
    BY <2>1, <2>3, <2>4, CurrentKeys, CurrentFrame, LiveKeysAreKeys DEF AnswerIInv
  <2> QED
    BY <2>1, <2>5 DEF AnswerIInv, PlayerUncached, AnswersAreCurrent, KeyIsCurrent, LiveKeys
<1>7. ASSUME NEW c \in Calls, RunCall(c)
      PROVE  AnswerIInv'
  <2> DEFINE k == KeyOf(Caller[c])
  <2>1. /\ Invalidate(k, TagsWith(c), source[k] \cup {c})
        /\ UNCHANGED <<scope, last>> /\ source' = [source EXCEPT ![k] = source[k] \cup {c}]
    BY <1>7 DEF RunCall, Covered, Write, worldVars
  <2>2. k \in Keys
    BY ItemsAssumption, KeyOfType
  <2> QED BY <2>1, <2>2, InvalidateIsCurrent
<1>8. CASE UNCHANGED <<scope, source, keyVars>>
  BY <1>8, SameAnswers DEF keyVars
<1> QED BY <1>1, <1>2, <1>3, <1>4, <1>5, <1>6, <1>7, <1>8 DEF KeyStep

(* resource.ts:401-455 and 616-646: a load that no other follows answers   *)
(* with what there is now, and so does a cached value, unless the last     *)
(* result was dropped, however long loads take and whenever they read.     *)
THEOREM AnswersCorrect == Spec => []AnswersAreCurrent
<1>1. Spec => []TypeIInv
  BY TypeInit, TypeNext, PTL DEF Spec
<1>2. Spec => []AnswerIInv
  BY <1>1, AnswerInit, AnswerNext, PTL DEF Spec
<1>3. AnswerIInv => AnswersAreCurrent
  BY DEF AnswerIInv
<1> QED BY <1>2, <1>3, PTL

-----------------------------------------------------------------------------
(* Optimistic calls.  NoDoubleApplication is of a client's value and its   *)
(* updates; what makes it inductive follows a call from its request to the *)
(* item that carries its key.                                              *)

StatesIn(box) == {box[i] : i \in {j \in DOMAIN box : box[j].t = "state"}}
Carries(item, c) == item.t = "state" /\ c \in item.k
Contains(item, c) == item.t = "state" /\ item.d # NoValue /\ c \in item.d
Carried(box, c) == \E item \in StatesIn(box) : c \in item.k

(* The item that carries c's key is on its way.                            *)
Settling(c) == Carried(down[Caller[c]], c) \/ Carried(outbox[Caller[c]], c)

(* No item on its way contains c before its key came.                      *)
CarriedFirst(c) ==
  LET p == Caller[c] IN
  /\ \A i \in DOMAIN down[p] :
       Contains(down[p][i], c) => \E j \in 1 .. i : Carries(down[p][j], c)
  /\ \A item \in StatesIn(outbox[p]) :
       item.d # NoValue /\ c \in item.d => c \in item.k \/ Carried(down[p], c)

(* Wherever a value with c can come from, c's key comes with it or before. *)
KeptApart(c) ==
  LET p == Caller[c]  k == KeyOf(p) IN
  /\ ~(value[p] # NoValue /\ c \in value[p])
  /\ CarriedFirst(c)
  /\ c \in source[k] => c \in tags[k] \/ Settling(c)
  /\ Running(k) /\ c \in load[k].read => c \in load[k].covering \/ Settling(c)
  /\ cached[k] # NoValue /\ c \in cached[k] => Settling(c)

Tracked(c) == c \in updates[Caller[c]] /\ c \notin untagged \cup cutOff
AllApart == ~late => \A c \in Calls : Tracked(c) => KeptApart(c)

(* An outbox holds one state item at most.                                 *)
OneState(box) ==
  \A i, j \in DOMAIN box : box[i].t = "state" /\ box[j].t = "state" => i = j
OneStates == \A p \in Players : OneState(outbox[p])

(* What is read, cached, tagged, sent or shown was written.                *)
ItemsWritten(box, k) ==
  \A item \in StatesIn(box) : item.d # NoValue => item.d \subseteq source[k]
KeyWritten(k) ==
  /\ load[k].read \subseteq source[k] /\ load[k].covering \subseteq source[k]
  /\ tags[k] \subseteq source[k]
  /\ cached[k] # NoValue => cached[k] \subseteq source[k]
Written ==
  /\ \A k \in Keys : KeyWritten(k)
  /\ \A p \in Players :
       /\ ItemsWritten(down[p], KeyOf(p)) /\ ItemsWritten(outbox[p], KeyOf(p))
       /\ value[p] # NoValue => value[p] \subseteq source[KeyOf(p)]

(* A call is requested once, and runs after its request was handled; what a*)
(* client still updates was called after every unsubscription on its way.  *)
IsCall(item, c) == item.o = "call" /\ item.i = c
RunsWhenCalled(c) ==
  /\ ran[c] # "no" => called[c] # "new"
  /\ ran[c] = "no" => \A k \in Keys : c \notin source[k]
RequestFits(p, c) ==
  /\ \A i \in DOMAIN up[p] : IsCall(up[p][i], c) =>
       Caller[c] = p /\ ran[c] = "no" /\ called[c] # "new"
  /\ \A i, j \in DOMAIN up[p] : IsCall(up[p][i], c) /\ IsCall(up[p][j], c) => i = j
  /\ c \in updates[p] => \A i \in DOMAIN up[p] : up[p][i].o = "unsubscribe" =>
       \E j \in DOMAIN up[p] : j > i /\ IsCall(up[p][j], c)
Requested ==
  /\ \A c \in Calls : RunsWhenCalled(c)
  /\ \A p \in Players, c \in Calls : RequestFits(p, c)

(* Subscribers are of their own key.                                       *)
Homes == \A k \in Keys : \A p \in subscribers[k] : KeyOf(p) = k

Apart == OneStates /\ Written /\ AllApart
ApartIInv == Homes /\ Requested /\ Apart

(* What a step does to the state items of a box.                           *)
LEMMA ReplaceStates ==
  ASSUME NEW box \in Seq(Items), OneState(box), NEW item \in StateItems
  PROVE  /\ OneState(Replace(box, item))
         /\ \E s : /\ StatesIn(Replace(box, item)) = {s}
                   /\ s.d = item.d /\ item.k \subseteq s.k /\ s.v = item.v /\ s.e = item.e
                   /\ \A o \in StatesIn(box) : o.k \subseteq s.k
<1>0. /\ Len(box) \in Nat /\ DOMAIN box = 1 .. Len(box)
      /\ \A i \in DOMAIN box : box[i] \in Items
  BY LenProperties
<1>1. item.t = "state" /\ item = [t |-> item.t, v |-> item.v, d |-> item.d, e |-> item.e, k |-> item.k]
  BY DEF StateItems
<1>2. CASE \E i \in DOMAIN box : box[i].t = "state"
  <2>1. PICK i \in DOMAIN box : box[i].t = "state"
    BY <1>2
  <2> DEFINE s == Merged(box[i], item)
             new == [j \in DOMAIN box |-> IF box[j].t = "state" THEN Merged(box[j], item) ELSE box[j]]
  <2>2. Replace(box, item) = new
    BY <1>2 DEF Replace
  <2>3. \A j \in DOMAIN box : box[j].t = "state" => j = i
    BY <2>1 DEF OneState
  <2>4. s.t = "state" /\ s.d = item.d /\ s.v = item.v /\ s.e = item.e /\ s.k = item.k \cup box[i].k
    BY <1>1 DEF Merged
  <2>5. DOMAIN new = DOMAIN box /\ new[i] = s /\ \A j \in DOMAIN box \ {i} : new[j].t # "state"
    BY <2>1, <2>3
  <2> HIDE DEF s, new
  <2>6. OneState(new) /\ StatesIn(new) = {s}
    BY <2>4, <2>5 DEF OneState, StatesIn
  <2>7. \A o \in StatesIn(box) : o = box[i]
    BY <2>3 DEF StatesIn
  <2> QED BY <2>2, <2>4, <2>6, <2>7
<1>3. CASE ~\E i \in DOMAIN box : box[i].t = "state"
  <2> DEFINE n == Len(box) + 1
             new == Append(box, item)
  <2>1. Replace(box, item) = new
    BY <1>3 DEF Replace
  <2>2. DOMAIN new = 1 .. n /\ new[n] = item /\ \A j \in 1 .. Len(box) : new[j] = box[j]
    BY <1>0, <1>1, AppendProperties DEF Items
  <2>3. \A j \in DOMAIN new : new[j].t = "state" => j = n
    BY <1>0, <1>3, <2>2
  <2>4. n \in DOMAIN new
    BY <1>0, <2>2
  <2> HIDE DEF n, new
  <2>5. OneState(new) /\ StatesIn(new) = {item}
    BY <1>1, <2>2, <2>3, <2>4 DEF OneState, StatesIn
  <2>6. StatesIn(box) = {}
    BY <1>3 DEF StatesIn
  <2> QED BY <2>1, <2>5, <2>6
<1> QED BY <1>2, <1>3

LEMMA AppendStates ==
  ASSUME NEW box \in Seq(Items), NEW c \in Calls, NEW pending \in BOOLEAN
  PROVE  /\ StatesIn(Append(box, Response(c, pending))) = StatesIn(box)
         /\ OneState(box) => OneState(Append(box, Response(c, pending)))
<1> DEFINE item == Response(c, pending)
           new == Append(box, item)
           n == Len(box) + 1
<1>1. /\ Len(box) \in Nat /\ DOMAIN box = 1 .. Len(box)
      /\ DOMAIN new = 1 .. n /\ new[n] = item /\ \A j \in 1 .. Len(box) : new[j] = box[j]
  BY LenProperties, AppendProperties DEF Response, Responses, Items
<1>2. item.t # "state"
  BY DEF Response
<1> HIDE DEF item, new
<1>3. \A j \in DOMAIN new : new[j].t = "state" => j \in DOMAIN box /\ new[j] = box[j]
  BY <1>1, <1>2
<1>4. \A j \in DOMAIN box : j \in DOMAIN new /\ new[j] = box[j]
  BY <1>1
<1>5. StatesIn(new) = StatesIn(box) /\ (OneState(box) => OneState(new))
  BY <1>3, <1>4 DEF StatesIn, OneState
<1> QED BY <1>5 DEF new, item

LEMMA TailStates ==
  ASSUME NEW box \in Seq(Items), box # << >>
  PROVE  /\ StatesIn(Tail(box)) \subseteq StatesIn(box)
         /\ StatesIn(box) \subseteq StatesIn(Tail(box)) \cup {Head(box)}
<1>1. /\ Len(box) \in Nat \ {0} /\ DOMAIN box = 1 .. Len(box) /\ Head(box) = box[1]
      /\ DOMAIN Tail(box) = 1 .. Len(box) - 1
      /\ \A i \in 1 .. Len(box) - 1 : Tail(box)[i] = box[i + 1]
  BY LenProperties, HeadTailProperties, EmptySeq
<1>2. \A i \in DOMAIN Tail(box) : i + 1 \in DOMAIN box /\ Tail(box)[i] = box[i + 1]
  BY <1>1
<1>3. \A i \in DOMAIN box : i = 1 \/ (i - 1 \in DOMAIN Tail(box) /\ Tail(box)[i - 1] = box[i])
  BY <1>1
<1> DEFINE rest == Tail(box)
           first == Head(box)
<1>4. /\ \A i \in DOMAIN rest : i + 1 \in DOMAIN box /\ rest[i] = box[i + 1]
      /\ \A i \in DOMAIN box : box[i] = first \/ (i - 1 \in DOMAIN rest /\ rest[i - 1] = box[i])
  BY <1>1, <1>2, <1>3
<1> HIDE DEF rest, first
<1>5. StatesIn(rest) \subseteq StatesIn(box)
  BY <1>4 DEF StatesIn
<1>6. StatesIn(box) \subseteq StatesIn(rest) \cup {first}
  BY <1>4 DEF StatesIn
<1> QED BY <1>5, <1>6 DEF rest, first

LEMMA ConcatStates ==
  ASSUME NEW a \in Seq(Items), NEW b \in Seq(Items)
  PROVE  /\ StatesIn(a \o b) = StatesIn(a) \cup StatesIn(b)
         /\ DOMAIN a \subseteq DOMAIN (a \o b) /\ \A i \in DOMAIN a : (a \o b)[i] = a[i]
         /\ \A i \in DOMAIN (a \o b) : i \notin DOMAIN a =>
              i > Len(a) /\ ((a \o b)[i].t = "state" => (a \o b)[i] \in StatesIn(b))
<1>1. /\ Len(a) \in Nat /\ Len(b) \in Nat /\ DOMAIN a = 1 .. Len(a) /\ DOMAIN b = 1 .. Len(b)
      /\ DOMAIN (a \o b) = 1 .. Len(a) + Len(b)
      /\ \A i \in 1 .. Len(a) + Len(b) : (a \o b)[i] = IF i <= Len(a) THEN a[i] ELSE b[i - Len(a)]
  BY LenProperties, ConcatProperties
<1>2. \A i \in DOMAIN a : i \in DOMAIN (a \o b) /\ (a \o b)[i] = a[i]
  BY <1>1
<1>3. \A i \in DOMAIN b : i + Len(a) \in DOMAIN (a \o b) /\ (a \o b)[i + Len(a)] = b[i]
  BY <1>1
<1>4. \A i \in DOMAIN (a \o b) : i \notin DOMAIN a =>
        i > Len(a) /\ i - Len(a) \in DOMAIN b /\ (a \o b)[i] = b[i - Len(a)]
  BY <1>1
<1> HIDE DEF StatesIn
<1>5. StatesIn(a) \cup StatesIn(b) \subseteq StatesIn(a \o b)
  BY <1>2, <1>3 DEF StatesIn
<1>6. StatesIn(a \o b) \subseteq StatesIn(a) \cup StatesIn(b)
  BY <1>2, <1>4 DEF StatesIn
<1>7. \A i \in DOMAIN (a \o b) : i \notin DOMAIN a =>
         i > Len(a) /\ ((a \o b)[i].t = "state" => (a \o b)[i] \in StatesIn(b))
  BY <1>4 DEF StatesIn
<1> QED BY <1>2, <1>5, <1>6, <1>7

LEMMA EmptyStates == StatesIn(<< >>) = {} /\ OneState(<< >>)
BY DEF StatesIn, OneState

(* Requests.                                                               *)
LEMMA RequestedFrame ==
  ASSUME Requested, UNCHANGED <<ran, source, up>>,
         \A c \in Calls : called[c] # "new" => called'[c] # "new",
         \A p \in Players : updates'[p] \subseteq updates[p]
  PROVE  Requested'
<1>1. \A c \in Calls : RunsWhenCalled(c)'
  BY DEF Requested, RunsWhenCalled
<1>2. ASSUME NEW p \in Players, NEW c \in Calls
      PROVE  RequestFits(p, c)'
  <2>1. RequestFits(p, c) /\ up'[p] = up[p] /\ ran'[c] = ran[c]
    BY DEF Requested
  <2> QED BY <2>1 DEF RequestFits
<1> QED BY <1>1, <1>2 DEF Requested

(* Requests leave from the head and join at the end.                       *)
LEMMA RequestKinds ==
  /\ Subscribing.o = "subscribe" /\ Unsubscribing.o = "unsubscribe"
  /\ \A c \in Calls : Calling(c).o = "call" /\ Calling(c).i = c
BY DEF Subscribing, Unsubscribing, Calling

LEMMA RequestJoins ==
  ASSUME ClientTypeOK, NEW p \in Players, NEW item \in Requests, Request(p, item)
  PROVE  /\ \A q \in Players \ {p} : up'[q] = up[q]
         /\ Len(up[p]) \in Nat /\ DOMAIN up[p] = 1 .. Len(up[p])
         /\ DOMAIN up'[p] = 1 .. Len(up[p]) + 1
         /\ \A i \in DOMAIN up[p] : up'[p][i] = up[p][i]
         /\ up'[p][Len(up[p]) + 1] = item
<1>1. up[p] \in Seq(Requests) /\ up'[p] = Append(up[p], item)
  BY DEF ClientTypeOK, Request
<1> QED BY <1>1, LenProperties, AppendProperties DEF ClientTypeOK, Request

LEMMA ClientStepRequests ==
  ASSUME TypeIInv, Requested, NEW p \in Players, ClientStep(p)
  PROVE  Requested'
<1>0. ClientTypeOK /\ UNCHANGED <<ran, source>>
  BY DEF TypeIInv, ClientIInv, ClientStep, hostVars, callVars
<1>1. CASE ClientSubscribe(p) \/ Refresh(p) \/ Disconnect(p)
  <2>1. PICK item \in {Subscribing, Unsubscribing} :
          Request(p, item) /\ (item = Unsubscribing => updates'[p] = {})
    BY <1>0, <1>1 DEF ClientSubscribe, Refresh, Disconnect, Shed, Subscribing, Unsubscribing, ClientTypeOK
  <2>2. UNCHANGED called /\ \A q \in Players : updates'[q] \subseteq updates[q]
    BY <1>0, <1>1 DEF ClientSubscribe, Refresh, Disconnect, Shed, ClientTypeOK
  <2>3. item \in Requests /\ item.o # "call" /\ (item.o = "unsubscribe" => updates'[p] = {})
    <3>1. CASE item = Subscribing
      BY <3>1 DEF Subscribing, Requests
    <3>2. CASE item = Unsubscribing
      BY <2>1, <3>2 DEF Unsubscribing, Requests
    <3> QED BY <2>1, <3>1, <3>2
  <2>4. Request(p, item)
    BY <2>1
  <2>5. \A c \in Calls : RunsWhenCalled(c)'
    BY <1>0, <2>2 DEF Requested, RunsWhenCalled
  <2>6. ASSUME NEW q \in Players, NEW c \in Calls
        PROVE  RequestFits(q, c)'
    <3>0. RequestFits(q, c)
      BY DEF Requested
    <3>1. CASE q # p
      <4>1. up'[q] = up[q] /\ updates'[q] \subseteq updates[q]
        BY <1>0, <2>2, <2>3, <2>4, <3>1, RequestJoins
      <4> QED BY <1>0, <2>2, <3>0, <4>1 DEF RequestFits
    <3>2. CASE q = p
      <4> DEFINE n == Len(up[p]) + 1
      <4>1. /\ Len(up[p]) \in Nat /\ DOMAIN up[p] = 1 .. Len(up[p]) /\ DOMAIN up'[p] = 1 .. n
            /\ \A i \in DOMAIN up[p] : up'[p][i] = up[p][i]
            /\ up'[p][n] = item
        BY <1>0, <2>3, <2>4, RequestJoins
      <4>2. \A i \in DOMAIN up'[p] : i = n \/ i \in DOMAIN up[p]
        BY <4>1
      <4>3. \A i \in DOMAIN up'[p] : IsCall(up'[p][i], c) => i \in DOMAIN up[p] /\ IsCall(up[p][i], c)
        BY <2>3, <4>1, <4>2 DEF IsCall
      <4>4. /\ \A i \in DOMAIN up'[p] : IsCall(up'[p][i], c) => 
                 Caller[c] = p /\ ran'[c] = "no" /\ called'[c] # "new"
            /\ \A i, j \in DOMAIN up'[p] : IsCall(up'[p][i], c) /\ IsCall(up'[p][j], c) => i = j
        BY <1>0, <2>2, <3>0, <3>2, <4>3 DEF RequestFits
      <4>5. ASSUME c \in updates'[p], NEW i \in DOMAIN up'[p], up'[p][i].o = "unsubscribe"
            PROVE  \E j \in DOMAIN up'[p] : j > i /\ IsCall(up'[p][j], c)
        <5>1. c \in updates[p] /\ i \in DOMAIN up[p] /\ up[p][i].o = "unsubscribe"
          BY <2>2, <2>3, <4>1, <4>2, <4>5
        <5>2. PICK j \in DOMAIN up[p] : j > i /\ IsCall(up[p][j], c)
          BY <3>0, <3>2, <5>1 DEF RequestFits
        <5> QED BY <4>1, <5>2
      <4> QED BY <3>2, <4>4, <4>5 DEF RequestFits
    <3> QED BY <3>1, <3>2
  <2> QED BY <2>5, <2>6 DEF Requested
<1>2. ASSUME NEW b \in Calls, Caller[b] = p, BeginCall(b)
      PROVE  Requested'
  <2>1. Request(p, Calling(b)) /\ Calling(b) \in Requests /\ called[b] = "new"
    BY <1>2, RequestTypes DEF BeginCall
  <2>2. /\ called'[b] = "waiting" /\ \A c \in Calls \ {b} : called'[c] = called[c]
        /\ \A q \in Players : updates'[q] \subseteq updates[q] \cup (IF q = p THEN {b} ELSE {})
    BY <1>0, <1>2 DEF BeginCall, ClientTypeOK
  <2>3. ran[b] = "no"
    BY <2>1 DEF Requested, RunsWhenCalled
  <2>4. \A c \in Calls : RunsWhenCalled(c)'
    BY <1>0, <2>2, <2>3 DEF Requested, RunsWhenCalled
  <2>5. ASSUME NEW q \in Players, NEW c \in Calls
        PROVE  RequestFits(q, c)'
    <3>0. RequestFits(q, c) /\ RequestFits(p, b)
      BY DEF Requested
    <3>1. CASE q # p
      <4>1. up'[q] = up[q] /\ updates'[q] \subseteq updates[q]
        BY <1>0, <2>1, <2>2, <3>1, RequestJoins
      <4>2. called[c] # "new" => called'[c] # "new"
        BY <2>1, <2>2
      <4> QED BY <1>0, <3>0, <4>1, <4>2 DEF RequestFits
    <3>2. CASE q = p
      <4> DEFINE n == Len(up[p]) + 1
      <4>1. /\ Len(up[p]) \in Nat /\ DOMAIN up[p] = 1 .. Len(up[p]) /\ DOMAIN up'[p] = 1 .. n
            /\ \A i \in DOMAIN up[p] : up'[p][i] = up[p][i]
            /\ up'[p][n] = Calling(b)
        BY <1>0, <2>1, RequestJoins
      <4>2. \A i \in DOMAIN up'[p] : i = n \/ i \in DOMAIN up[p]
        BY <4>1
      <4>3. \A i \in DOMAIN up[p] : ~IsCall(up[p][i], b)
        BY <2>1, <3>0 DEF RequestFits
      <4>4. \A i \in DOMAIN up'[p] : IsCall(up'[p][i], c) =>
              \/ i \in DOMAIN up[p] /\ IsCall(up[p][i], c) /\ c # b
              \/ i = n /\ c = b
        BY <4>1, <4>2, <4>3, RequestKinds DEF IsCall
      <4>5. /\ \A i \in DOMAIN up'[p] : IsCall(up'[p][i], c) =>
                 Caller[c] = p /\ ran'[c] = "no" /\ called'[c] # "new"
            /\ \A i, j \in DOMAIN up'[p] : IsCall(up'[p][i], c) /\ IsCall(up'[p][j], c) => i = j
        BY <1>0, <1>2, <2>2, <2>3, <3>0, <3>2, <4>4 DEF RequestFits
      <4>6. ASSUME c \in updates'[p], NEW i \in DOMAIN up'[p], up'[p][i].o = "unsubscribe"
            PROVE  \E j \in DOMAIN up'[p] : j > i /\ IsCall(up'[p][j], c)
        <5>1. i \in DOMAIN up[p] /\ up[p][i].o = "unsubscribe"
          BY <4>1, <4>2, <4>6, RequestKinds
        <5>2. CASE c = b
          BY <4>1, <5>1, <5>2, RequestKinds DEF IsCall
        <5>3. CASE c # b
          <6>1. PICK j \in DOMAIN up[p] : j > i /\ IsCall(up[p][j], c)
            BY <2>2, <3>0, <3>2, <4>6, <5>1, <5>3 DEF RequestFits
          <6> QED BY <4>1, <6>1
        <5> QED BY <5>2, <5>3
      <4> QED BY <3>2, <4>5, <4>6 DEF RequestFits
    <3> QED BY <3>1, <3>2
  <2> QED BY <2>4, <2>5 DEF Requested
<1> QED BY <1>1, <1>2 DEF ClientStep

LEMMA SubscriptionFrame ==
  ASSUME NEW p \in Players, Subscribe(p) \/ Unsubscribe(p)
  PROVE  UNCHANGED <<scope, late, here, source, ran, untagged>>
BY DEF Subscribe, Refuse, Join, AnswerCached, LoadFor, Unsubscribe, worldVars, callVars

LEMMA ReceiveRequests ==
  ASSUME TypeIInv, Requested, NEW p \in Players, Receive(p)
  PROVE  Requested'
<1> DEFINE first == Head(up[p])
<1>1. UNCHANGED <<source, called, updates>>
  BY SubscriptionFrame DEF Receive
<1>2. /\ up[p] \in Seq(Requests) /\ up[p] # << >>
      /\ \A q \in Players \ {p} : up'[q] = up[q]
      /\ up'[p] = Tail(up[p])
  BY DEF Receive, TypeIInv, ClientIInv, ClientTypeOK
<1>3. /\ Len(up[p]) \in Nat \ {0} /\ DOMAIN up[p] = 1 .. Len(up[p]) /\ first = up[p][1]
      /\ DOMAIN up'[p] = 1 .. Len(up[p]) - 1
      /\ \A i \in 1 .. Len(up[p]) - 1 : up'[p][i] = up[p][i + 1]
  BY <1>2, LenProperties, HeadTailProperties, EmptySeq
<1>4. /\ 1 \in DOMAIN up[p]
      /\ \A i \in DOMAIN up'[p] : i + 1 \in DOMAIN up[p] /\ i + 1 # 1 /\ up'[p][i] = up[p][i + 1]
      /\ \A i \in DOMAIN up[p] : i > 1 => i - 1 \in DOMAIN up'[p] /\ up'[p][i - 1] = up[p][i]
      /\ \A i \in DOMAIN up[p] : i \in Nat /\ \A j \in DOMAIN up'[p] : i > j + 1 => i - 1 > j
      /\ \A i, j \in DOMAIN up'[p] : i + 1 = j + 1 => i = j
      /\ \A i \in DOMAIN up'[p] : i + 1 > 1
  BY <1>3
<1>5. \A c \in Calls : \/ ran'[c] = ran[c]
                       \/ IsCall(first, c) /\ ran'[c] = "received"
  <2>1. CASE Subscribe(p) \/ Unsubscribe(p)
    BY <2>1, SubscriptionFrame
  <2>2. CASE first.o = "call" /\ ran' = [ran EXCEPT ![first.i] = "received"]
    BY <2>2 DEF IsCall, TypeIInv, HostIInv, HostTypeOK
  <2> QED BY <2>1, <2>2 DEF Receive
<1>6. ASSUME NEW c \in Calls PROVE RunsWhenCalled(c)'
  <2>1. RunsWhenCalled(c) /\ RequestFits(p, c)
    BY DEF Requested
  <2>2. IsCall(first, c) => ran[c] = "no" /\ called[c] # "new"
    BY <1>3, <1>4, <2>1 DEF RequestFits
  <2>3. UNCHANGED <<source, called>> /\ (ran'[c] = ran[c] \/ (IsCall(first, c) /\ ran'[c] = "received"))
    BY <1>1, <1>5
  <2> QED BY <2>1, <2>2, <2>3 DEF RunsWhenCalled
<1>7. ASSUME NEW q \in Players, NEW c \in Calls
      PROVE  RequestFits(q, c)'
  <2>0. RequestFits(q, c) /\ RequestFits(p, c)
    BY DEF Requested
  <2>1. CASE q # p
    <3>1. IsCall(first, c) => Caller[c] = p
      BY <1>3, <1>4, <2>0 DEF RequestFits
    <3>2. \A i \in DOMAIN up[q] : IsCall(up[q][i], c) => ran'[c] = ran[c]
      BY <1>5, <2>0, <2>1, <3>1 DEF RequestFits
    <3> QED BY <1>1, <1>2, <2>0, <2>1, <3>2 DEF RequestFits
  <2>2. CASE q = p
    <3>1. \A i \in DOMAIN up'[p] : IsCall(up'[p][i], c) => ~IsCall(first, c)
      BY <1>3, <1>4, <2>0 DEF RequestFits
    <3>2. /\ \A i \in DOMAIN up'[p] : IsCall(up'[p][i], c) =>
               Caller[c] = p /\ ran'[c] = "no" /\ called'[c] # "new"
          /\ \A i, j \in DOMAIN up'[p] : IsCall(up'[p][i], c) /\ IsCall(up'[p][j], c) => i = j
      BY <1>1, <1>4, <1>5, <2>0, <3>1 DEF RequestFits
    <3>3. ASSUME c \in updates'[p], NEW i \in DOMAIN up'[p], up'[p][i].o = "unsubscribe"
          PROVE  \E j \in DOMAIN up'[p] : j > i /\ IsCall(up'[p][j], c)
      <4>1. PICK j \in DOMAIN up[p] : j > i + 1 /\ IsCall(up[p][j], c)
        BY <1>1, <1>4, <2>0, <3>3 DEF RequestFits
      <4>2. j > 1
        BY <1>3, <4>1
      <4> QED BY <1>4, <4>1, <4>2
    <3> QED BY <2>2, <3>2, <3>3 DEF RequestFits
  <2> QED BY <2>1, <2>2
<1> QED BY <1>6, <1>7 DEF Requested

LEMMA RunsRequests ==
  ASSUME TypeIInv, Requested, UNCHANGED <<up, updates, called>>, NEW b \in Calls, ran[b] # "no",
         NEW how, how # "no", ran' = [ran EXCEPT ![b] = how],
         \A k \in Keys : source'[k] \subseteq source[k] \cup {b}
  PROVE  Requested'
<1>1. \A c \in Calls : (ran[c] = "no" <=> ran'[c] = "no")
  BY DEF TypeIInv, HostIInv, HostTypeOK
<1>2. \A c \in Calls : RunsWhenCalled(c)'
  BY <1>1 DEF Requested, RunsWhenCalled
<1>3. ASSUME NEW p \in Players, NEW c \in Calls
      PROVE  RequestFits(p, c)'
  <2>1. RequestFits(p, c)
    BY DEF Requested
  <2> QED BY <1>1, <2>1 DEF RequestFits
<1> QED BY <1>2, <1>3 DEF Requested

LEMMA LeaveRequests ==
  ASSUME TypeIInv, Requested, NEW p \in Players, Leave(p)
  PROVE  Requested'
<1>1. /\ UNCHANGED <<ran, source, called>>
      /\ \A q \in Players \ {p} : up'[q] = up[q] /\ updates'[q] = updates[q]
      /\ up'[p] = << >>
  BY DEF Leave, ForgetPlayer, ClientGone, Shed, callVars, TypeIInv, ClientIInv, ClientTypeOK
<1>2. \A c \in Calls : RunsWhenCalled(c)'
  BY <1>1 DEF Requested, RunsWhenCalled
<1>3. ASSUME NEW q \in Players, NEW c \in Calls
      PROVE  RequestFits(q, c)'
  <2>1. RequestFits(q, c)
    BY DEF Requested
  <2>2. CASE q # p
    BY <1>1, <2>1, <2>2 DEF RequestFits
  <2>3. CASE q = p
    <3>1. DOMAIN up'[p] = {}
      BY <1>1, EmptySeq, LenProperties
    <3> QED BY <2>3, <3>1 DEF RequestFits
  <2> QED BY <2>2, <2>3
<1> QED BY <1>2, <1>3 DEF Requested

LEMMA CallsTakeSides == \A w \in Pushes : w \notin Calls
BY ItemsAssumption

LEMMA RequestedNext == TypeIInv /\ Requested /\ [Next]_vars => Requested'
<1> SUFFICES ASSUME TypeIInv, Requested, [Next]_vars PROVE Requested'
  OBVIOUS
<1>0. /\ source \in [Keys -> Values] /\ updates \in [Players -> SUBSET Calls]
      /\ called \in [Calls -> {"new", "waiting", "answered", "rejected", "expired"}]
  BY DEF TypeIInv, HostIInv, HostTypeOK, ClientIInv, ClientTypeOK
<1>1. CASE UNCHANGED <<ran, source, up, called, updates>>
  BY <1>1, RequestedFrame
<1>2. ASSUME NEW k \in Keys, NEW ok \in BOOLEAN, LoadEnds(k, ok) PROVE Requested'
  BY <1>1, <1>2 DEF LoadEnds, FinishLoad, DropResult, SendResult, callVars, clientVars
<1>3. CASE Flush
  BY <1>1, <1>3 DEF Flush, callVars, clientVars
<1>4. ASSUME NEW c \in Calls, CallRuns(c) PROVE Requested'
  <2>1. UNCHANGED <<up, updates, called>>
    BY <1>4 DEF CallRuns, clientVars
  <2>2. CASE RunCall(c)
    <3>1. \A k \in Keys : source'[k] \subseteq source[k] \cup {c}
      BY <1>0, <2>2 DEF RunCall, Write
    <3> QED BY <2>1, <2>2, <3>1, RunsRequests DEF RunCall
  <2>3. CASE FailCall(c) \/ Respond(c)
    <3>1. source' = source
      BY <2>3 DEF FailCall, Respond
    <3> QED BY <2>1, <2>3, <3>1, RunsRequests DEF FailCall, Respond
  <2> QED BY <1>4, <2>2, <2>3 DEF CallRuns
<1>5. ASSUME NEW p \in Players, Receive(p) PROVE Requested'
  BY <1>5, ReceiveRequests
<1>6. ASSUME NEW p \in Players, Deliver(p) PROVE Requested'
  <2>1. UNCHANGED <<ran, source, up>>
    BY <1>6 DEF Deliver, Handle, HandleState, HandleResponse, hostVars, callVars
  <2>2. /\ \A c \in Calls : called[c] # "new" => called'[c] # "new"
        /\ \A q \in Players : updates'[q] \subseteq updates[q]
    BY <1>0, <1>6 DEF Deliver, Handle, HandleState, HandleResponse, Unsettled
  <2> QED BY <2>1, <2>2, RequestedFrame
<1>7. CASE HostStep
  <2>1. ASSUME NEW k \in Keys, NEW w \in Pushes, Push(k, w) PROVE Requested'
    <3>1. UNCHANGED <<ran, up, called, updates>> /\ \A j \in Keys : source'[j] \subseteq source[j] \cup {w}
      BY <1>0, <1>7, <2>1 DEF HostStep, Push, Write, clientVars
    <3>2. \A c \in Calls : RunsWhenCalled(c)'
      BY <3>1, CallsTakeSides DEF Requested, RunsWhenCalled
    <3> QED BY <3>1, <3>2 DEF Requested, RequestFits
  <2>2. CASE (\E k \in Keys : LateRead(k)) \/ \E p \in Players : Authorize(p)
    BY <1>1, <1>7, <2>2 DEF HostStep, LateRead, Authorize, callVars, clientVars
  <2> QED BY <1>7, <2>1, <2>2 DEF HostStep
<1>8. ASSUME NEW p \in Players, ClientStep(p) PROVE Requested'
  BY <1>8, ClientStepRequests
<1>9. ASSUME NEW p \in Players, Leave(p) PROVE Requested'
  BY <1>9, LeaveRequests
<1>10. ASSUME NEW c \in Calls, CallStep(c) PROVE Requested'
  <2>1. UNCHANGED <<ran, source, up>>
    BY <1>10 DEF CallStep, RejectCall, SettleTimeout, hostVars, callVars
  <2>2. /\ \A b \in Calls : called[b] # "new" => called'[b] # "new"
        /\ \A q \in Players : updates'[q] \subseteq updates[q]
    BY <1>0, <1>10 DEF CallStep, RejectCall, SettleTimeout, Withdraw
  <2> QED BY <2>1, <2>2, RequestedFrame
<1>11. CASE UNCHANGED vars
  BY <1>1, <1>11 DEF vars, hostVars, callVars, clientVars
<1> QED
  BY <1>2, <1>3, <1>4, <1>5, <1>6, <1>7, <1>8, <1>9, <1>10, <1>11 DEF Next, Step

-----------------------------------------------------------------------------
(* What any step of the host does, as far as a call c is concerned.        *)

KeyChange(k) ==
  /\ \/ load'[k] = load[k]
     \/ load'[k] = NoLoad
     \/ load'[k].read = source'[k] /\ load'[k].covering = tags'[k]
     \/ late /\ load'[k].read = source[k] /\ load'[k].covering = load[k].covering
  /\ source[k] \subseteq source'[k]
  /\ tags'[k] \subseteq tags[k] \cup source'[k]
  /\ \/ cached'[k] \in {cached[k], NoValue}
     \/ Running(k) /\ cached'[k] = load[k].read

BoxChange(p) ==
  LET k == KeyOf(p) IN
  /\ OneState(outbox'[p])
  /\ \/ StatesIn(outbox'[p]) = StatesIn(outbox[p])
     \/ \E s : /\ StatesIn(outbox'[p]) = {s}
               /\ \A o \in StatesIn(outbox[p]) : o.k \subseteq s.k
               /\ \/ s.d = NoValue \/ s.d = cached[k]
                  \/ /\ Running(k) /\ s.d = load[k].read
                     /\ {c \in load[k].covering : Caller[c] = p} \subseteq s.k

TagChange(c) ==
  LET p == Caller[c]  k == KeyOf(p) IN
  /\ c \in source'[k] => c \in source[k] \/ c \in tags'[k] \cup untagged'
  /\ c \in tags[k] =>
       c \in tags'[k] \/ Carried(outbox'[p], c) \/ c \in cutOff' \/ c \notin updates'[p]
  /\ cached'[k] # NoValue /\ c \in cached'[k] =>
       \/ cached[k] # NoValue /\ c \in cached[k]
       \/ /\ Running(k) /\ c \in load[k].read
          /\ c \in load[k].covering \cap tags[k] => Carried(outbox'[p], c)

LEMMA BoxSame ==
  ASSUME OneStates, NEW p \in Players, outbox'[p] = outbox[p]
  PROVE  BoxChange(p)
BY DEF BoxChange, OneStates

LEMMA BoxAppended ==
  ASSUME HostTypeOK, OneStates, NEW p \in Players, NEW c \in Calls, NEW pending \in BOOLEAN,
         outbox'[p] = Append(outbox[p], Response(c, pending))
  PROVE  BoxChange(p)
<1>1. outbox[p] \in Seq(Items) /\ OneState(outbox[p])
  BY DEF HostTypeOK, OneStates
<1> QED BY <1>1, AppendStates DEF BoxChange

LEMMA BoxReplaced ==
  ASSUME HostTypeOK, OneStates, NEW p \in Players, NEW item \in StateItems,
         outbox'[p] = Replace(outbox[p], item),
         LET k == KeyOf(p) IN
           \/ item.d = NoValue \/ item.d = cached[k]
           \/ /\ Running(k) /\ item.d = load[k].read
              /\ {c \in load[k].covering : Caller[c] = p} \subseteq item.k
  PROVE  BoxChange(p) /\ \A c \in item.k : Carried(outbox'[p], c)
<1>1. outbox[p] \in Seq(Items) /\ OneState(outbox[p])
  BY DEF HostTypeOK, OneStates
<1>2. OneState(outbox'[p])
  BY <1>1, ReplaceStates
<1>3. PICK s : /\ StatesIn(outbox'[p]) = {s}
               /\ s.d = item.d /\ item.k \subseteq s.k
               /\ \A o \in StatesIn(outbox[p]) : o.k \subseteq s.k
  BY <1>1, ReplaceStates
<1>4. \A c \in item.k : Carried(outbox'[p], c)
  BY <1>3 DEF Carried
<1>5. BoxChange(p)
  BY <1>2, <1>3 DEF BoxChange
<1> QED BY <1>4, <1>5

(* A key whose load, value and tags stay.                                  *)
LEMMA KeySame ==
  ASSUME NEW k \in Keys, load'[k] = load[k], source'[k] = source[k],
         tags'[k] \subseteq tags[k], cached'[k] = cached[k]
  PROVE  KeyChange(k)
BY DEF KeyChange

(* A load of k that covers the tags it has now.                            *)
LEMMA KeyLoaded ==
  ASSUME HostTypeOK, NEW k \in Keys, Load(k, tags'[k], source'[k])
  PROVE  /\ \/ load'[k] = load[k]
            \/ load'[k].read = source'[k] /\ load'[k].covering = tags'[k]
         /\ \A j \in Keys \ {k} : load'[j] = load[j]
<1>1. CASE Running(k) /\ dirty' = [dirty EXCEPT ![k] = TRUE] /\ UNCHANGED <<revision, load>>
  BY <1>1
<1>2. CASE StartLoad(k, tags'[k], source'[k])
  <2>1. PICK sync \in BOOLEAN : load' = [load EXCEPT ![k] =
          [at |-> revision + 1, covering |-> tags'[k], read |-> source'[k], sync |-> sync]]
    BY <1>2 DEF StartLoad
  <2> QED BY <2>1 DEF HostTypeOK
<1> QED BY <1>1, <1>2 DEF Load

LEMMA KeyInvalidated ==
  ASSUME HostTypeOK, NEW k \in Keys, Invalidate(k, tags'[k], source'[k])
  PROVE  /\ \/ load'[k] = load[k]
            \/ load'[k].read = source'[k] /\ load'[k].covering = tags'[k]
         /\ cached'[k] \in {cached[k], NoValue}
         /\ \A j \in Keys \ {k} : load'[j] = load[j] /\ cached'[j] = cached[j]
<1>1. CASE Load(k, tags'[k], source'[k]) /\ UNCHANGED cached
  BY <1>1, KeyLoaded
<1>2. CASE cached' = [cached EXCEPT ![k] = NoValue] /\ UNCHANGED <<revision, load>>
  BY <1>2 DEF HostTypeOK
<1> QED BY <1>1, <1>2 DEF Invalidate

HostChange ==
  /\ UNCHANGED <<scope, late>>
  /\ untagged \subseteq untagged' /\ cutOff \subseteq cutOff'
  /\ \A k \in Keys : KeyChange(k)
  /\ \A p \in Players : BoxChange(p)
  /\ \A c \in Calls : TagChange(c)

(* Steps that change no load's or value's content.                         *)
LEMMA TagSame ==
  ASSUME NEW c \in Calls, LET k == KeyOf(Caller[c]) IN
           /\ source'[k] = source[k] /\ tags'[k] = tags[k]
           /\ cached'[k] \in {cached[k], NoValue}
  PROVE  TagChange(c)
BY DEF TagChange

LEMMA CallerType == \A c \in Calls : Caller[c] \in Players /\ KeyOf(Caller[c]) \in Keys
BY ItemsAssumption, KeyOfType

LEMMA DropChanges ==
  ASSUME HostTypeOK, OneStates, NEW k \in Keys, NEW ok \in BOOLEAN, DropResult(k, ok)
  PROVE  HostChange
<1>1. UNCHANGED <<scope, late, source, untagged, cutOff, outbox, tags>>
  BY DEF DropResult, worldVars, callVars, wireVars
<1>2. \A j \in Keys : load'[j] \in {load[j], NoLoad} /\ cached'[j] \in {cached[j], NoValue}
  BY DEF DropResult, HostTypeOK
<1>3. \A j \in Keys : KeyChange(j)
  BY <1>1, <1>2 DEF KeyChange
<1>4. \A p \in Players : BoxChange(p)
  BY <1>1, BoxSame
<1>5. \A c \in Calls : TagChange(c)
  BY <1>1, <1>2, CallerType, TagSame
<1> QED BY <1>1, <1>3, <1>4, <1>5 DEF HostChange

LEMMA SendChanges ==
  ASSUME HostIInv, TagIInv, Homes, OneStates, NEW k \in Keys, NEW ok \in BOOLEAN, SendResult(k, ok)
  PROVE  HostChange
<1> DEFINE left == tags[k] \ load[k].covering
           item(p) == Tagged(Finished(k, ok), load[k].covering, p)
<1>0. HostTypeOK
  BY DEF HostIInv
<1>1. UNCHANGED <<scope, late, source, untagged, cutOff>> /\ Running(k)
  BY DEF SendResult, worldVars, callVars
<1>2. tags'[k] = left /\ \A j \in Keys \ {k} : tags'[j] = tags[j] /\ cached'[j] = cached[j]
  BY <1>0 DEF SendResult, HostTypeOK
<1>3. /\ load'[k] = NoLoad \/ (load'[k].read = source'[k] /\ load'[k].covering = tags'[k])
      /\ \A j \in Keys \ {k} : load'[j] = load[j]
  <2>1. CASE dirty[k] /\ StartLoad(k, left, source[k])
    <3>1. PICK sync \in BOOLEAN : load' = [load EXCEPT ![k] =
            [at |-> revision + 1, covering |-> left, read |-> source[k], sync |-> sync]]
      BY <2>1 DEF StartLoad
    <3> QED BY <1>0, <1>1, <1>2, <3>1 DEF HostTypeOK
  <2>2. CASE load' = [load EXCEPT ![k] = NoLoad]
    BY <1>0, <2>2 DEF HostTypeOK
  <2> QED BY <2>1, <2>2 DEF SendResult
<1>4. cached'[k] \in {cached[k], NoValue, load[k].read}
  BY <1>0 DEF SendResult, CachedAfter, HostTypeOK
<1>5. \A j \in Keys : KeyChange(j)
  <2>1. KeyChange(k)
    BY <1>1, <1>2, <1>3, <1>4 DEF KeyChange
  <2>2. \A j \in Keys \ {k} : KeyChange(j)
    BY <1>1, <1>2, <1>3, KeySame
  <2> QED BY <2>1, <2>2
<1>6. Finished(k, ok) \in StateItems /\ Finished(k, ok).d \in {NoValue, load[k].read}
  BY <1>1, FinishedType DEF Finished, StateItem
<1>7. ASSUME NEW p \in Players, p \in subscribers[k]
      PROVE  BoxChange(p) /\ \A c \in load[k].covering : Caller[c] = p => Carried(outbox'[p], c)
  <2>1. /\ item(p) \in StateItems /\ item(p).d = Finished(k, ok).d
        /\ item(p).k = {c \in load[k].covering : Caller[c] = p}
    <3>1. load[k].covering \subseteq Calls
      BY <1>0 DEF HostTypeOK, Loads
    <3> QED BY <1>6, <3>1 DEF Tagged, StateItems
  <2>2. outbox'[p] = Replace(outbox[p], item(p)) /\ KeyOf(p) = k
    BY <1>7 DEF SendResult, Homes
  <2> HIDE DEF item
  <2>3. BoxChange(p) /\ \A c \in item(p).k : Carried(outbox'[p], c)
    BY <1>0, <1>1, <1>6, <2>1, <2>2, BoxReplaced
  <2> QED BY <2>1, <2>3
<1>8. \A p \in Players : BoxChange(p)
  <2>1. \A p \in Players : p \notin subscribers[k] => outbox'[p] = outbox[p]
    BY DEF SendResult
  <2> QED BY <1>7, <2>1, BoxSame
<1>9. ASSUME NEW c \in Calls PROVE TagChange(c)
  <2>1. CASE KeyOf(Caller[c]) # k
    BY <1>1, <1>2, <2>1, CallerType, TagSame
  <2>2. CASE KeyOf(Caller[c]) = k
    <3>1. c \in tags[k] /\ c \in load[k].covering => Carried(outbox'[Caller[c]], c)
      BY <1>7, CallerType DEF TagIInv, TagHome
    <3> QED BY <1>1, <1>2, <1>4, <2>2, <3>1 DEF TagChange
  <2> QED BY <2>1, <2>2
<1> QED BY <1>1, <1>5, <1>8, <1>9 DEF HostChange

LEMMA LateReadChanges ==
  ASSUME HostIInv, OneStates, NEW k \in Keys, LateRead(k)
  PROVE  HostChange
<1>1. UNCHANGED <<scope, late, source, untagged, cutOff, outbox, tags, cached>> /\ late
  BY DEF LateRead, worldVars, callVars, wireVars
<1>2. /\ load'[k].read = source[k] /\ load'[k].covering = load[k].covering
      /\ \A j \in Keys \ {k} : load'[j] = load[j]
  BY LateReadLoad DEF LateRead, HostIInv, HostTypeOK
<1>3. \A j \in Keys : KeyChange(j)
  BY <1>1, <1>2 DEF KeyChange
<1>4. \A p \in Players : BoxChange(p)
  BY <1>1, BoxSame
<1>5. \A c \in Calls : TagChange(c)
  BY <1>1, CallerType, TagSame
<1> QED BY <1>1, <1>3, <1>4, <1>5 DEF HostChange

LEMMA PushChanges ==
  ASSUME HostIInv, OneStates, NEW k \in Keys, NEW w \in Pushes, Push(k, w)
  PROVE  HostChange
<1>0. HostTypeOK
  BY DEF HostIInv
<1>1. UNCHANGED <<scope, late, untagged, cutOff, outbox, tags>>
  BY DEF Push, worldVars, wireVars
<1>2. /\ source'[k] = source[k] \cup {w}
      /\ \A j \in Keys \ {k} : source'[j] = source[j]
      /\ Invalidate(k, tags'[k], source'[k])
  BY <1>0, <1>1 DEF Push, Write, HostTypeOK
<1>3. /\ load'[k] = load[k] \/ (load'[k].read = source'[k] /\ load'[k].covering = tags'[k])
      /\ cached'[k] \in {cached[k], NoValue}
      /\ \A j \in Keys \ {k} : load'[j] = load[j] /\ cached'[j] = cached[j]
  BY <1>0, <1>2, KeyInvalidated
<1>4. \A j \in Keys : KeyChange(j)
  BY <1>1, <1>2, <1>3 DEF KeyChange
<1>5. \A p \in Players : BoxChange(p)
  BY <1>1, BoxSame
<1>6. \A c \in Calls : TagChange(c)
  BY <1>1, <1>2, <1>3, CallerType, CallsTakeSides DEF TagChange
<1> QED BY <1>1, <1>4, <1>5, <1>6 DEF HostChange

LEMMA RunChanges ==
  ASSUME HostIInv, OneStates, NEW b \in Calls, RunCall(b)
  PROVE  HostChange
<1> DEFINE k == KeyOf(Caller[b])
<1>0. HostTypeOK /\ k \in Keys /\ Caller[b] \in Players
  BY CallerType DEF HostIInv
<1>1. /\ UNCHANGED <<scope, late, cutOff, outbox>>
      /\ untagged \subseteq untagged' /\ b \in tags'[k] \cup untagged'
      /\ tags'[k] \in {tags[k], tags[k] \cup {b}}
      /\ \A j \in Keys \ {k} : tags'[j] = tags[j]
  BY <1>0 DEF RunCall, TagsWith, worldVars, wireVars, HostTypeOK
<1>2. /\ source'[k] = source[k] \cup {b}
      /\ \A j \in Keys \ {k} : source'[j] = source[j]
      /\ Invalidate(k, tags'[k], source'[k])
  BY <1>0 DEF RunCall, Write, Covered, HostTypeOK
<1>3. /\ load'[k] = load[k] \/ (load'[k].read = source'[k] /\ load'[k].covering = tags'[k])
      /\ cached'[k] \in {cached[k], NoValue}
      /\ \A j \in Keys \ {k} : load'[j] = load[j] /\ cached'[j] = cached[j]
  BY <1>0, <1>2, KeyInvalidated
<1>4. \A j \in Keys : KeyChange(j)
  BY <1>1, <1>2, <1>3 DEF KeyChange
<1>5. \A p \in Players : BoxChange(p)
  BY <1>1, BoxSame
<1>6. \A c \in Calls : TagChange(c)
  BY <1>1, <1>2, <1>3, CallerType DEF TagChange
<1> QED BY <1>1, <1>4, <1>5, <1>6 DEF HostChange

LEMMA RespondChanges ==
  ASSUME HostIInv, OneStates, NEW b \in Calls, Respond(b)
  PROVE  HostChange
<1>1. UNCHANGED <<scope, late, source, untagged, cutOff, tags, cached, load>>
  BY DEF Respond, worldVars, keyVars
<1>2. \A k \in Keys : KeyChange(k)
  BY <1>1 DEF KeyChange
<1>3. \A p \in Players : BoxChange(p)
  <2>1. HostTypeOK /\ PendingTag(b) \in BOOLEAN
    BY DEF HostIInv, PendingTag
  <2>2. \A p \in Players : \/ outbox'[p] = outbox[p]
                           \/ outbox'[p] = Append(outbox[p], Response(b, PendingTag(b)))
    BY <2>1 DEF Respond, HostTypeOK
  <2> QED BY <2>1, <2>2, BoxSame, BoxAppended
<1>4. \A c \in Calls : TagChange(c)
  BY <1>1, CallerType, TagSame
<1> QED BY <1>1, <1>2, <1>3, <1>4 DEF HostChange

(* p's tags go with p's subscription, to cutOff or with p's updates.       *)
LEMMA TagsDropped ==
  ASSUME HostTypeOK, NEW p \in Players,
         Unlink(p) \/ tags' = tags
  PROVE  /\ \A k \in Keys : tags'[k] \subseteq tags[k]
         /\ \A c \in Calls : LET k == KeyOf(Caller[c]) IN
              c \in tags[k] => c \in tags'[k] \/ (Caller[c] = p /\ c \in TagsOf(KeyOf(p), p))
<1> DEFINE k == KeyOf(p)
<1>1. k \in Keys
  BY KeyOfType
<1>2. \A j \in Keys : tags'[j] = tags[j] \/ (j = k /\ tags'[j] = tags[j] \ TagsOf(k, p))
  BY <1>1 DEF Unlink, HostTypeOK
<1> HIDE DEF k
<1>3. \A j \in Keys : tags'[j] \subseteq tags[j]
  BY <1>2
<1>4. ASSUME NEW c \in Calls, c \in tags[KeyOf(Caller[c])], c \notin tags'[KeyOf(Caller[c])]
      PROVE  Caller[c] = p /\ c \in TagsOf(k, p)
  <2>1. c \in TagsOf(k, p)
    BY <1>2, <1>4, CallerType
  <2> QED BY <2>1 DEF TagsOf
<1> QED BY <1>3, <1>4 DEF k

LEMMA UnsubscribeChanges ==
  ASSUME HostIInv, OneStates, NEW p \in Players, Unsubscribe(p),
         \A c \in TagsOf(KeyOf(p), p) : c \notin updates'[p]
  PROVE  HostChange
<1>1. UNCHANGED <<scope, late, source, untagged, cutOff, outbox, cached, load>>
  BY DEF Unsubscribe, worldVars, callVars, wireVars
<1>2. /\ \A k \in Keys : tags'[k] \subseteq tags[k]
      /\ \A c \in Calls : LET k == KeyOf(Caller[c]) IN
           c \in tags[k] => c \in tags'[k] \/ (Caller[c] = p /\ c \in TagsOf(KeyOf(p), p))
  BY TagsDropped DEF Unsubscribe, HostIInv
<1>3. \A k \in Keys : KeyChange(k)
  BY <1>1, <1>2, KeySame
<1>4. \A q \in Players : BoxChange(q)
  BY <1>1, BoxSame
<1>5. \A c \in Calls : TagChange(c)
  BY <1>1, <1>2 DEF TagChange
<1> QED BY <1>1, <1>3, <1>4, <1>5 DEF HostChange

(* An item with no keys of its own goes to p alone.                        *)
LEMMA BoxesAnswered ==
  ASSUME HostIInv, OneStates, NEW p \in Players,
         NEW data \in {NoValue, cached[KeyOf(p)]}, NEW error \in {"none", "load", "forbidden"},
         outbox' = [outbox EXCEPT ![p] = Replace(@, StateItem(revision + 1, data, error))]
  PROVE  \A q \in Players : BoxChange(q)
<1> DEFINE item == StateItem(revision + 1, data, error)
<1>1. HostTypeOK /\ revision + 1 \in Nat \ {0} /\ data \in Values \cup {NoValue}
  BY KeyOfType DEF HostIInv, HostTypeOK
<1>2. item \in StateItems /\ item.d = data
  BY <1>1 DEF StateItem, StateItems
<1>3. /\ outbox'[p] = Replace(outbox[p], item)
      /\ \A q \in Players \ {p} : outbox'[q] = outbox[q]
  BY <1>1 DEF HostTypeOK
<1> HIDE DEF item
<1>4. BoxChange(p)
  BY <1>1, <1>2, <1>3, BoxReplaced
<1> QED BY <1>3, <1>4, BoxSame

LEMMA RefuseChanges ==
  ASSUME HostIInv, OneStates, NEW p \in Players, Refuse(p)
  PROVE  HostChange
<1>1. /\ UNCHANGED <<scope, late, source, untagged, cached, load>>
      /\ cutOff' = cutOff \cup TagsOf(KeyOf(p), p)
  BY DEF Refuse, worldVars
<1>2. /\ \A k \in Keys : tags'[k] \subseteq tags[k]
      /\ \A c \in Calls : LET k == KeyOf(Caller[c]) IN
           c \in tags[k] => c \in tags'[k] \/ (Caller[c] = p /\ c \in TagsOf(KeyOf(p), p))
  BY TagsDropped DEF Refuse, HostIInv
<1>3. \A k \in Keys : KeyChange(k)
  BY <1>1, <1>2, KeySame
<1>4. \A q \in Players : BoxChange(q)
  BY BoxesAnswered DEF Refuse
<1>5. \A c \in Calls : TagChange(c)
  BY <1>1, <1>2 DEF TagChange
<1> QED BY <1>1, <1>3, <1>4, <1>5 DEF HostChange

LEMMA SubscribeChanges ==
  ASSUME HostIInv, OneStates, NEW p \in Players, Subscribe(p)
  PROVE  HostChange
<1> DEFINE k == KeyOf(p)
<1>0. k \in Keys /\ HostTypeOK
  BY KeyOfType DEF HostIInv
<1>1. CASE Refuse(p)
  BY <1>1, RefuseChanges
<1>2. CASE Join(p) \/ AnswerCached(p) \/ LoadFor(p)
  <2>1. UNCHANGED <<scope, late, source, untagged, cutOff, tags, cached>>
    BY <1>2 DEF Join, AnswerCached, LoadFor, worldVars, callVars
  <2>2. /\ load'[k] = load[k] \/ (load'[k].read = source'[k] /\ load'[k].covering = tags'[k])
        /\ \A j \in Keys \ {k} : load'[j] = load[j]
    <3>1. CASE Join(p) \/ AnswerCached(p)
      BY <3>1 DEF Join, AnswerCached
    <3>2. CASE LoadFor(p)
      BY <1>0, <2>1, <3>2, KeyLoaded DEF LoadFor
    <3> QED BY <1>2, <3>1, <3>2
  <2>3. \A j \in Keys : KeyChange(j)
    BY <2>1, <2>2 DEF KeyChange
  <2>4. \A q \in Players : BoxChange(q)
    <3>1. CASE Join(p) \/ LoadFor(p)
      BY <3>1, BoxSame DEF Join, LoadFor, wireVars
    <3>2. CASE AnswerCached(p)
      BY <3>2, BoxesAnswered DEF AnswerCached, FreshRevision
    <3> QED BY <1>2, <3>1, <3>2
  <2>5. \A c \in Calls : TagChange(c)
    BY <2>1, CallerType, TagSame
  <2> QED BY <2>1, <2>3, <2>4, <2>5 DEF HostChange
<1> QED BY <1>1, <1>2 DEF Subscribe

(* A step that changes no key, no item and no tag.                         *)
LEMMA QuietChanges ==
  ASSUME OneStates, UNCHANGED <<scope, late, source, untagged, cutOff, keyVars, outbox>>
  PROVE  HostChange
<1>1. UNCHANGED <<load, tags, cached>>
  BY DEF keyVars
<1>2. \A k \in Keys : KeyChange(k)
  BY <1>1, KeySame
<1>3. \A q \in Players : BoxChange(q)
  BY BoxSame
<1>4. \A c \in Calls : TagChange(c)
  BY <1>1, CallerType, TagSame
<1> QED BY <1>2, <1>3, <1>4 DEF HostChange

(* The tags an unsubscription drops are of calls that ran: what p still    *)
(* updates was called after it.                                            *)
LEMMA ReceiveChanges ==
  ASSUME TypeIInv, TagIInv, Homes, OneStates, Written, Requested, NEW p \in Players, Receive(p)
  PROVE  HostChange
<1> DEFINE first == Head(up[p])
<1>0. HostIInv /\ up[p] # << >> /\ up[p] \in Seq(Requests) /\ updates' = updates
  BY DEF TypeIInv, ClientIInv, ClientTypeOK, Receive
<1>1. CASE Subscribe(p)
  BY <1>0, <1>1, SubscribeChanges
<1>2. CASE first.o = "unsubscribe" /\ Unsubscribe(p)
  <2>1. 1 \in DOMAIN up[p] /\ up[p][1].o = "unsubscribe"
    BY <1>0, <1>2, LenProperties, HeadTailProperties, EmptySeq
  <2>2. ASSUME NEW c \in TagsOf(KeyOf(p), p)
        PROVE  c \notin updates'[p]
    <3>1. c \in source[KeyOf(p)] /\ c \in Calls
      BY <1>0, KeyOfType DEF TagsOf, Written, KeyWritten, HostIInv, HostTypeOK
    <3>2. ran[c] # "no"
      BY <3>1, KeyOfType DEF Requested, RunsWhenCalled
    <3>3. \A j \in DOMAIN up[p] : ~IsCall(up[p][j], c)
      BY <3>1, <3>2 DEF Requested, RequestFits
    <3> QED BY <1>0, <2>1, <3>1, <3>3 DEF Requested, RequestFits
  <2> QED BY <1>0, <1>2, <2>2, UnsubscribeChanges
<1>3. CASE UNCHANGED <<worldVars, keyVars, wireVars, source, untagged, cutOff>>
  BY <1>3, QuietChanges DEF worldVars, wireVars
<1> QED BY <1>1, <1>2, <1>3 DEF Receive

-----------------------------------------------------------------------------
(* What was written stays written.                                         *)

LEMMA StatesWritten ==
  ASSUME NEW k \in Keys, NEW box, NEW new, source[k] \subseteq source'[k], scope' = scope,
         ItemsWritten(box, k), StatesIn(new) \subseteq StatesIn(box)
  PROVE  \A item \in StatesIn(new) : item.d # NoValue => item.d \subseteq source'[k]
BY DEF ItemsWritten

LEMMA KeyStaysWritten ==
  ASSUME HostTypeOK, NEW k \in Keys, KeyWritten(k), KeyChange(k)
  PROVE  KeyWritten(k)'
<1>1. source[k] \subseteq source'[k] /\ tags'[k] \subseteq source'[k]
  BY DEF KeyChange, KeyWritten
<1>2. load'[k].read \subseteq source'[k] /\ load'[k].covering \subseteq source'[k]
  BY <1>1 DEF KeyChange, KeyWritten, NoLoad
<1>3. cached'[k] # NoValue => cached'[k] \subseteq source'[k]
  BY <1>1 DEF KeyChange, KeyWritten
<1> QED BY <1>1, <1>2, <1>3 DEF KeyWritten

LEMMA BoxStaysWritten ==
  ASSUME scope' = scope, NEW p \in Players, LET k == KeyOf(p) IN
           KeyWritten(k) /\ source[k] \subseteq source'[k] /\ ItemsWritten(outbox[p], k),
         BoxChange(p)
  PROVE  ItemsWritten(outbox[p], KeyOf(p))'
<1> DEFINE k == KeyOf(p)
<1>1. KeyOf(p)' = k
  BY DEF KeyOf
<1>2. source[k] \subseteq source'[k]
  OBVIOUS
<1>3. CASE StatesIn(outbox'[p]) = StatesIn(outbox[p])
  BY <1>1, <1>2, <1>3 DEF ItemsWritten
<1>4. ASSUME NEW s, StatesIn(outbox'[p]) = {s}, s.d \in {NoValue, cached[k], load[k].read}
      PROVE  ItemsWritten(outbox[p], KeyOf(p))'
  <2>1. s.d # NoValue => s.d \subseteq source'[k]
    BY <1>2, <1>4 DEF KeyWritten
  <2> QED BY <1>1, <1>4, <2>1 DEF ItemsWritten
<1> QED BY <1>3, <1>4 DEF BoxChange

(* A host's step leaves every call it can answer for apart.                *)
LEMMA HostApart ==
  ASSUME ~late, scope' = scope, NEW c \in Calls, KeptApart(c),
         KeyWritten(KeyOf(Caller[c])),
         KeyChange(KeyOf(Caller[c])), BoxChange(Caller[c]), TagChange(c),
         c \in updates'[Caller[c]], c \notin untagged' \cup cutOff',
         value'[Caller[c]] = value[Caller[c]], down'[Caller[c]] = down[Caller[c]]
  PROVE  KeptApart(c)'
<1> DEFINE p == Caller[c]
           k == KeyOf(p)
<1>0. KeyOf(p)' = k
  BY DEF KeyOf
<1>1. Carried(outbox[p], c) => Carried(outbox'[p], c)
  BY DEF BoxChange, Carried
<1>2. Settling(c) => Settling(c)'
  BY <1>1 DEF Settling
<1>3. Carried(outbox'[p], c) => Settling(c)'
  BY DEF Settling
<1>4. c \in source[k] => c \in tags[k] \/ Settling(c)
  BY DEF KeptApart
<1>5. c \in source'[k] => c \in tags'[k] \/ Settling(c)'
  BY <1>2, <1>3, <1>4 DEF TagChange
<1>6. Running(k) /\ c \in load[k].read => c \in load[k].covering \/ Settling(c)
  BY DEF KeptApart
<1>7. load'[k].at # 0 /\ c \in load'[k].read => c \in load'[k].covering \/ Settling(c)'
  <2>1. CASE load'[k] = load[k]
    BY <1>2, <1>6, <2>1 DEF Running
  <2>2. CASE load'[k] = NoLoad
    BY <2>2 DEF NoLoad
  <2>3. CASE load'[k].read = source'[k] /\ load'[k].covering = tags'[k]
    BY <1>5, <2>3
  <2> QED BY <2>1, <2>2, <2>3 DEF KeyChange
<1>8. cached[k] # NoValue /\ c \in cached[k] => Settling(c)
  BY DEF KeptApart
<1>9. cached'[k] # NoValue /\ c \in cached'[k] => Settling(c)'
  <2>1. CASE cached[k] # NoValue /\ c \in cached[k]
    BY <1>2, <1>8, <2>1
  <2>2. CASE /\ Running(k) /\ c \in load[k].read
             /\ c \in load[k].covering \cap tags[k] => Carried(outbox'[p], c)
    <3>1. c \in load[k].covering => c \in source[k]
      BY DEF KeyWritten
    <3> QED BY <1>2, <1>3, <1>4, <1>6, <2>2, <3>1
  <2> QED BY <2>1, <2>2 DEF TagChange
<1>10. \A item \in StatesIn(outbox'[p]) :
         item.d # NoValue /\ c \in item.d => c \in item.k \/ Carried(down[p], c)
  <2>1. CASE StatesIn(outbox'[p]) = StatesIn(outbox[p])
    BY <2>1 DEF KeptApart, CarriedFirst
  <2>2. ASSUME NEW s, StatesIn(outbox'[p]) = {s}, \A o \in StatesIn(outbox[p]) : o.k \subseteq s.k,
               \/ s.d = NoValue \/ s.d = cached[k]
               \/ /\ Running(k) /\ s.d = load[k].read
                  /\ {b \in load[k].covering : Caller[b] = p} \subseteq s.k,
               s.d # NoValue, c \in s.d
        PROVE  c \in s.k \/ Carried(down[p], c)
    <3>1. Settling(c) => c \in s.k \/ Carried(down[p], c)
      BY <2>2 DEF Settling, Carried
    <3> QED BY <1>6, <1>8, <2>2, <3>1
  <2> QED BY <2>1, <2>2 DEF BoxChange
<1>11. CarriedFirst(c)'
  BY <1>10 DEF KeptApart, CarriedFirst
<1>12. ~(value'[p] # NoValue /\ c \in value'[p])
  BY DEF KeptApart
<1> HIDE DEF p, k
<1> QED BY <1>0, <1>5, <1>7, <1>9, <1>11, <1>12 DEF KeptApart, Running, p, k

LEMMA HostKeeps ==
  ASSUME TypeIInv, Apart, HostChange, UNCHANGED <<value, updates, down>>
  PROVE  Apart'
<1>0. HostTypeOK /\ UNCHANGED <<scope, late>>
  BY DEF TypeIInv, HostIInv, HostChange
<1>1. OneStates'
  BY DEF HostChange, BoxChange, OneStates
<1>2. /\ \A k \in Keys : KeyWritten(k) /\ KeyChange(k) /\ source[k] \subseteq source'[k]
      /\ \A p \in Players : BoxChange(p)
      /\ \A c \in Calls : TagChange(c)
  BY DEF Apart, Written, HostChange, KeyChange
<1>3. \A k \in Keys : KeyWritten(k)'
  BY <1>0, <1>2, KeyStaysWritten
<1>4. ASSUME NEW p \in Players
      PROVE  (/\ ItemsWritten(down[p], KeyOf(p)) /\ ItemsWritten(outbox[p], KeyOf(p))
              /\ value[p] # NoValue => value[p] \subseteq source[KeyOf(p)])'
  <2>1. /\ ItemsWritten(down[p], KeyOf(p)) /\ ItemsWritten(outbox[p], KeyOf(p))
        /\ value[p] # NoValue => value[p] \subseteq source[KeyOf(p)]
        /\ KeyOf(p) \in Keys /\ KeyOf(p)' = KeyOf(p)
    BY <1>0, KeyOfType DEF Apart, Written, KeyOf
  <2>2. ItemsWritten(outbox[p], KeyOf(p))'
    BY <1>0, <1>2, <2>1, BoxStaysWritten
  <2>3. ItemsWritten(down[p], KeyOf(p))'
    BY <1>2, <2>1 DEF ItemsWritten
  <2> QED BY <1>2, <2>1, <2>2, <2>3
<1>5. Written'
  BY <1>3, <1>4 DEF Written
<1>6. ASSUME ~late, NEW c \in Calls, Tracked(c)'
      PROVE  KeptApart(c)'
  <2>1. Tracked(c)
    BY <1>6 DEF Tracked, HostChange
  <2>2. KeptApart(c)
    BY <1>6, <2>1 DEF Apart, AllApart
  <2> QED BY <1>0, <1>2, <1>6, <2>2, CallerType, HostApart DEF Tracked
<1>7. AllApart'
  BY <1>0, <1>6 DEF AllApart
<1> QED BY <1>1, <1>5, <1>7 DEF Apart

(* Steps of a client.                                                      *)
LEMMA WrittenFrame ==
  ASSUME Written, UNCHANGED <<scope, source, load, tags, cached, outbox, down>>,
         \A p \in Players : value'[p] \in {value[p], NoValue}
  PROVE  Written'
<1>1. \A k \in Keys : KeyWritten(k)'
  BY DEF Written, KeyWritten
<1>2. \A p \in Players : KeyOf(p)' = KeyOf(p)
  BY DEF KeyOf
<1>3. \A p \in Players :
        (/\ ItemsWritten(down[p], KeyOf(p)) /\ ItemsWritten(outbox[p], KeyOf(p))
         /\ value[p] # NoValue => value[p] \subseteq source[KeyOf(p)])'
  BY <1>2 DEF Written, ItemsWritten
<1> QED BY <1>1, <1>3 DEF Written

LEMMA ApartFrame ==
  ASSUME UNCHANGED <<scope, source, load, tags, cached, outbox, down>>,
         NEW c \in Calls, KeptApart(c), value'[Caller[c]] = value[Caller[c]]
  PROVE  KeptApart(c)'
<1>1. KeyOf(Caller[c])' = KeyOf(Caller[c])
  BY DEF KeyOf
<1>2. CarriedFirst(c)' /\ (Settling(c)' <=> Settling(c))
  BY DEF KeptApart, CarriedFirst, Settling
<1> QED BY <1>1, <1>2 DEF KeptApart, Running

(* A call that has not run is in nothing that was written.                 *)
LEMMA NewApart ==
  ASSUME TypeIInv, Written, Requested, NEW c \in Calls, called[c] = "new"
  PROVE  KeptApart(c)
<1> DEFINE p == Caller[c]
           k == KeyOf(p)
<1>1. p \in Players /\ k \in Keys /\ c \notin source[k]
  BY CallerType DEF Requested, RunsWhenCalled
<1>2. KeyWritten(k) /\ ItemsWritten(down[p], k) /\ ItemsWritten(outbox[p], k)
  BY <1>1 DEF Written
<1>3. ~(value[p] # NoValue /\ c \in value[p])
  BY <1>1 DEF Written
<1>4. \A i \in DOMAIN down[p] : ~Contains(down[p][i], c)
  BY <1>1, <1>2 DEF ItemsWritten, Contains, StatesIn
<1>5. CarriedFirst(c)
  BY <1>1, <1>2, <1>4 DEF CarriedFirst, ItemsWritten
<1>6. /\ c \notin source[k] /\ c \notin load[k].read
      /\ ~(cached[k] # NoValue /\ c \in cached[k])
  BY <1>1, <1>2 DEF KeyWritten
<1> QED BY <1>3, <1>5, <1>6 DEF KeptApart

LEMMA ClientKeeps ==
  ASSUME TypeIInv, Apart, Requested, NEW p \in Players, ClientStep(p)
  PROVE  Apart'
<1>0. /\ UNCHANGED <<scope, late, source, load, tags, cached, outbox, down, untagged, cutOff>>
      /\ updates \in [Players -> SUBSET Calls] /\ value \in [Players -> Values \cup {NoValue}]
  BY DEF ClientStep, hostVars, worldVars, callVars, keyVars, wireVars,
         TypeIInv, ClientIInv, ClientTypeOK
<1>1. /\ \A q \in Players : value'[q] = value[q] \/ (value'[q] = NoValue /\ updates'[q] = {})
      /\ \A c \in Calls : c \in updates'[Caller[c]] => c \in updates[Caller[c]] \/ called[c] = "new"
  <2>1. CASE ClientSubscribe(p) \/ Refresh(p)
    BY <2>1 DEF ClientSubscribe, Refresh
  <2>2. CASE Disconnect(p)
    BY <1>0, <2>2, ItemsAssumption DEF Disconnect, Shed
  <2>3. ASSUME NEW b \in Calls, Caller[b] = p, BeginCall(b)
        PROVE  /\ value' = value /\ called[b] = "new"
               /\ \A q \in Players : updates'[q] \subseteq updates[q] \cup {b}
    BY <1>0, <2>3 DEF BeginCall
  <2> QED BY <2>1, <2>2, <2>3, CallerType DEF ClientStep
<1>2. OneStates' /\ Written'
  BY <1>0, <1>1, WrittenFrame DEF Apart, OneStates
<1>3. ASSUME ~late, NEW c \in Calls, Tracked(c)'
      PROVE  KeptApart(c)'
  <2>1. KeptApart(c)
    BY <1>0, <1>1, <1>3, NewApart DEF Tracked, Apart, AllApart
  <2>2. value'[Caller[c]] = value[Caller[c]]
    BY <1>1, <1>3, CallerType DEF Tracked
  <2> QED BY <1>0, <2>1, <2>2, ApartFrame
<1>4. AllApart'
  BY <1>0, <1>3 DEF AllApart
<1> QED BY <1>2, <1>4 DEF Apart

(* A step that touches neither the host nor what is on its way nor a value *)
LEMMA ShrinkKeeps ==
  ASSUME Apart, UNCHANGED <<scope, late, source, load, tags, cached, outbox, down, untagged, cutOff, value>>,
         \A p \in Players : updates'[p] \subseteq updates[p]
  PROVE  Apart'
<1>1. OneStates' /\ Written'
  BY WrittenFrame DEF Apart, OneStates
<1>2. ASSUME ~late, NEW c \in Calls, Tracked(c)'
      PROVE  KeptApart(c)'
  <2>1. Tracked(c)
    BY <1>2, CallerType DEF Tracked
  <2> QED BY <1>2, <2>1, ApartFrame DEF Apart, AllApart
<1> QED BY <1>1, <1>2 DEF Apart, AllApart

(* A delivered item: what it carries is updated no more, and what it       *)
(* contains it carries.                                                    *)
LEMMA DeliveredFirst ==
  ASSUME NEW c \in Calls, NEW rest, NEW box \in Seq(Items), box # << >>, rest = Tail(box),
         \A i \in DOMAIN box : Contains(box[i], c) => \E j \in 1 .. i : Carries(box[j], c),
         ~Carries(Head(box), c)
  PROVE  /\ ~Contains(Head(box), c)
         /\ Carried(box, c) => Carried(rest, c)
         /\ \A i \in DOMAIN rest : Contains(rest[i], c) => \E j \in 1 .. i : Carries(rest[j], c)
<1>1. /\ Len(box) \in Nat \ {0} /\ DOMAIN box = 1 .. Len(box) /\ Head(box) = box[1]
      /\ DOMAIN rest = 1 .. Len(box) - 1
      /\ \A i \in 1 .. Len(box) - 1 : rest[i] = box[i + 1]
  BY LenProperties, HeadTailProperties, EmptySeq
<1>2. ~Contains(Head(box), c)
  <2>1. 1 \in DOMAIN box /\ \A j \in 1 .. 1 : j = 1
    BY <1>1
  <2> QED BY <1>1, <2>1
<1>3. ASSUME Carried(box, c) PROVE Carried(rest, c)
  <2>1. PICK item \in StatesIn(box) : c \in item.k
    BY <1>3 DEF Carried
  <2>2. item # Head(box)
    BY <2>1 DEF Carries, StatesIn
  <2> QED BY <2>1, <2>2, TailStates DEF Carried
<1>4. ASSUME NEW i \in DOMAIN rest, Contains(rest[i], c)
      PROVE  \E j \in 1 .. i : Carries(rest[j], c)
  <2>1. i + 1 \in DOMAIN box /\ rest[i] = box[i + 1] /\ i \in Nat
    BY <1>1
  <2>2. PICK j \in 1 .. i + 1 : Carries(box[j], c)
    BY <1>4, <2>1
  <2>3. j # 1
    BY <1>1, <2>2
  <2>4. j - 1 \in 1 .. i /\ rest[j - 1] = box[j]
    BY <1>1, <2>1, <2>3
  <2> QED BY <2>2, <2>4
<1> QED BY <1>2, <1>3, <1>4

LEMMA DeliverKeeps ==
  ASSUME TypeIInv, Apart, NEW p \in Players, Deliver(p)
  PROVE  Apart'
<1> DEFINE item == Head(down[p])
           k == KeyOf(p)
<1>0. /\ UNCHANGED <<scope, late, source, load, tags, cached, outbox, untagged, cutOff>>
      /\ updates \in [Players -> SUBSET Calls] /\ value \in [Players -> Values \cup {NoValue}]
  BY DEF Deliver, hostVars, worldVars, callVars, keyVars, wireVars,
         TypeIInv, ClientIInv, ClientTypeOK
<1>1. /\ down[p] \in Seq(Items) /\ down[p] # << >>
      /\ down'[p] = Tail(down[p]) /\ \A q \in Players \ {p} : down'[q] = down[q]
  BY ItemsAreItems DEF Deliver, TypeIInv, ClientIInv
<1>2. item \in Items
  BY <1>1, HeadTailProperties
<1>3. /\ \A q \in Players \ {p} : value'[q] = value[q]
      /\ \A q \in Players : updates'[q] \subseteq updates[q]
      /\ \A c \in Calls : Carries(item, c) => c \notin updates'[p]
      /\ value'[p] = value[p] \/ (item.t = "state" /\ value'[p] = item.d)
  <2>1. CASE HandleState(p, item)
    BY <1>0, <2>1 DEF HandleState, Unsettled, Carries
  <2>2. CASE HandleResponse(p, item)
    BY <1>0, <2>2 DEF HandleResponse, Carries
  <2> QED BY <2>1, <2>2 DEF Deliver, Handle
<1>4. \A q \in Players : KeyOf(q)' = KeyOf(q) /\ KeyOf(q) \in Keys
  BY <1>0, KeyOfType DEF KeyOf
<1>5. item.t = "state" => item \in StatesIn(down[p])
  <2>1. 1 \in DOMAIN down[p] /\ item = down[p][1]
    BY <1>1, LenProperties, HeadTailProperties, EmptySeq
  <2> QED BY <2>1 DEF StatesIn
<1>6. Written'
  <2>1. \A j \in Keys : KeyWritten(j)'
    BY <1>0 DEF Apart, Written, KeyWritten
  <2>2. ASSUME NEW q \in Players
        PROVE  (/\ ItemsWritten(down[q], KeyOf(q)) /\ ItemsWritten(outbox[q], KeyOf(q))
                /\ value[q] # NoValue => value[q] \subseteq source[KeyOf(q)])'
    <3>0. /\ ItemsWritten(down[q], KeyOf(q)) /\ ItemsWritten(outbox[q], KeyOf(q))
          /\ value[q] # NoValue => value[q] \subseteq source[KeyOf(q)]
      BY DEF Apart, Written
    <3>1. StatesIn(down'[q]) \subseteq StatesIn(down[q])
      BY <1>1, TailStates
    <3>2. ItemsWritten(down[q], KeyOf(q))' /\ ItemsWritten(outbox[q], KeyOf(q))'
      BY <1>0, <1>4, <3>0, <3>1 DEF ItemsWritten
    <3>3. value'[q] # NoValue => value'[q] \subseteq source'[KeyOf(q)]
      BY <1>0, <1>3, <1>5, <3>0 DEF ItemsWritten
    <3> QED BY <1>4, <3>2, <3>3
  <2> QED BY <2>1, <2>2 DEF Written
<1>7. ASSUME ~late, NEW c \in Calls, Tracked(c)'
      PROVE  KeptApart(c)'
  <2>1. Tracked(c) /\ (Caller[c] = p => ~Carries(item, c))
    BY <1>0, <1>3, <1>7, CallerType DEF Tracked
  <2>2. KeptApart(c)
    BY <1>7, <2>1 DEF Apart, AllApart
  <2>3. CASE Caller[c] # p
    <3>1. KeyOf(Caller[c])' = KeyOf(Caller[c]) /\ value'[Caller[c]] = value[Caller[c]]
          /\ down'[Caller[c]] = down[Caller[c]]
      BY <1>1, <1>3, <1>4, <2>3, CallerType
    <3>2. CarriedFirst(c)' /\ (Settling(c)' <=> Settling(c))
      BY <1>0, <2>2, <3>1 DEF KeptApart, CarriedFirst, Settling
    <3> QED BY <1>0, <2>2, <3>1, <3>2 DEF KeptApart, Running
  <2>4. CASE Caller[c] = p
    <3>1. /\ ~Contains(item, c)
          /\ Carried(down[p], c) => Carried(down'[p], c)
          /\ \A i \in DOMAIN down'[p] :
               Contains(down'[p][i], c) => \E j \in 1 .. i : Carries(down'[p][j], c)
      <4>1. \A i \in DOMAIN down[p] : 
              Contains(down[p][i], c) => \E j \in 1 .. i : Carries(down[p][j], c)
        BY <2>2, <2>4 DEF KeptApart, CarriedFirst
      <4> HIDE DEF item
      <4> QED BY <1>1, <2>1, <2>4, <4>1, DeliveredFirst DEF item
    <3>2. ~(value'[p] # NoValue /\ c \in value'[p])
      BY <1>3, <2>2, <2>4, <3>1 DEF KeptApart, Contains
    <3>3. Settling(c) => Settling(c)'
      BY <1>0, <2>4, <3>1 DEF Settling
    <3>4. CarriedFirst(c)'
      BY <1>0, <2>2, <2>4, <3>1 DEF KeptApart, CarriedFirst
    <3> QED BY <1>0, <1>4, <2>2, <2>4, <3>2, <3>3, <3>4 DEF KeptApart, Running
  <2> QED BY <2>3, <2>4
<1>8. OneStates'
  BY <1>0 DEF Apart, OneStates
<1> QED BY <1>0, <1>6, <1>7, <1>8 DEF Apart, AllApart

LEMMA FlushKeeps ==
  ASSUME TypeIInv, Apart, Flush
  PROVE  Apart'
<1>0. UNCHANGED <<scope, late, source, load, tags, cached, untagged, cutOff, value, updates>>
  BY DEF Flush, worldVars, callVars, keyVars, clientVars
<1>1. /\ \A p \in Players : outbox'[p] = << >> /\ down'[p] = down[p] \o outbox[p]
      /\ \A p \in Players : down[p] \in Seq(Items) /\ outbox[p] \in Seq(Items)
  BY ItemsAreItems DEF Flush, TypeIInv, ClientIInv, HostIInv, HostTypeOK
<1>2. \A p \in Players :
        /\ StatesIn(down'[p]) = StatesIn(down[p]) \cup StatesIn(outbox[p])
        /\ StatesIn(outbox'[p]) = {} /\ OneState(outbox'[p])
  <2> SUFFICES ASSUME NEW p \in Players
               PROVE  /\ StatesIn(down'[p]) = StatesIn(down[p]) \cup StatesIn(outbox[p])
                      /\ StatesIn(outbox'[p]) = {} /\ OneState(outbox'[p])
    OBVIOUS
  <2>1. StatesIn(down'[p]) = StatesIn(down[p]) \cup StatesIn(outbox[p])
    <3> DEFINE a == down[p]
               b == outbox[p]
    <3>1. a \in Seq(Items) /\ b \in Seq(Items) /\ down'[p] = a \o b
      BY <1>1
    <3> HIDE DEF a, b
    <3>2. StatesIn(a \o b) = StatesIn(a) \cup StatesIn(b)
      BY <3>1, ConcatStates
    <3> QED BY <3>1, <3>2 DEF a, b
  <2> QED BY <1>1, <2>1, EmptyStates
<1>3. \A q \in Players : KeyOf(q)' = KeyOf(q) /\ KeyOf(q) \in Keys
  BY <1>0, KeyOfType DEF KeyOf
<1>4. Written'
  <2>1. \A j \in Keys : KeyWritten(j)'
    BY <1>0 DEF Apart, Written, KeyWritten
  <2>2. ASSUME NEW q \in Players
        PROVE  (/\ ItemsWritten(down[q], KeyOf(q)) /\ ItemsWritten(outbox[q], KeyOf(q))
                /\ value[q] # NoValue => value[q] \subseteq source[KeyOf(q)])'
    BY <1>0, <1>2, <1>3 DEF Apart, Written, ItemsWritten
  <2> QED BY <2>1, <2>2 DEF Written
<1>5. ASSUME ~late, NEW c \in Calls, Tracked(c)'
      PROVE  KeptApart(c)'
  <2> DEFINE p == Caller[c]
  <2>0. p \in Players
    BY CallerType
  <2>1. KeptApart(c)
    BY <1>0, <1>5 DEF Tracked, Apart, AllApart
  <2>2. Settling(c) => Carried(down'[p], c)
    BY <1>2, <2>0 DEF Settling, Carried
  <2>3. ASSUME NEW i \in DOMAIN down'[p], Contains(down'[p][i], c)
        PROVE  \E j \in 1 .. i : Carries(down'[p][j], c)
    <3> DEFINE old == down[p]
               new == old \o outbox[p]
    <3>0. /\ new = down'[p] /\ old \in Seq(Items) /\ outbox[p] \in Seq(Items)
          /\ Len(old) \in Nat /\ DOMAIN old = 1 .. Len(old)
          /\ Len(new) \in Nat /\ DOMAIN new = 1 .. Len(new)
      BY <1>1, <2>0, LenProperties, ConcatProperties
    <3>1. /\ \A j \in DOMAIN old : j \in DOMAIN new /\ new[j] = old[j]
          /\ i \notin DOMAIN old =>
               i > Len(old) /\ (new[i].t = "state" => new[i] \in StatesIn(outbox[p]))
      BY <2>3, <3>0, ConcatStates
    <3> HIDE DEF old, new
    <3>2. /\ \A j \in DOMAIN old : Contains(old[j], c) => \E m \in 1 .. j : Carries(old[m], c)
          /\ \A item \in StatesIn(outbox[p]) :
               item.d # NoValue /\ c \in item.d => c \in item.k \/ Carried(old, c)
      BY <2>1 DEF KeptApart, CarriedFirst, old
    <3>3. CASE i \in DOMAIN old
      <4>1. PICK m \in 1 .. i : Carries(old[m], c)
        BY <2>3, <3>0, <3>1, <3>2, <3>3
      <4>2. m \in DOMAIN old
        BY <3>0, <3>3, <4>1
      <4> QED BY <3>0, <3>1, <4>1, <4>2
    <3>4. CASE i \notin DOMAIN old
      <4>1. new[i].t = "state" /\ (c \in new[i].k \/ Carried(old, c))
        BY <2>3, <3>0, <3>1, <3>2, <3>4 DEF Contains
      <4>2. i \in 1 .. i
        BY <2>3, <3>0
      <4>3. CASE c \in new[i].k
        BY <3>0, <4>1, <4>2, <4>3 DEF Carries
      <4>4. CASE Carried(old, c)
        <5>1. PICK m \in DOMAIN old : Carries(old[m], c)
          BY <4>4 DEF Carried, StatesIn, Carries
        <5>2. m \in 1 .. i
          BY <2>3, <3>0, <3>1, <3>4, <5>1
        <5> QED BY <3>0, <3>1, <5>1, <5>2
      <4> QED BY <4>1, <4>3, <4>4
    <3> QED BY <3>3, <3>4
  <2>4. CarriedFirst(c)'
    BY <1>2, <2>0, <2>3 DEF CarriedFirst
  <2>5. Settling(c) => Settling(c)'
    BY <2>2 DEF Settling
  <2> HIDE DEF p
  <2> QED BY <1>0, <1>3, <2>0, <2>1, <2>4, <2>5 DEF KeptApart, Running, p
<1>6. OneStates'
  BY <1>2 DEF OneStates
<1> QED BY <1>0, <1>4, <1>5, <1>6 DEF Apart, AllApart

LEMMA LeaveKeeps ==
  ASSUME TypeIInv, Apart, NEW p \in Players, Leave(p)
  PROVE  Apart'
<1>0. /\ UNCHANGED <<scope, late, source, cached, untagged, cutOff>>
      /\ updates'[p] = {} /\ value'[p] = NoValue /\ outbox'[p] = << >> /\ down'[p] = << >>
      /\ \A q \in Players \ {p} :
           /\ updates'[q] = updates[q] /\ value'[q] = value[q]
           /\ outbox'[q] = outbox[q] /\ down'[q] = down[q]
  <2>1. /\ outbox \in [Players -> Seq(Items)] /\ value \in [Players -> Values \cup {NoValue}]
        /\ updates \in [Players -> SUBSET Calls] /\ down \in [Players -> Seq(ItemsTo(revision))]
    BY DEF TypeIInv, HostIInv, HostTypeOK, ClientIInv, ClientTypeOK
  <2>2. /\ UNCHANGED <<scope, late, source, cached, untagged, cutOff>>
        /\ outbox' = [outbox EXCEPT ![p] = << >>]
    BY DEF Leave, ForgetPlayer, callVars
  <2>3. /\ updates' = [updates EXCEPT ![p] = {}] /\ value' = [value EXCEPT ![p] = NoValue]
        /\ down' = [down EXCEPT ![p] = << >>]
    BY DEF Leave, ClientGone, Shed
  <2> QED BY <2>1, <2>2, <2>3
<1>1. \A k \in Keys : load'[k] \in {load[k], NoLoad} /\ tags'[k] = tags[k] \ TagsOf(k, p)
  BY DEF Leave, ForgetPlayer, TypeIInv, HostIInv, HostTypeOK
<1>2. \A q \in Players : KeyOf(q)' = KeyOf(q) /\ KeyOf(q) \in Keys
  BY <1>0, KeyOfType DEF KeyOf
<1>3. \A k \in Keys : KeyWritten(k)' /\ KeyWritten(k) /\ KeyChange(k)
  <2>1. \A k \in Keys : KeyWritten(k)
    BY DEF Apart, Written
  <2>2. \A k \in Keys : KeyChange(k)
    BY <1>0, <1>1 DEF KeyChange
  <2> QED BY <2>1, <2>2, KeyStaysWritten DEF TypeIInv, HostIInv
<1>4. Written'
  <2>1. ASSUME NEW q \in Players
        PROVE  (/\ ItemsWritten(down[q], KeyOf(q)) /\ ItemsWritten(outbox[q], KeyOf(q))
                /\ value[q] # NoValue => value[q] \subseteq source[KeyOf(q)])'
    <3>1. CASE q = p
      BY <1>0, <3>1, EmptyStates DEF ItemsWritten
    <3>2. CASE q # p
      BY <1>0, <1>2, <3>2 DEF Apart, Written, ItemsWritten
    <3> QED BY <3>1, <3>2
  <2> QED BY <1>3, <2>1 DEF Written
<1>5. OneStates'
  BY <1>0, EmptyStates DEF Apart, OneStates
<1>6. ASSUME ~late, NEW c \in Calls, Tracked(c)'
      PROVE  KeptApart(c)'
  <2>1. Caller[c] # p
    BY <1>0, <1>6 DEF Tracked
  <2>2. /\ updates'[Caller[c]] = updates[Caller[c]] /\ value'[Caller[c]] = value[Caller[c]]
        /\ down'[Caller[c]] = down[Caller[c]] /\ BoxChange(Caller[c])
    BY <1>0, <2>1, CallerType, BoxSame DEF Apart
  <2>3. KeptApart(c)
    BY <1>0, <1>6, <2>2 DEF Tracked, Apart, AllApart
  <2>4. TagChange(c)
    BY <1>0, <1>1, <2>1, CallerType DEF TagChange, TagsOf
  <2> QED BY <1>0, <1>3, <1>6, <2>2, <2>3, <2>4, CallerType, HostApart DEF Tracked
<1> QED BY <1>0, <1>4, <1>5, <1>6 DEF Apart, AllApart

-----------------------------------------------------------------------------
LEMMA HomesNext == TypeIInv /\ Homes /\ [Next]_vars => Homes'
<1> SUFFICES ASSUME TypeIInv, Homes, [Next]_vars PROVE Homes'
  OBVIOUS
<1>0. HostTypeOK /\ KeyStep
  BY NextIsKeyStep DEF TypeIInv, HostIInv
<1>1. ASSUME scope' = scope, NEW q \in Players,
             \A k \in Keys : subscribers'[k] \subseteq subscribers[k] \cup (IF k = KeyOf(q) THEN {q} ELSE {})
      PROVE  Homes'
  BY <1>1 DEF Homes, KeyOf
<1>2. CASE UNCHANGED <<scope, subscribers>>
  BY <1>2 DEF Homes, KeyOf
<1>3. ASSUME NEW k \in Keys, NEW ok \in BOOLEAN, DropResult(k, ok) \/ SendResult(k, ok) PROVE Homes'
  BY <1>2, <1>3 DEF DropResult, SendResult, worldVars
<1>4. ASSUME NEW k \in Keys, LateRead(k) PROVE Homes'
  BY <1>2, <1>4 DEF LateRead, worldVars
<1>5. ASSUME NEW k \in Keys, NEW w \in Pushes, Push(k, w) PROVE Homes'
  BY <1>2, <1>5 DEF Push, worldVars
<1>6. ASSUME NEW c \in Calls, RunCall(c) PROVE Homes'
  BY <1>2, <1>6 DEF RunCall, worldVars
<1>7. ASSUME NEW p \in Players, Unsubscribe(p) \/ Subscribe(p) \/ ForgetPlayer(p)
      PROVE  scope' = scope /\ \A k \in Keys :
               subscribers'[k] \subseteq subscribers[k] \cup (IF k = KeyOf(p) THEN {p} ELSE {})
  <2>1. CASE Unsubscribe(p) \/ Refuse(p)
    BY <1>0, <2>1, KeyOfType DEF Unsubscribe, Refuse, Unlink, worldVars, HostTypeOK
  <2>2. CASE Join(p) \/ AnswerCached(p) \/ LoadFor(p)
    BY <1>0, <2>2, KeyOfType DEF Join, AnswerCached, LoadFor, Admitted, worldVars, HostTypeOK
  <2>3. CASE ForgetPlayer(p)
    BY <1>0, <2>3 DEF ForgetPlayer, HostTypeOK
  <2> QED BY <1>7, <2>1, <2>2, <2>3 DEF Subscribe
<1>8. CASE UNCHANGED <<scope, source, keyVars>>
  BY <1>2, <1>8 DEF keyVars
<1> QED BY <1>0, <1>1, <1>3, <1>4, <1>5, <1>6, <1>7, <1>8 DEF KeyStep

LEMMA ApartInit == Init => ApartIInv
<1> SUFFICES ASSUME Init PROVE ApartIInv
  OBVIOUS
<1>1. /\ source = [k \in Keys |-> {}] /\ load = [k \in Keys |-> NoLoad]
      /\ tags = [k \in Keys |-> {}] /\ cached = [k \in Keys |-> NoValue]
      /\ subscribers = [k \in Keys |-> {}] /\ ran = [c \in Calls |-> "no"]
      /\ outbox = [p \in Players |-> << >>] /\ down = [p \in Players |-> << >>]
      /\ value = [p \in Players |-> NoValue] /\ updates = [p \in Players |-> {}]
      /\ up = [p \in Players |-> << >>]
  BY DEF Init, HostInit, ClientInit
<1>2. Homes /\ OneStates
  BY <1>1, EmptyStates DEF Homes, OneStates
<1>3. Written
  <2>1. \A k \in Keys : KeyWritten(k)
    BY <1>1 DEF KeyWritten, NoLoad
  <2>2. \A p \in Players :
          /\ ItemsWritten(down[p], KeyOf(p)) /\ ItemsWritten(outbox[p], KeyOf(p))
          /\ value[p] # NoValue => value[p] \subseteq source[KeyOf(p)]
    BY <1>1, EmptyStates DEF ItemsWritten
  <2> QED BY <2>1, <2>2 DEF Written
<1>4. Requested
  <2>1. \A p \in Players : DOMAIN up[p] = {} /\ updates[p] = {}
    BY <1>1, EmptySeq, LenProperties
  <2> QED BY <1>1, <2>1 DEF Requested, RunsWhenCalled, RequestFits
<1>5. AllApart
  BY <1>1, CallerType DEF AllApart, Tracked
<1> QED BY <1>2, <1>3, <1>4, <1>5 DEF ApartIInv, Apart

LEMMA ApartNext == TypeIInv /\ TagIInv /\ ApartIInv /\ [Next]_vars => ApartIInv'
<1> SUFFICES ASSUME TypeIInv, TagIInv, ApartIInv, [Next]_vars PROVE ApartIInv'
  OBVIOUS
<1>0. HostIInv /\ HostTypeOK /\ Homes /\ OneStates /\ Written /\ Requested /\ Apart
  BY DEF TypeIInv, HostIInv, ApartIInv, Apart
<1>1. Homes' /\ Requested'
  BY <1>0, HomesNext, RequestedNext
<1> SUFFICES Apart'
  BY <1>1 DEF ApartIInv
<1>2. ASSUME HostChange, UNCHANGED <<value, updates, down>> PROVE Apart'
  BY <1>0, <1>2, HostKeeps
<1>3. ASSUME NEW k \in Keys, NEW ok \in BOOLEAN, LoadEnds(k, ok) PROVE Apart'
  <2>1. (DropResult(k, ok) \/ SendResult(k, ok)) /\ UNCHANGED <<value, updates, down>>
    BY <1>3 DEF LoadEnds, FinishLoad, clientVars
  <2>2. HostChange
    BY <1>0, <2>1, DropChanges, SendChanges
  <2> QED BY <1>2, <2>1, <2>2
<1>4. CASE Flush
  BY <1>0, <1>4, FlushKeeps
<1>5. ASSUME NEW c \in Calls, CallRuns(c) PROVE Apart'
  <2>1. ASSUME FailCall(c) PROVE HostChange
    BY <1>0, <2>1, QuietChanges DEF FailCall, worldVars, wireVars
  <2>2. (RunCall(c) \/ FailCall(c) \/ Respond(c)) /\ UNCHANGED <<value, updates, down>>
    BY <1>5 DEF CallRuns, clientVars
  <2> QED BY <1>0, <1>2, <2>1, <2>2, RunChanges, RespondChanges
<1>6. ASSUME NEW p \in Players, Receive(p) PROVE Apart'
  <2>1. HostChange
    BY <1>0, <1>6, ReceiveChanges
  <2> QED BY <1>0, <1>6, <2>1, HostKeeps DEF Receive
<1>7. ASSUME NEW p \in Players, Deliver(p) PROVE Apart'
  BY <1>0, <1>7, DeliverKeeps
<1>8. CASE HostStep
  <2>1. ASSUME NEW p \in Players, Authorize(p) PROVE HostChange
    BY <1>0, <2>1, QuietChanges DEF Authorize, callVars, wireVars
  <2>2. UNCHANGED <<value, updates, down>>
    BY <1>8 DEF HostStep, clientVars
  <2>3. HostChange
    BY <1>0, <1>8, <2>1, PushChanges, LateReadChanges DEF HostStep
  <2> QED BY <1>2, <2>2, <2>3
<1>9. ASSUME NEW p \in Players, ClientStep(p) PROVE Apart'
  BY <1>0, <1>9, ClientKeeps
<1>10. ASSUME NEW p \in Players, Leave(p) PROVE Apart'
  BY <1>0, <1>10, LeaveKeeps
<1>11. ASSUME NEW c \in Calls, CallStep(c) PROVE Apart'
  <2>1. \A p \in Players : updates'[p] \subseteq updates[p]
    <3>1. updates \in [Players -> SUBSET Calls] /\ (RejectCall(c) \/ SettleTimeout(c))
      BY <1>11 DEF CallStep, TypeIInv, ClientIInv, ClientTypeOK
    <3>2. updates' = [updates EXCEPT ![Caller[c]] = @ \ {c}]
      BY <3>1 DEF RejectCall, SettleTimeout, Withdraw
    <3> QED BY <3>1, <3>2
  <2>2. UNCHANGED <<scope, late, source, load, tags, cached, outbox, down, untagged, cutOff, value>>
    BY <1>11 DEF CallStep, RejectCall, SettleTimeout, hostVars, worldVars, callVars, keyVars, wireVars
  <2> QED BY <1>0, <2>1, <2>2, ShrinkKeeps
<1>12. CASE UNCHANGED vars
  <2>1. /\ UNCHANGED <<scope, late, source, untagged, cutOff, keyVars, outbox>>
        /\ UNCHANGED <<value, updates, down>>
    BY <1>12 DEF vars, hostVars, worldVars, callVars, wireVars, clientVars
  <2>2. HostChange
    BY <1>0, <2>1, QuietChanges
  <2> QED BY <1>2, <2>1, <2>2
<1> QED
  BY <1>3, <1>4, <1>5, <1>6, <1>7, <1>8, <1>9, <1>10, <1>11, <1>12 DEF Next, Step

(* While loads read when they start, a client never shows a call twice, in *)
(* its value and as an update over it, unless the host could not tag the   *)
(* call or a refusal dropped its tag (resource.ts:558-591, 660-687).       *)
THEOREM AppliedOnce == Spec => []NoDoubleApplication
<1>1. Init => TypeIInv /\ TagIInv /\ ApartIInv
  BY TypeInit, TagInit, ApartInit
<1>2. TypeIInv /\ TagIInv /\ ApartIInv /\ [Next]_vars => (TypeIInv /\ TagIInv /\ ApartIInv)'
  BY TypeNext, TagNext, ApartNext
<1>3. ApartIInv => NoDoubleApplication
  BY DEF ApartIInv, Apart, AllApart, Tracked, KeptApart, NoDoubleApplication, Shown
<1> QED BY <1>1, <1>2, <1>3, PTL DEF Spec

-----------------------------------------------------------------------------
(* What a subscriber ends on.  CurrentWhenQuiet is of the moment when      *)
(* nothing is on its way; the invariant says what the item with the highest*)
(* revision on the way to a client tells it.                               *)

OnWay(p) == StatesIn(down[p]) \cup StatesIn(outbox[p])

(* p's client will take an item under revision r, whatever comes first.    *)
Newer(p, r) == floor[p] < r /\ \A item \in OnWay(p) : item.v < r
AheadOk(p) ==
  LET k == KeyOf(p) IN
  Running(k) => refusedAt[p] > load[k].at \/ Newer(p, load[k].at)

Asked(p) == \E i \in DOMAIN up[p] : up[p][i].o = "subscribe"
AsksInOrder(p) ==
  active[p] => \A i \in DOMAIN up[p] : up[p][i].o = "unsubscribe" =>
    \E j \in DOMAIN up[p] : j > i /\ up[p][j].o = "subscribe"

(* What p is to be told: why there is no value, or the value there is.     *)
Failing(p) == ~Subscribed(p) \/ last[KeyOf(p)] = "failed"
Tells(p, item) ==
  /\ Failing(p) => item.e # "none"
  /\ ~Failing(p) => item.e = "none" /\ item.d = source[KeyOf(p)]
Knows(p) ==
  /\ Failing(p) => status[p] = "error"
  /\ ~Failing(p) => Current(p)

(* p's client ends on it: it is told last, or knows.                       *)
ToldBy(p, item) ==
  floor[p] < item.v /\ \A o \in OnWay(p) : o.v < item.v \/ o = item
EndsRight(p) ==
  \/ \E item \in OnWay(p) : Tells(p, item) /\ ToldBy(p, item)
  \/ Knows(p) /\ \A o \in OnWay(p) : o.v <= floor[p]

Excepted(p) == last[KeyOf(p)] = "dropped" \/ refusedAt[p] > sent[KeyOf(p)]
Answered(p) ==
  \/ Subscribed(p) /\ (Running(KeyOf(p)) \/ Excepted(p))
  \/ EndsRight(p)
PlayerOk(p) ==
  /\ AheadOk(p)
  /\ AsksInOrder(p)
  /\ active[p] /\ ~Asked(p) => Answered(p)

(* The cached value came of a load that succeeded.                         *)
CachedLast ==
  scope = "global" /\ cached[Everyone] # NoValue => last[Everyone] \in {"ok", "dropped"}

EndIInv == CachedLast /\ \A p \in Players : PlayerOk(p)

LEMMA OnWayType ==
  ASSUME TypeIInv, NEW p \in Players
  PROVE  floor[p] \in Nat /\ floor[p] <= revision
         /\ \A o \in OnWay(p) : o \in StateItems /\ o.v \in Nat /\ o.v <= revision
<1>1. ASSUME NEW box \in Seq(ItemsTo(revision)), NEW o \in StatesIn(box)
      PROVE  o \in StateItems /\ o.v \in Nat /\ o.v <= revision
  <2>1. PICK i \in DOMAIN box : o = box[i] /\ box[i].t = "state"
    BY <1>1 DEF StatesIn
  <2>2. box[i] \in ItemsTo(revision)
    BY <2>1, LenProperties
  <2> QED BY <2>1, <2>2 DEF ItemsTo, Items, StateItems, Responses
<1>2. down[p] \in Seq(ItemsTo(revision)) /\ outbox[p] \in Seq(ItemsTo(revision))
  BY DEF TypeIInv, ClientIInv, HostIInv
<1>3. floor[p] \in Nat /\ floor[p] <= revision
  BY DEF TypeIInv, ClientIInv, ClientTypeOK
<1> QED BY <1>1, <1>2, <1>3 DEF OnWay

(* A load of p's key stays, ends, or is new: above all that was sent.      *)
LEMMA AheadKept ==
  ASSUME TypeIInv, NEW p \in Players, AheadOk(p), scope' = scope,
         LET at == load[KeyOf(p)].at  new == load'[KeyOf(p)].at IN
           \/ new = 0
           \/ new = at /\ refusedAt'[p] = refusedAt[p]
           \/ new = revision + 1,
         floor'[p] = floor[p], OnWay(p)' \subseteq OnWay(p)
  PROVE  AheadOk(p)'
<1>1. KeyOf(p)' = KeyOf(p)
  BY DEF KeyOf
<1>2. floor[p] < revision + 1 /\ \A o \in OnWay(p) : o.v < revision + 1
  BY OnWayType DEF TypeIInv, HostIInv, HostTypeOK
<1> QED BY <1>1, <1>2 DEF AheadOk, Newer, Running

(* A step that neither tells p anything nor changes what p asked, and if p *)
(* subscribes leaves a load running or changes nothing that p is told.     *)
StillAnswered(p) ==
  LET k == KeyOf(p) IN
  /\ Subscribed(p)' <=> Subscribed(p)
  /\ status'[p] = status[p] /\ value'[p] = value[p]
  /\ Subscribed(p) =>
       \/ load'[k].at # 0
       \/ ~Running(k) /\ last'[k] = last[k] /\ sent'[k] = sent[k] /\ source'[k] = source[k]

LEMMA AnswerKept ==
  ASSUME NEW p \in Players, Answered(p), StillAnswered(p), scope' = scope,
         refusedAt'[p] = refusedAt[p], floor'[p] = floor[p], OnWay(p)' = OnWay(p)
  PROVE  Answered(p)'
<1> DEFINE k == KeyOf(p)
<1>0. KeyOf(p)' = k
  BY DEF KeyOf
<1>1. CASE ~Subscribed(p)
  <2>1. Failing(p) /\ Failing(p)' /\ EndsRight(p)
    BY <1>1 DEF Failing, StillAnswered, Answered
  <2>2. Knows(p) => Knows(p)'
    BY <2>1 DEF Knows, StillAnswered
  <2>3. \A item \in OnWay(p) : Tells(p, item) /\ ToldBy(p, item) => Tells(p, item)' /\ ToldBy(p, item)'
    BY <2>1 DEF Tells, ToldBy
  <2> QED BY <2>1, <2>2, <2>3 DEF EndsRight, Answered
<1>2. CASE Subscribed(p) /\ load'[k].at # 0
  BY <1>0, <1>2 DEF Answered, StillAnswered, Running
<1>3. CASE /\ Subscribed(p) /\ ~Running(k)
           /\ last'[k] = last[k] /\ sent'[k] = sent[k] /\ source'[k] = source[k]
  <2>1. Subscribed(p)' /\ (Excepted(p) => Excepted(p)') /\ (Failing(p)' <=> Failing(p))
    BY <1>0, <1>3 DEF Excepted, Failing, StillAnswered
  <2>2. Knows(p) => Knows(p)'
    BY <1>0, <1>3, <2>1 DEF Knows, Current, StillAnswered
  <2>3. \A item \in OnWay(p) : Tells(p, item) /\ ToldBy(p, item) => Tells(p, item)' /\ ToldBy(p, item)'
    BY <1>0, <1>3, <2>1 DEF Tells, ToldBy
  <2> QED BY <1>3, <2>1, <2>2, <2>3 DEF EndsRight, Answered
<1> QED BY <1>1, <1>2, <1>3 DEF StillAnswered

LEMMA PlayerKept ==
  ASSUME TypeIInv, NEW p \in Players, PlayerOk(p), scope' = scope,
         LET at == load[KeyOf(p)].at  new == load'[KeyOf(p)].at IN
           new = 0 \/ new = at \/ new = revision + 1,
         refusedAt'[p] = refusedAt[p], floor'[p] = floor[p], OnWay(p)' = OnWay(p),
         AsksInOrder(p)',
         active'[p] /\ ~Asked(p)' =>
           \/ Answered(p)'
           \/ active[p] /\ ~Asked(p) /\ StillAnswered(p)
  PROVE  PlayerOk(p)'
<1>1. AheadOk(p)'
  BY AheadKept DEF PlayerOk
<1>2. active'[p] /\ ~Asked(p)' => Answered(p)'
  BY AnswerKept DEF PlayerOk
<1> QED BY <1>1, <1>2 DEF PlayerOk

(* A new item of p's outbox, above all that is on its way, is what p ends  *)
(* on; the item it replaces is gone.                                       *)
LEMMA Boxed ==
  ASSUME HostTypeOK, OneStates, NEW p \in Players, NEW item \in StateItems,
         outbox'[p] = Replace(outbox[p], item), down'[p] = down[p]
  PROVE  \E s : /\ s \in OnWay(p)' /\ s.v = item.v /\ s.d = item.d /\ s.e = item.e
                /\ OnWay(p)' \subseteq OnWay(p) \cup {s}
<1>1. outbox[p] \in Seq(Items) /\ OneState(outbox[p])
  BY DEF HostTypeOK, OneStates
<1>2. PICK s : StatesIn(outbox'[p]) = {s} /\ s.d = item.d /\ s.v = item.v /\ s.e = item.e
  BY <1>1, ReplaceStates
<1>3. OnWay(p)' = StatesIn(down[p]) \cup {s}
  BY <1>2 DEF OnWay
<1> QED BY <1>2, <1>3 DEF OnWay

LEMMA Told ==
  ASSUME HostTypeOK, OneStates, NEW p \in Players, NEW item \in StateItems,
         outbox'[p] = Replace(outbox[p], item), down'[p] = down[p], floor'[p] = floor[p],
         Newer(p, item.v), Tells(p, item)'
  PROVE  EndsRight(p)'
<1>1. PICK s : /\ s \in OnWay(p)' /\ s.v = item.v /\ s.d = item.d /\ s.e = item.e
               /\ OnWay(p)' \subseteq OnWay(p) \cup {s}
  BY Boxed
<1>2. Tells(p, s)' /\ ToldBy(p, s)'
  BY <1>1 DEF Tells, ToldBy, Newer
<1> QED BY <1>1, <1>2 DEF EndsRight

LEMMA NewItem ==
  ASSUME NEW at \in Nat \ {0}, NEW data \in Values \cup {NoValue},
         NEW error \in {"none", "load", "forbidden"}
  PROVE  \E item \in StateItems : /\ item = StateItem(at, data, error)
                                 /\ item.v = at /\ item.d = data /\ item.e = error
<1> DEFINE item == StateItem(at, data, error)
<1>1. item \in StateItems /\ item.v = at /\ item.d = data /\ item.e = error
  BY DEF StateItem, StateItems
<1> HIDE DEF item
<1> QED BY <1>1 DEF item

(* Items above all revisions given are ahead of everything.                *)
LEMMA NextIsNewer ==
  ASSUME TypeIInv, NEW p \in Players
  PROVE  Newer(p, revision + 1)
BY OnWayType DEF Newer, TypeIInv, HostIInv, HostTypeOK

-----------------------------------------------------------------------------
(* A result reaches those it is for.                                       *)

LEMMA ResultLoad ==
  ASSUME HostIInv, NEW k \in Keys, NEW ok \in BOOLEAN, DropResult(k, ok) \/ SendResult(k, ok)
  PROVE  /\ UNCHANGED <<scope, source, subscribers, refusedAt>>
         /\ load'[k].at \in {0, revision + 1}
         /\ \A j \in Keys \ {k} :
              load'[j] = load[j] /\ last'[j] = last[j] /\ sent'[j] = sent[j]
<1> USE NoLoadType
<1>0. HostTypeOK
  BY DEF HostIInv
<1>1. CASE DropResult(k, ok)
  BY <1>0, <1>1 DEF DropResult, HostTypeOK, worldVars, callVars, wireVars
<1>2. CASE SendResult(k, ok)
  <2>1. /\ UNCHANGED <<scope, source, subscribers, refusedAt>>
        /\ \A j \in Keys \ {k} : last'[j] = last[j] /\ sent'[j] = sent[j]
    BY <1>0, <1>2 DEF SendResult, HostTypeOK, worldVars, callVars
  <2>2. load'[k].at \in {0, revision + 1} /\ \A j \in Keys \ {k} : load'[j] = load[j]
    <3>1. CASE dirty[k] /\ StartLoad(k, tags[k] \ load[k].covering, source[k])
      <4>1. PICK sync \in BOOLEAN : load' = [load EXCEPT ![k] =
              [at |-> revision + 1, covering |-> tags[k] \ load[k].covering,
               read |-> source[k], sync |-> sync]]
        BY <3>1 DEF StartLoad
      <4> QED BY <1>0, <4>1 DEF HostTypeOK
    <3>2. CASE load' = [load EXCEPT ![k] = NoLoad]
      BY <1>0, <3>2 DEF HostTypeOK
    <3> QED BY <1>2, <3>1, <3>2 DEF SendResult
  <2> QED BY <2>1, <2>2
<1> QED BY <1>1, <1>2

(* A player the result is not for: of another key, or no subscriber.       *)
LEMMA ResultPasses ==
  ASSUME TypeIInv, Homes, NEW p \in Players, PlayerOk(p),
         NEW k \in Keys, NEW ok \in BOOLEAN, DropResult(k, ok) \/ SendResult(k, ok),
         p \notin subscribers[k], UNCHANGED <<clientVars, down>>
  PROVE  PlayerOk(p)'
<1> DEFINE own == KeyOf(p)
<1>0. HostIInv /\ own \in Keys /\ KeyOf(p)' = own
  BY KeyOfType, ResultLoad DEF TypeIInv, KeyOf
<1>1. /\ UNCHANGED <<scope, source, subscribers, refusedAt>>
      /\ load'[k].at \in {0, revision + 1}
      /\ \A j \in Keys \ {k} :
           load'[j] = load[j] /\ last'[j] = last[j] /\ sent'[j] = sent[j]
  BY <1>0, ResultLoad
<1>2. outbox'[p] = outbox[p]
  BY DEF DropResult, SendResult, wireVars
<1>3. OnWay(p)' = OnWay(p) /\ AsksInOrder(p)' /\ (Asked(p)' <=> Asked(p))
      /\ active'[p] = active[p] /\ floor'[p] = floor[p]
      /\ status'[p] = status[p] /\ value'[p] = value[p]
  BY <1>2 DEF OnWay, PlayerOk, AsksInOrder, Asked, clientVars
<1>4. Subscribed(p)' <=> Subscribed(p)
  BY <1>0, <1>1 DEF Subscribed
<1>5. CASE own = k
  <2>1. ~Subscribed(p)
    BY <1>5 DEF Subscribed
  <2>2. StillAnswered(p)
    BY <1>3, <1>4, <2>1 DEF StillAnswered
  <2> QED BY <1>0, <1>1, <1>3, <1>5, <2>2, PlayerKept
<1>6. CASE own # k
  <2>1. load'[own] = load[own] /\ last'[own] = last[own] /\ sent'[own] = sent[own]
        /\ source'[own] = source[own]
    BY <1>0, <1>1, <1>6
  <2>2. StillAnswered(p)
    BY <1>3, <1>4, <2>1 DEF StillAnswered, Running
  <2> QED BY <1>0, <1>1, <1>3, <2>1, <2>2, PlayerKept
<1> QED BY <1>5, <1>6

LEMMA ResultTells ==
  ASSUME TypeIInv, AnswerIInv, Homes, OneStates, NEW p \in Players, PlayerOk(p),
         NEW k \in Keys, NEW ok \in BOOLEAN, SendResult(k, ok),
         p \in subscribers[k], UNCHANGED <<clientVars, down>>
  PROVE  PlayerOk(p)'
<1> DEFINE tagged == Tagged(Finished(k, ok), load[k].covering, p)
           at == load[k].at
<1>0. HostIInv /\ HostTypeOK /\ KeyOf(p) = k /\ KeyOf(p)' = k /\ Running(k)
  BY ResultLoad DEF TypeIInv, HostIInv, Homes, KeyOf, SendResult
<1>1. UNCHANGED <<scope, source, subscribers, refusedAt>> /\ load'[k].at \in {0, revision + 1}
  BY <1>0, ResultLoad
<1>2. sent'[k] = at /\ last'[k] = Outcome(ok) /\ outbox'[p] = Replace(outbox[p], tagged)
  BY <1>0 DEF SendResult, HostTypeOK
<1>3. PICK item \in StateItems :
        (/\ item = tagged /\ item.v = at
         /\ item.d = (IF ok THEN load[k].read ELSE NoValue)
         /\ item.e = (IF ok THEN "none" ELSE "load"))
  <2> DEFINE plain == Finished(k, ok)
  <2>1. plain \in StateItems /\ load[k].covering \subseteq Calls
    BY <1>0, FinishedType DEF HostTypeOK, Loads
  <2>2. /\ plain.v = at
        /\ plain.d = (IF ok THEN load[k].read ELSE NoValue)
        /\ plain.e = (IF ok THEN "none" ELSE "load")
    BY DEF Finished, StateItem
  <2> HIDE DEF plain
  <2>3. tagged = [plain EXCEPT !.k = {c \in load[k].covering : Caller[c] = p}]
    BY DEF Tagged, plain
  <2>4. tagged \in StateItems /\ tagged.v = plain.v /\ tagged.d = plain.d /\ tagged.e = plain.e
    BY <2>1, <2>3 DEF StateItems
  <2> QED BY <2>2, <2>4
<1>4. at \in Nat /\ revision \in Nat /\ at <= revision
  BY <1>0 DEF HostIInv, HostTypeOK, Loads
<1> HIDE DEF tagged
<1>5. /\ AsksInOrder(p)' /\ floor'[p] = floor[p] /\ down'[p] = down[p]
      /\ active'[p] = active[p] /\ (Asked(p)' <=> Asked(p)) /\ Subscribed(p)'
  BY <1>0, <1>1 DEF PlayerOk, AsksInOrder, Asked, Subscribed, clientVars
<1>6. AheadOk(p)'
  <2>1. PICK s : s.v = at /\ OnWay(p)' \subseteq OnWay(p) \cup {s}
    BY <1>0, <1>2, <1>3, <1>5, Boxed
  <2>2. floor[p] < revision + 1 /\ \A o \in OnWay(p) : o.v < revision + 1
    BY <1>4, OnWayType
  <2>3. \A o \in OnWay(p)' : o.v < revision + 1
    BY <1>4, <2>1, <2>2
  <2>4. load'[k].at # 0 => Newer(p, load[k].at)'
    BY <1>1, <1>5, <2>2, <2>3 DEF Newer
  <2> QED BY <1>0, <2>4 DEF AheadOk, Running
<1>7. Answered(p)'
  <2>1. CASE load'[k].at # 0
    BY <1>0, <1>5, <2>1 DEF Answered, Running
  <2>2. CASE refusedAt[p] > at
    <3>1. Excepted(p)'
      BY <1>0, <1>1, <1>2, <2>2 DEF Excepted
    <3> QED BY <1>5, <3>1 DEF Answered
  <2>3. CASE load'[k].at = 0 /\ Newer(p, at)
    <3>1. ~dirty[k]
      <4>1. ASSUME StartLoad(k, tags[k] \ load[k].covering, source[k]) PROVE load'[k].at # 0
        <5>1. PICK sync \in BOOLEAN : load' = [load EXCEPT ![k] =
                [at |-> revision + 1, covering |-> tags[k] \ load[k].covering,
                 read |-> source[k], sync |-> sync]]
          BY <4>1 DEF StartLoad
        <5> QED BY <1>0, <5>1 DEF HostTypeOK
      <4> QED BY <2>3, <4>1 DEF SendResult
    <3>2. load[k].read = source[k]
      BY <1>0, <3>1 DEF AnswerIInv, AnswersAreCurrent, LiveKeys, KeyOf
    <3>3. Failing(p)' <=> ~ok
      BY <1>0, <1>2, <1>5 DEF Failing, Outcome
    <3>4. Tells(p, item)'
      BY <1>0, <1>1, <1>3, <3>2, <3>3 DEF Tells
    <3> QED BY <1>0, <1>2, <1>3, <1>5, <2>3, <3>4, Told DEF Answered
  <2> QED BY <1>0, <2>1, <2>2, <2>3 DEF PlayerOk, AheadOk
<1> QED BY <1>5, <1>6, <1>7 DEF PlayerOk

-----------------------------------------------------------------------------
(* Invalidations and subscriptions start loads.                            *)

LEMMA LoadRuns ==
  ASSUME HostTypeOK, NEW k \in Keys, NEW covering, NEW data, Load(k, covering, data)
  PROVE  /\ load'[k].at # 0 /\ load'[k].at \in {load[k].at, revision + 1}
         /\ \A j \in Keys \ {k} : load'[j] = load[j]
<1>1. CASE Running(k) /\ UNCHANGED load
  BY <1>1 DEF Running
<1>2. CASE StartLoad(k, covering, data)
  <2>1. PICK sync \in BOOLEAN : load' = [load EXCEPT ![k] =
          [at |-> revision + 1, covering |-> covering, read |-> data, sync |-> sync]]
    BY <1>2 DEF StartLoad
  <2>2. revision + 1 # 0
    BY DEF HostTypeOK
  <2> QED BY <2>1, <2>2 DEF HostTypeOK
<1> QED BY <1>1, <1>2 DEF Load

LEMMA InvalidationKeeps ==
  ASSUME TypeIInv, NEW p \in Players, PlayerOk(p),
         NEW k \in Keys, NEW covering, NEW data, Invalidate(k, covering, data),
         \A j \in Keys \ {k} : source'[j] = source[j],
         UNCHANGED <<scope, subscribers, sent, last, wireVars, clientVars, down>>
  PROVE  PlayerOk(p)'
<1> DEFINE own == KeyOf(p)
<1>0. HostTypeOK /\ own \in Keys /\ KeyOf(p)' = own
  BY KeyOfType DEF TypeIInv, HostIInv, KeyOf
<1>1. /\ OnWay(p)' = OnWay(p) /\ AsksInOrder(p)' /\ (Asked(p)' <=> Asked(p))
      /\ active'[p] = active[p] /\ floor'[p] = floor[p] /\ refusedAt'[p] = refusedAt[p]
      /\ status'[p] = status[p] /\ value'[p] = value[p]
      /\ (Subscribed(p)' <=> Subscribed(p))
  BY <1>0 DEF OnWay, PlayerOk, AsksInOrder, Asked, Subscribed, clientVars, wireVars
<1>2. /\ load'[k].at = load[k].at \/ load'[k].at = revision + 1
      /\ subscribers[k] # {} => load'[k].at # 0
      /\ \A j \in Keys \ {k} : load'[j] = load[j]
  BY <1>0, LoadRuns DEF Invalidate
<1>3. CASE own = k
  <2>1. StillAnswered(p)
    BY <1>1, <1>2, <1>3 DEF StillAnswered, Subscribed
  <2> QED BY <1>0, <1>1, <1>2, <1>3, <2>1, PlayerKept
<1>4. CASE own # k
  <2>1. StillAnswered(p)
    BY <1>0, <1>1, <1>2, <1>4 DEF StillAnswered, Running
  <2> QED BY <1>0, <1>1, <1>2, <1>4, <2>1, PlayerKept
<1> QED BY <1>3, <1>4

LEMMA UnlinkOthers ==
  ASSUME HostTypeOK, NEW p \in Players, NEW q \in Players \ {p}, Unlink(q), scope' = scope
  PROVE  LET k == KeyOf(p) IN
           /\ Subscribed(p)' <=> Subscribed(p)
           /\ sent'[k] = sent[k] /\ last'[k] = last[k]
<1> DEFINE k == KeyOf(p)
           other == KeyOf(q)
<1>0. k \in Keys /\ other \in Keys /\ KeyOf(p)' = k
  BY KeyOfType DEF KeyOf
<1>1. Subscribed(p)' <=> Subscribed(p)
  BY <1>0 DEF Unlink, Subscribed, HostTypeOK
<1>2. scope # "player" \/ k # other
  BY DEF KeyOf, HostTypeOK
<1>3. sent'[k] = sent[k] /\ last'[k] = last[k]
  BY <1>0, <1>2 DEF Unlink, HostTypeOK
<1> QED BY <1>1, <1>3

(* What another player's subscription leaves p with.                       *)
LEMMA SubscriptionOthers ==
  ASSUME HostTypeOK, NEW p \in Players, NEW q \in Players \ {p}, Subscribe(q) \/ Unsubscribe(q)
  PROVE  LET k == KeyOf(p) IN
           /\ Subscribed(p)' <=> Subscribed(p)
           /\ refusedAt'[p] = refusedAt[p] /\ outbox'[p] = outbox[p]
           /\ load'[k].at = load[k].at \/ load'[k].at = revision + 1
           /\ \/ load'[k].at # 0
              \/ /\ load'[k].at = load[k].at /\ last'[k] = last[k]
                 /\ sent'[k] = sent[k] /\ source'[k] = source[k]
<1> DEFINE k == KeyOf(p)
<1>0. k \in Keys /\ KeyOf(q) \in Keys
  BY KeyOfType
<1>1. UNCHANGED <<scope, source>> /\ KeyOf(p)' = k
  BY SubscriptionFrame DEF KeyOf
<1>2. CASE Refuse(q) \/ Unsubscribe(q)
  <2>1. /\ refusedAt'[p] = refusedAt[p] /\ outbox'[p] = outbox[p] /\ load' = load
        /\ Unlink(q) \/ UNCHANGED <<subscribers, tags, sent, last>>
    BY <1>2 DEF Refuse, Unsubscribe, wireVars, HostTypeOK
  <2>2. (Subscribed(p)' <=> Subscribed(p)) /\ sent'[k] = sent[k] /\ last'[k] = last[k]
    BY <1>1, <2>1, UnlinkOthers DEF Subscribed
  <2> QED BY <1>1, <2>1, <2>2
<1>3. CASE Join(q) \/ AnswerCached(q) \/ LoadFor(q)
  <2>1. /\ refusedAt'[p] = refusedAt[p] /\ outbox'[p] = outbox[p]
        /\ UNCHANGED <<sent, last>> /\ Admitted(q)
        /\ load' = load \/ Load(KeyOf(q), tags[KeyOf(q)], source[KeyOf(q)])
    BY <1>3 DEF Join, AnswerCached, LoadFor, wireVars, HostTypeOK
  <2>2. Subscribed(p)' <=> Subscribed(p)
    BY <1>0, <1>1, <2>1 DEF Admitted, Subscribed, HostTypeOK
  <2>3. \/ load'[k] = load[k]
        \/ load'[k].at # 0 /\ load'[k].at \in {load[k].at, revision + 1}
    BY <1>0, <2>1, LoadRuns
  <2> QED BY <1>1, <2>1, <2>2, <2>3
<1> QED BY <1>2, <1>3 DEF Subscribe

(* p's own: refused, answered by the value that is out, or by a load.      *)
LEMMA SubscriptionTells ==
  ASSUME TypeIInv, AnswerIInv, CachedLast, OneStates, NEW p \in Players, PlayerOk(p),
         Subscribe(p), floor'[p] = floor[p], down'[p] = down[p], AsksInOrder(p)'
  PROVE  PlayerOk(p)'
<1> DEFINE k == KeyOf(p)
<1>0. HostTypeOK /\ HostIInv /\ k \in Keys /\ KeyOf(p)' = k /\ revision \in Nat
  BY KeyOfType, SubscriptionFrame DEF TypeIInv, HostIInv, HostTypeOK, KeyOf
<1>1. UNCHANGED <<scope, source>>
  BY SubscriptionFrame
<1>2. Newer(p, revision + 1)
  BY NextIsNewer
<1>3. CASE Refuse(p)
  <2>0. /\ revision + 1 \in Nat \ {0} /\ NoValue \in Values \cup {NoValue}
        /\ "forbidden" \in {"none", "load", "forbidden"}
    BY <1>0
  <2>1. PICK item \in StateItems :
          (/\ item = StateItem(revision + 1, NoValue, "forbidden")
           /\ item.v = revision + 1 /\ item.d = NoValue /\ item.e = "forbidden")
    BY ONLY <2>0, NewItem
  <2>2. /\ outbox'[p] = Replace(outbox[p], item) /\ refusedAt'[p] = revision + 1
        /\ load' = load /\ p \notin subscribers'[k]
    BY <1>0, <1>3, <2>1 DEF Refuse, Unlink, Subscribed, HostTypeOK
  <2>3. Failing(p)'
    BY <1>0, <2>2 DEF Failing, Subscribed
  <2>4. EndsRight(p)'
    <3>1. Tells(p, item)'
      BY <2>1, <2>3 DEF Tells
    <3> QED BY <1>0, <1>2, <2>1, <2>2, <3>1, Told
  <2>5. load[k].at <= revision /\ load[k].at \in Nat
    BY <1>0 DEF HostIInv, HostTypeOK, Loads
  <2>6. AheadOk(p)'
    BY <1>0, <2>2, <2>5 DEF AheadOk
  <2> QED BY <2>4, <2>6 DEF PlayerOk, Answered
<1>4. CASE Join(p) \/ LoadFor(p)
  <2>1. Admitted(p) /\ UNCHANGED wireVars
    BY <1>4 DEF Join, LoadFor
  <2>2. OnWay(p)' = OnWay(p) /\ refusedAt'[p] = refusedAt[p] /\ Subscribed(p)'
    BY <1>0, <2>1 DEF OnWay, Admitted, Subscribed, wireVars, HostTypeOK
  <2>3. load'[k].at # 0 /\ load'[k].at \in {load[k].at, revision + 1}
    <3>1. CASE Join(p)
      BY <3>1 DEF Join, Running
    <3>2. CASE LoadFor(p)
      BY <1>0, <3>2, LoadRuns DEF LoadFor
    <3> QED BY <1>4, <3>1, <3>2
  <2>4. Answered(p)'
    BY <1>0, <2>2, <2>3 DEF Answered, Running
  <2> QED BY <1>1, <2>2, <2>3, <2>4, PlayerKept
<1>5. CASE AnswerCached(p)
  <2>1. /\ cached[k] # NoValue /\ cached[k] \in Values /\ load' = load /\ ~Running(k)
        /\ last' = last /\ p \in subscribers'[k]
        /\ outbox'[p] = Replace(outbox[p], StateItem(revision + 1, cached[k], "none"))
    BY <1>0, <1>5 DEF AnswerCached, Admitted, FreshRevision, HostTypeOK
  <2>2. PICK item \in StateItems :
          (/\ item = StateItem(revision + 1, cached[k], "none")
           /\ item.v = revision + 1 /\ item.e = "none" /\ item.d = cached[k])
    BY <1>0, <2>1, NewItem
  <2>3. AheadOk(p)'
    BY <1>0, <2>1 DEF AheadOk, Running
  <2>4. last[k] \in {"ok", "dropped"} /\ (last[k] = "ok" => cached[k] = source[k])
    <3>1. scope = "global" /\ k = Everyone
      BY <1>0, <2>1 DEF AnswerIInv, PlayerUncached, HostTypeOK, KeyOf
    <3> QED BY <2>1, <3>1 DEF CachedLast, AnswerIInv, AnswersAreCurrent, LiveKeys
  <2>5. CASE last[k] = "dropped"
    BY <1>0, <2>1, <2>3, <2>5 DEF PlayerOk, Answered, Excepted, Subscribed
  <2>6. CASE last[k] = "ok"
    <3>1. Tells(p, item)'
      BY <1>0, <1>1, <2>1, <2>2, <2>4, <2>6 DEF Tells, Failing, Subscribed
    <3>2. EndsRight(p)'
      BY <1>0, <1>2, <2>1, <2>2, <3>1, Told
    <3> QED BY <2>3, <3>2 DEF PlayerOk, Answered
  <2> QED BY <2>4, <2>5, <2>6
<1> QED BY <1>3, <1>4, <1>5 DEF Subscribe

-----------------------------------------------------------------------------
(* A client asks for what it holds after every unsubscription it sent.     *)

LEMMA ClientAsks ==
  ASSUME TypeIInv, NEW p \in Players, PlayerOk(p), ClientStep(p)
  PROVE  PlayerOk(p)'
<1> DEFINE n == Len(up[p]) + 1
<1>0. ClientTypeOK /\ UNCHANGED <<scope, source, load, last, sent, subscribers, refusedAt, outbox, down>>
  BY DEF TypeIInv, ClientIInv, ClientStep, hostVars, worldVars, callVars, keyVars, wireVars
<1>1. PICK item \in Requests :
        (/\ Request(p, item) /\ floor' = floor
         /\ \/ item.o = "subscribe" /\ active'[p]
            \/ item.o = "unsubscribe" /\ ~active'[p]
            \/ item.o = "call" /\ UNCHANGED <<active, status, value>>)
  <2>1. CASE ClientSubscribe(p) \/ Refresh(p)
    BY <1>0, <2>1, RequestKinds, RequestTypes DEF ClientSubscribe, Refresh, ClientTypeOK
  <2>2. CASE Disconnect(p)
    BY <1>0, <2>2, RequestKinds, RequestTypes DEF Disconnect, Shed, ClientTypeOK
  <2>3. ASSUME NEW b \in Calls, Caller[b] = p, BeginCall(b)
        PROVE  /\ Request(p, Calling(b)) /\ Calling(b) \in Requests /\ Calling(b).o = "call"
               /\ UNCHANGED <<active, status, value, floor>>
    BY <2>3, RequestKinds, RequestTypes DEF BeginCall
  <2> QED BY <2>1, <2>2, <2>3 DEF ClientStep
<1>2. /\ Len(up[p]) \in Nat /\ DOMAIN up[p] = 1 .. Len(up[p]) /\ DOMAIN up'[p] = 1 .. n
      /\ \A i \in DOMAIN up[p] : up'[p][i] = up[p][i]
      /\ up'[p][n] = item
  BY <1>0, <1>1, RequestJoins
<1>3. /\ n \in DOMAIN up'[p] /\ \A i \in DOMAIN up[p] : i \in DOMAIN up'[p] /\ n > i
      /\ \A i \in DOMAIN up'[p] : i = n \/ i \in DOMAIN up[p]
  BY <1>2
<1> HIDE DEF n
<1>4. KeyOf(p)' = KeyOf(p) /\ OnWay(p)' = OnWay(p) /\ (Subscribed(p)' <=> Subscribed(p))
  BY <1>0 DEF KeyOf, OnWay, Subscribed
<1>5. CASE item.o = "subscribe" /\ active'[p]
  <2>1. Asked(p)'
    BY <1>2, <1>3, <1>5 DEF Asked
  <2>2. AsksInOrder(p)'
    BY <1>2, <1>3, <1>5 DEF AsksInOrder
  <2> QED BY <1>0, <1>1, <1>4, <2>1, <2>2, PlayerKept
<1>6. CASE item.o = "unsubscribe" /\ ~active'[p]
  <2>1. AsksInOrder(p)'
    BY <1>6 DEF AsksInOrder
  <2> QED BY <1>0, <1>1, <1>4, <1>6, <2>1, PlayerKept
<1>7. CASE item.o = "call" /\ UNCHANGED <<active, status, value>>
  <2>1. Asked(p)' <=> Asked(p)
    BY <1>2, <1>3, <1>7 DEF Asked
  <2>2. AsksInOrder(p)'
    <3> SUFFICES ASSUME active[p], NEW i \in DOMAIN up'[p], up'[p][i].o = "unsubscribe"
                 PROVE  \E j \in DOMAIN up'[p] : j > i /\ up'[p][j].o = "subscribe"
      BY <1>7 DEF AsksInOrder
    <3>1. i \in DOMAIN up[p] /\ up[p][i].o = "unsubscribe"
      BY <1>2, <1>3, <1>7
    <3>2. PICK j \in DOMAIN up[p] : j > i /\ up[p][j].o = "subscribe"
      BY <3>1 DEF PlayerOk, AsksInOrder
    <3> QED BY <1>2, <1>3, <3>2
  <2>3. StillAnswered(p)
    BY <1>0, <1>4, <1>7 DEF StillAnswered, Running
  <2> QED BY <1>0, <1>1, <1>4, <1>7, <2>1, <2>2, <2>3, PlayerKept
<1> QED BY <1>1, <1>5, <1>6, <1>7

LEMMA TailIndices ==
  ASSUME NEW S, NEW q \in Seq(S), q # << >>
  PROVE  /\ 1 \in DOMAIN q /\ Head(q) = q[1]
         /\ \A i \in DOMAIN Tail(q) : i \in Nat /\ i + 1 \in DOMAIN q /\ Tail(q)[i] = q[i + 1]
         /\ \A i \in DOMAIN q :
              i = 1 \/ (i > 1 /\ i - 1 \in DOMAIN Tail(q) /\ Tail(q)[i - 1] = q[i])
<1>1. /\ Len(q) \in Nat \ {0} /\ DOMAIN q = 1 .. Len(q) /\ Head(q) = q[1]
      /\ DOMAIN Tail(q) = 1 .. Len(q) - 1
      /\ \A i \in 1 .. Len(q) - 1 : Tail(q)[i] = q[i + 1]
  BY LenProperties, HeadTailProperties, EmptySeq
<1> QED BY <1>1

LEMMA RequestTaken ==
  ASSUME NEW p \in Players, up[p] \in Seq(Requests), up[p] # << >>, up'[p] = Tail(up[p]),
         active' = active, AsksInOrder(p)
  PROVE  LET first == Head(up[p]) IN
         /\ AsksInOrder(p)'
         /\ first.o = "call" => (Asked(p)' <=> Asked(p))
         /\ first.o = "unsubscribe" /\ active[p] => Asked(p)'
<1> DEFINE first == Head(up[p])
<1>1. /\ 1 \in DOMAIN up[p] /\ first = up[p][1]
      /\ \A i \in DOMAIN up'[p] : i \in Nat /\ i + 1 \in DOMAIN up[p] /\ up'[p][i] = up[p][i + 1]
      /\ \A i \in DOMAIN up[p] :
           i = 1 \/ (i > 1 /\ i - 1 \in DOMAIN up'[p] /\ up'[p][i - 1] = up[p][i])
  <2> DEFINE old == up[p]
             new == Tail(old)
  <2>1. old \in Seq(Requests) /\ old # << >>
    OBVIOUS
  <2> HIDE DEF old
  <2>2. /\ 1 \in DOMAIN old /\ Head(old) = old[1]
        /\ \A i \in DOMAIN new : i \in Nat /\ i + 1 \in DOMAIN old /\ new[i] = old[i + 1]
        /\ \A i \in DOMAIN old : i = 1 \/ (i > 1 /\ i - 1 \in DOMAIN new /\ new[i - 1] = old[i])
    BY <2>1, TailIndices
  <2> HIDE DEF new
  <2>3. new = up'[p] /\ old = up[p]
    BY DEF new, old
  <2> QED BY <2>2, <2>3
<1>2. \A i \in DOMAIN up[p] : i \in Nat
  BY LenProperties
<1>3. AsksInOrder(p)'
  <2> SUFFICES ASSUME active[p], NEW i \in DOMAIN up'[p], up'[p][i].o = "unsubscribe"
               PROVE  \E j \in DOMAIN up'[p] : j > i /\ up'[p][j].o = "subscribe"
    BY DEF AsksInOrder
  <2>1. PICK j \in DOMAIN up[p] : j > i + 1 /\ up[p][j].o = "subscribe"
    BY <1>1 DEF AsksInOrder
  <2>2. j \in Nat /\ j # 1 /\ j - 1 > i
    BY <1>1, <1>2, <2>1
  <2>3. j - 1 \in DOMAIN up'[p] /\ up'[p][j - 1] = up[p][j]
    BY <1>1, <2>2
  <2> QED BY <2>1, <2>2, <2>3
<1>4. ASSUME first.o = "call" PROVE Asked(p)' <=> Asked(p)
  BY <1>1, <1>4, ZenonT(30) DEF Asked
<1>5. ASSUME first.o = "unsubscribe", active[p] PROVE Asked(p)'
  <2>1. 1 \in DOMAIN up[p] /\ up[p][1].o = "unsubscribe"
    BY <1>1, <1>5
  <2>2. PICK j \in DOMAIN up[p] : j > 1 /\ up[p][j].o = "subscribe"
    BY <1>5, <2>1 DEF AsksInOrder
  <2>3. j - 1 \in DOMAIN up'[p] /\ up'[p][j - 1] = up[p][j]
    BY <1>1, <2>2
  <2> QED BY <2>2, <2>3 DEF Asked
<1> QED BY <1>3, <1>4, <1>5

LEMMA ReceiveEnds ==
  ASSUME TypeIInv, AnswerIInv, CachedLast, OneStates, NEW p \in Players, PlayerOk(p),
         NEW q \in Players, Receive(q)
  PROVE  PlayerOk(p)'
<1> DEFINE k == KeyOf(p)
           first == Head(up[q])
<1>0. HostTypeOK /\ ClientTypeOK /\ k \in Keys
  BY KeyOfType DEF TypeIInv, HostIInv, ClientIInv
<1>1. /\ up[q] # << >> /\ up' = [up EXCEPT ![q] = Tail(@)]
      /\ UNCHANGED <<active, status, value, floor, down>>
      /\ \/ first.o = "subscribe" /\ Subscribe(q)
         \/ first.o = "unsubscribe" /\ Unsubscribe(q)
         \/ first.o = "call" /\ UNCHANGED <<worldVars, keyVars, wireVars, source>>
  BY DEF Receive
<1>2. scope' = scope
  BY <1>1, SubscriptionFrame DEF worldVars
<1>3. CASE p # q
  <2>1. up'[p] = up[p]
    BY <1>0, <1>1, <1>3 DEF ClientTypeOK
  <2>2. (Asked(p)' <=> Asked(p)) /\ AsksInOrder(p)'
    <3>1. AsksInOrder(p) /\ active'[p] = active[p]
      BY <1>1 DEF PlayerOk
    <3> QED BY <2>1, <3>1 DEF Asked, AsksInOrder
  <2>3. /\ Subscribed(p)' <=> Subscribed(p)
        /\ refusedAt'[p] = refusedAt[p] /\ outbox'[p] = outbox[p]
        /\ load'[k].at = load[k].at \/ load'[k].at = revision + 1
        /\ \/ load'[k].at # 0
           \/ /\ load'[k].at = load[k].at /\ last'[k] = last[k]
              /\ sent'[k] = sent[k] /\ source'[k] = source[k]
    <3>1. CASE Subscribe(q) \/ Unsubscribe(q)
      BY <1>0, <1>3, <3>1, SubscriptionOthers
    <3>2. CASE UNCHANGED <<worldVars, keyVars, wireVars, source>>
      BY <1>2, <3>2 DEF keyVars, wireVars, Subscribed, KeyOf
    <3> QED BY <1>1, <3>1, <3>2
  <2>4. StillAnswered(p)
    BY <1>1, <2>3 DEF StillAnswered, Running
  <2>5. OnWay(p)' = OnWay(p)
    BY <1>1, <2>3 DEF OnWay
  <2> QED BY <1>1, <1>2, <2>2, <2>3, <2>4, <2>5, PlayerKept
<1>4. CASE p = q
  <2>1. /\ AsksInOrder(p)'
        /\ first.o = "call" => (Asked(p)' <=> Asked(p))
        /\ first.o = "unsubscribe" /\ active[p] => Asked(p)'
    <3>1. up[p] \in Seq(Requests) /\ up[p] # << >> /\ up'[p] = Tail(up[p])
      BY <1>0, <1>1, <1>4 DEF ClientTypeOK
    <3> QED BY <1>1, <1>4, <3>1, RequestTaken DEF PlayerOk
  <2>2. CASE Subscribe(p)
    BY <1>1, <2>1, <2>2, SubscriptionTells
  <2>3. CASE first.o = "unsubscribe" /\ Unsubscribe(p)
    <3>1. UNCHANGED <<wireVars, load>>
      BY <2>3 DEF Unsubscribe
    <3> QED BY <1>1, <1>2, <2>1, <2>3, <3>1, PlayerKept DEF OnWay, wireVars
  <2>4. CASE first.o = "call" /\ UNCHANGED <<worldVars, keyVars, wireVars, source>>
    <3>1. UNCHANGED <<load, last, sent, subscribers, refusedAt, outbox, source>>
      BY <2>4 DEF keyVars, wireVars
    <3>2. StillAnswered(p) /\ OnWay(p)' = OnWay(p)
      BY <1>1, <1>2, <3>1 DEF StillAnswered, OnWay, Subscribed, KeyOf, Running
    <3> QED BY <1>1, <1>2, <2>1, <2>4, <3>1, <3>2, PlayerKept
  <2> QED BY <1>1, <1>4, <2>2, <2>3, <2>4
<1> QED BY <1>3, <1>4

-----------------------------------------------------------------------------
(* Steps that change nothing that p is told.                               *)
LEMMA EndsFrame ==
  ASSUME TypeIInv, NEW p \in Players, PlayerOk(p),
         LET k == KeyOf(p) IN
           /\ load'[k].at = load[k].at /\ last'[k] = last[k] /\ sent'[k] = sent[k]
           /\ source'[k] = source[k] /\ (p \in subscribers'[k] <=> p \in subscribers[k]),
         scope' = scope, refusedAt'[p] = refusedAt[p], OnWay(p)' = OnWay(p),
         active'[p] = active[p], status'[p] = status[p], value'[p] = value[p],
         floor'[p] = floor[p], up'[p] = up[p]
  PROVE  PlayerOk(p)'
<1>1. KeyOf(p)' = KeyOf(p) /\ (Asked(p)' <=> Asked(p)) /\ AsksInOrder(p)'
  BY DEF KeyOf, Asked, AsksInOrder, PlayerOk
<1>2. StillAnswered(p)
  BY <1>1 DEF StillAnswered, Subscribed, Running
<1> QED BY <1>1, <1>2, PlayerKept

LEMMA FlushEnds ==
  ASSUME TypeIInv, NEW p \in Players, PlayerOk(p), Flush
  PROVE  PlayerOk(p)'
<1>1. /\ UNCHANGED <<scope, source, load, last, sent, subscribers, refusedAt>>
      /\ UNCHANGED <<active, status, value, floor, up>>
  BY DEF Flush, worldVars, callVars, keyVars, clientVars
<1>2. OnWay(p)' = OnWay(p)
  <2> DEFINE a == down[p]
             b == outbox[p]
  <2>1. /\ a \in Seq(Items) /\ b \in Seq(Items)
        /\ down'[p] = a \o b /\ outbox'[p] = << >>
    BY ItemsAreItems DEF Flush, TypeIInv, ClientIInv, HostIInv, HostTypeOK
  <2> HIDE DEF a, b
  <2>2. StatesIn(a \o b) = StatesIn(a) \cup StatesIn(b)
    BY <2>1, ConcatStates
  <2>3. OnWay(p)' = StatesIn(a) \cup StatesIn(b)
    BY <2>1, <2>2, EmptyStates DEF OnWay
  <2> QED BY <2>3 DEF OnWay, a, b
<1> QED BY <1>1, <1>2, EndsFrame

(* The items that are not the last tell p something that a later one       *)
(* replaces.                                                               *)
LEMMA DeliverEnds ==
  ASSUME TypeIInv, NEW p \in Players, PlayerOk(p), NEW q \in Players, Deliver(q)
  PROVE  PlayerOk(p)'
<1> DEFINE first == Head(down[q])
<1>0. /\ UNCHANGED <<scope, source, load, last, sent, subscribers, refusedAt, outbox>>
      /\ ClientTypeOK /\ down[q] \in Seq(Items) /\ down[q] # << >>
      /\ down'[q] = Tail(down[q]) /\ \A r \in Players \ {q} : down'[r] = down[r]
  BY ItemsAreItems
  DEF Deliver, hostVars, worldVars, callVars, keyVars, wireVars, TypeIInv, ClientIInv
<1>1. UNCHANGED <<active, up>> /\ KeyOf(p)' = KeyOf(p)
  BY <1>0 DEF Deliver, Handle, HandleState, HandleResponse, KeyOf
<1>2. CASE p # q
  <2>1. status'[p] = status[p] /\ value'[p] = value[p] /\ floor'[p] = floor[p]
    BY <1>0, <1>2 DEF Deliver, Handle, HandleState, HandleResponse, ClientTypeOK
  <2>2. OnWay(p)' = OnWay(p)
    BY <1>0, <1>2 DEF OnWay
  <2> QED BY <1>0, <1>1, <2>1, <2>2, EndsFrame
<1>3. CASE p = q
  <2>1. /\ StatesIn(down'[p]) \subseteq StatesIn(down[p])
        /\ StatesIn(down[p]) \subseteq StatesIn(down'[p]) \cup {first}
    BY <1>0, <1>3, TailStates
  <2>2. CASE HandleResponse(p, first)
    <3>1. first.t # "state" /\ UNCHANGED <<status, value, floor>>
      BY <2>2 DEF HandleResponse
    <3>2. first \notin StatesIn(down[p])
      BY <3>1 DEF StatesIn
    <3>3. OnWay(p)' = OnWay(p)
      BY <1>0, <2>1, <3>2 DEF OnWay
    <3> QED BY <1>0, <1>1, <3>1, <3>3, EndsFrame
  <2>3. CASE HandleState(p, first)
    <3>1. first \in OnWay(p) /\ OnWay(p)' \subseteq OnWay(p) /\ OnWay(p) \subseteq OnWay(p)' \cup {first}
      <4>1. first \in StatesIn(down[p])
        <5>1. 1 \in DOMAIN down[p] /\ first = down[p][1]
          BY <1>0, <1>3, TailIndices
        <5> QED BY <2>3, <5>1 DEF StatesIn, HandleState
      <4> QED BY <1>0, <2>1, <4>1 DEF OnWay
    <3>2. floor[p] \in Nat /\ \A o \in OnWay(p) : o.v \in Nat
      BY OnWayType
    <3>3. /\ first.v > floor[p] => floor'[p] = first.v
          /\ first.v <= floor[p] => floor'[p] = floor[p] /\ UNCHANGED <<status, value>>
          /\ first.v > floor[p] /\ active[p] =>
               /\ status'[p] = (IF first.e = "none" THEN "ready" ELSE "error")
               /\ first.e = "none" => value'[p] = first.d
      BY <1>0, <2>3, <3>1, <3>2 DEF HandleState, Stale, ClientTypeOK
    <3>4. /\ load' = load /\ refusedAt' = refusedAt
          /\ (Failing(p)' <=> Failing(p)) /\ (Subscribed(p)' <=> Subscribed(p))
          /\ (Running(KeyOf(p))' <=> Running(KeyOf(p))) /\ (Excepted(p)' <=> Excepted(p))
          /\ (Asked(p)' <=> Asked(p)) /\ AsksInOrder(p)'
      BY <1>0, <1>1 DEF Failing, Subscribed, Running, Excepted, Asked, AsksInOrder, PlayerOk
    <3>5. AheadOk(p)'
      <4>1. \A r \in Nat : Newer(p, r) => floor'[p] < r /\ \A o \in OnWay(p)' : o.v < r
        BY <3>1, <3>2, <3>3 DEF Newer
      <4>2. load[KeyOf(p)].at \in Nat
        BY KeyOfType DEF TypeIInv, HostIInv, HostTypeOK, Loads
      <4> QED BY <1>1, <3>4, <4>1, <4>2 DEF AheadOk, Newer, Running, PlayerOk
    <3>6. ASSUME active[p], EndsRight(p) PROVE EndsRight(p)'
      <4>1. ASSUME Tells(p, first), ToldBy(p, first) PROVE EndsRight(p)'
        <5>1. first.v > floor[p] /\ \A o \in OnWay(p)' : o.v <= first.v
          BY <3>1, <3>2, <4>1 DEF ToldBy
        <5>2. Knows(p)'
          BY <1>0, <1>1, <3>3, <3>4, <3>6, <4>1, <5>1 DEF Knows, Tells, Current
        <5> QED BY <3>3, <5>1, <5>2 DEF EndsRight
      <4>2. ASSUME NEW item \in OnWay(p), item # first, Tells(p, item), ToldBy(p, item)
            PROVE  EndsRight(p)'
        <5>1. item \in OnWay(p)' /\ first.v < item.v
          BY <3>1, <4>2 DEF ToldBy
        <5>2. ToldBy(p, item)'
          BY <3>1, <3>2, <3>3, <4>2, <5>1 DEF ToldBy
        <5>3. Tells(p, item)'
          BY <1>0, <1>1, <3>4, <4>2 DEF Tells
        <5> QED BY <5>1, <5>2, <5>3 DEF EndsRight
      <4>3. ASSUME Knows(p), \A o \in OnWay(p) : o.v <= floor[p]
            PROVE  EndsRight(p)'
        <5>1. UNCHANGED <<status, value>> /\ floor'[p] = floor[p]
          BY <3>1, <3>3, <4>3
        <5>2. Knows(p)'
          BY <1>0, <1>1, <3>4, <4>3, <5>1 DEF Knows, Current
        <5> QED BY <3>1, <4>3, <5>1, <5>2 DEF EndsRight
      <4> QED BY <3>1, <3>6, <4>1, <4>2, <4>3 DEF EndsRight
    <3> QED BY <1>1, <3>4, <3>5, <3>6 DEF PlayerOk, Answered
  <2> QED BY <1>3, <2>2, <2>3 DEF Deliver, Handle
<1> QED BY <1>2, <1>3

LEMMA LeaveEnds ==
  ASSUME TypeIInv, NEW p \in Players, PlayerOk(p), NEW q \in Players, Leave(q)
  PROVE  PlayerOk(p)'
<1> DEFINE k == KeyOf(p)
<1>0. /\ HostTypeOK /\ ClientTypeOK /\ k \in Keys /\ down \in [Players -> Seq(ItemsTo(revision))]
      /\ load[k].at \in Nat
  BY KeyOfType DEF TypeIInv, HostIInv, ClientIInv, HostTypeOK, Loads
<1>1. /\ UNCHANGED <<scope, source, refusedAt, floor>> /\ KeyOf(p)' = k
      /\ \A j \in Keys \ {q} : load'[j] = load[j] /\ last'[j] = last[j] /\ sent'[j] = sent[j]
      /\ load'[q] \in {load[q], NoLoad}
      /\ subscribers'[k] = subscribers[k] \ {q}
  BY <1>0, KeyOfType DEF Leave, ForgetPlayer, ClientGone, callVars, HostTypeOK, KeyOf
<1>2. CASE p # q
  <2>1. k # q
    BY <1>2, HostAssumption DEF KeyOf
  <2>2. /\ active'[p] = active[p] /\ status'[p] = status[p] /\ value'[p] = value[p]
        /\ up'[p] = up[p] /\ outbox'[p] = outbox[p] /\ down'[p] = down[p]
    <3>1. /\ active' = [active EXCEPT ![q] = FALSE] /\ status' = [status EXCEPT ![q] = "loading"]
          /\ value' = [value EXCEPT ![q] = NoValue] /\ up' = [up EXCEPT ![q] = << >>]
          /\ outbox' = [outbox EXCEPT ![q] = << >>] /\ down' = [down EXCEPT ![q] = << >>]
      BY DEF Leave, ForgetPlayer, ClientGone, Shed
    <3> QED BY <1>0, <1>2, <3>1 DEF ClientTypeOK, HostTypeOK
  <2>3. OnWay(p)' = OnWay(p)
    BY <2>2 DEF OnWay
  <2> QED BY <1>0, <1>1, <1>2, <2>1, <2>2, <2>3, EndsFrame
<1>3. CASE p = q
  <2>1. ~active'[p] /\ outbox'[p] = << >> /\ down'[p] = << >>
    BY <1>0, <1>3 DEF Leave, ForgetPlayer, ClientGone, Shed, ClientTypeOK, HostTypeOK
  <2>2. OnWay(p)' = {}
    BY <2>1, EmptyStates DEF OnWay
  <2>3. load'[k].at \in {load[k].at, 0}
    BY <1>0, <1>1, <1>3 DEF NoLoad
  <2>4. AheadOk(p)'
    BY <1>1, <2>2, <2>3, AheadKept DEF PlayerOk
  <2> QED BY <2>1, <2>4 DEF PlayerOk, AsksInOrder
<1> QED BY <1>2, <1>3

-----------------------------------------------------------------------------
LEMMA CachedLastNext == TypeIInv /\ CachedLast /\ [Next]_vars => CachedLast'
<1> SUFFICES ASSUME HostTypeOK, CachedLast, KeyStep PROVE CachedLast'
  BY NextIsKeyStep DEF TypeIInv, HostIInv
<1> DEFINE k == Everyone
<1>0. k \in Keys /\ \A p \in Players : p # k
  BY HostAssumption DEF Keys
<1>1. ASSUME scope' = scope, cached'[k] \in {cached[k], NoValue}, last'[k] = last[k]
      PROVE  CachedLast'
  BY <1>1 DEF CachedLast
<1>2. ASSUME NEW j \in Keys, NEW ok \in BOOLEAN, DropResult(j, ok)
      PROVE  CachedLast'
  BY <1>0, <1>1, <1>2 DEF DropResult, worldVars, CachedLast, HostTypeOK
<1>3. ASSUME NEW j \in Keys, NEW ok \in BOOLEAN, SendResult(j, ok)
      PROVE  CachedLast'
  <2>1. /\ scope' = scope
        /\ \/ j # k /\ cached'[k] = cached[k] /\ last'[k] = last[k]
           \/ j = k /\ cached'[k] = CachedAfter(k, ok) /\ last'[k] = Outcome(ok)
    BY <1>0, <1>3 DEF SendResult, worldVars, HostTypeOK
  <2> QED BY <2>1 DEF CachedLast, CachedAfter, Outcome
<1>4. ASSUME NEW j \in Keys, NEW covering, NEW data, Invalidate(j, covering, data)
      PROVE  cached'[k] \in {cached[k], NoValue}
  BY <1>0, <1>4 DEF Invalidate, HostTypeOK
<1>5. ASSUME NEW j \in Keys, LateRead(j) PROVE CachedLast'
  BY <1>1, <1>5 DEF LateRead, worldVars
<1>6. ASSUME NEW j \in Keys, NEW w \in Pushes, Push(j, w) PROVE CachedLast'
  BY <1>1, <1>4, <1>6 DEF Push, worldVars
<1>7. ASSUME NEW p \in Players, Unsubscribe(p) \/ Subscribe(p) \/ ForgetPlayer(p)
      PROVE  CachedLast'
  <2>1. UNCHANGED <<scope, cached>>
    BY <1>7 DEF Unsubscribe, Subscribe, Refuse, Join, AnswerCached, LoadFor, ForgetPlayer, worldVars
  <2>2. scope = "global" => last'[k] = last[k]
    <3>1. CASE Unsubscribe(p) \/ Refuse(p)
      <4>1. scope = "global" => KeyOf(p) = k
        BY DEF KeyOf
      <4> QED BY <1>0, <3>1, <4>1 DEF Unsubscribe, Refuse, Unlink, HostTypeOK
    <3>2. CASE Join(p) \/ AnswerCached(p) \/ LoadFor(p) \/ ForgetPlayer(p)
      BY <1>0, <3>2 DEF Join, AnswerCached, LoadFor, ForgetPlayer, HostTypeOK
    <3> QED BY <1>7, <3>1, <3>2 DEF Subscribe
  <2> QED BY <2>1, <2>2 DEF CachedLast
<1>8. ASSUME NEW c \in Calls, RunCall(c) PROVE CachedLast'
  <2>1. KeyOf(Caller[c]) \in Keys
    BY CallerType
  <2> QED BY <1>1, <1>4, <1>8, <2>1 DEF RunCall, worldVars
<1>9. CASE UNCHANGED <<scope, source, keyVars>>
  BY <1>1, <1>9 DEF keyVars
<1> QED BY <1>2, <1>3, <1>5, <1>6, <1>7, <1>8, <1>9 DEF KeyStep

LEMMA EndInit == Init => EndIInv
<1> SUFFICES ASSUME Init PROVE EndIInv
  OBVIOUS
<1>1. /\ active = [p \in Players |-> FALSE] /\ load = [k \in Keys |-> NoLoad]
      /\ cached = [k \in Keys |-> NoValue]
  BY DEF Init, HostInit, ClientInit
<1>2. \A p \in Players : PlayerOk(p)
  BY <1>1, KeyOfType, NoLoadType DEF PlayerOk, AheadOk, AsksInOrder, Running
<1>3. CachedLast
  BY <1>1 DEF CachedLast, Keys
<1> QED BY <1>2, <1>3 DEF EndIInv

LEMMA EndNext ==
  TypeIInv /\ AnswerIInv /\ ApartIInv /\ EndIInv /\ [Next]_vars => EndIInv'
<1> SUFFICES ASSUME TypeIInv, AnswerIInv, ApartIInv, EndIInv, [Next]_vars PROVE EndIInv'
  OBVIOUS
<1>0. /\ HostTypeOK /\ Homes /\ OneStates /\ CachedLast /\ CachedLast'
      /\ \A p \in Players : PlayerOk(p)
  BY CachedLastNext DEF TypeIInv, HostIInv, ApartIInv, Apart, EndIInv
<1> SUFFICES ASSUME NEW p \in Players PROVE PlayerOk(p)'
  BY <1>0 DEF EndIInv
<1>1. PlayerOk(p) /\ KeyOf(p) \in Keys
  BY <1>0, KeyOfType
<1>2. ASSUME UNCHANGED <<scope, source, load, last, sent, subscribers, wireVars, clientVars, down>>
      PROVE  PlayerOk(p)'
  <2>1. OnWay(p)' = OnWay(p)
    BY <1>2 DEF OnWay, wireVars
  <2> QED BY <1>1, <1>2, <2>1, EndsFrame DEF wireVars, clientVars
<1>3. ASSUME NEW k \in Keys, NEW ok \in BOOLEAN, LoadEnds(k, ok) PROVE PlayerOk(p)'
  <2>1. (DropResult(k, ok) \/ SendResult(k, ok)) /\ UNCHANGED <<clientVars, down>>
    BY <1>3 DEF LoadEnds, FinishLoad
  <2>2. DropResult(k, ok) => p \notin subscribers[k]
    BY DEF DropResult
  <2> QED BY <1>0, <1>1, <2>1, <2>2, ResultPasses, ResultTells
<1>4. CASE Flush
  BY <1>1, <1>4, FlushEnds
<1>5. ASSUME NEW c \in Calls, CallRuns(c) PROVE PlayerOk(p)'
  <2>1. UNCHANGED <<clientVars, down>>
    BY <1>5 DEF CallRuns
  <2>2. CASE RunCall(c)
    <3> DEFINE k == KeyOf(Caller[c])
    <3>1. k \in Keys
      BY CallerType
    <3>2. /\ Invalidate(k, TagsWith(c), source[k] \cup {c})
          /\ source' = [source EXCEPT ![k] = @ \cup {c}]
          /\ UNCHANGED <<scope, subscribers, sent, last, wireVars>>
      BY <2>2 DEF RunCall, Covered, Write, worldVars
    <3>3. \A j \in Keys \ {k} : source'[j] = source[j]
      BY <1>0, <3>1, <3>2 DEF HostTypeOK
    <3> HIDE DEF k
    <3> QED BY <1>1, <2>1, <3>1, <3>2, <3>3, InvalidationKeeps
  <2>3. CASE FailCall(c)
    BY <1>2, <2>1, <2>3 DEF FailCall, worldVars, keyVars
  <2>4. CASE Respond(c)
    <3>1. /\ UNCHANGED <<scope, source, load, last, sent, subscribers, refusedAt>>
          /\ \/ outbox'[p] = outbox[p]
             \/ outbox'[p] = Append(outbox[p], Response(c, PendingTag(c)))
      BY <1>0, <2>4 DEF Respond, worldVars, keyVars, HostTypeOK
    <3>2. outbox[p] \in Seq(Items) /\ PendingTag(c) \in BOOLEAN
      BY <1>0 DEF HostTypeOK, PendingTag
    <3>3. StatesIn(outbox'[p]) = StatesIn(outbox[p])
      <4>1. StatesIn(Append(outbox[p], Response(c, PendingTag(c)))) = StatesIn(outbox[p])
        BY <3>2, AppendStates
      <4> QED BY <3>1, <4>1
    <3>4. OnWay(p)' = OnWay(p)
      BY <2>1, <3>3 DEF OnWay
    <3> QED BY <1>1, <2>1, <3>1, <3>4, EndsFrame DEF clientVars
  <2> QED BY <1>5, <2>2, <2>3, <2>4 DEF CallRuns
<1>6. ASSUME NEW q \in Players, Receive(q) PROVE PlayerOk(p)'
  BY <1>0, <1>6, ReceiveEnds
<1>7. ASSUME NEW q \in Players, Deliver(q) PROVE PlayerOk(p)'
  BY <1>1, <1>7, DeliverEnds
<1>8. CASE HostStep
  <2>1. UNCHANGED <<clientVars, down>>
    BY <1>8 DEF HostStep
  <2>2. ASSUME NEW k \in Keys, NEW w \in Pushes, Push(k, w) PROVE PlayerOk(p)'
    <3>1. /\ Invalidate(k, tags[k], source[k] \cup {w})
          /\ source' = [source EXCEPT ![k] = @ \cup {w}]
          /\ UNCHANGED <<scope, subscribers, sent, last, wireVars>>
      BY <2>2 DEF Push, Write, worldVars
    <3>2. \A j \in Keys \ {k} : source'[j] = source[j]
      BY <1>0, <3>1 DEF HostTypeOK
    <3> QED BY <1>1, <2>1, <3>1, <3>2, InvalidationKeeps
  <2>3. ASSUME NEW k \in Keys, LateRead(k) PROVE PlayerOk(p)'
    <3>1. UNCHANGED <<scope, source, last, sent, subscribers, wireVars>>
      BY <2>3 DEF LateRead, worldVars, callVars
    <3>2. load'[KeyOf(p)].at = load[KeyOf(p)].at
      BY <1>1, <2>3, LateReadLoad DEF TypeIInv
    <3>3. OnWay(p)' = OnWay(p)
      BY <2>1, <3>1 DEF OnWay, wireVars
    <3> QED BY <1>1, <2>1, <3>1, <3>2, <3>3, EndsFrame DEF wireVars, clientVars
  <2>4. ASSUME NEW q \in Players, Authorize(q) PROVE PlayerOk(p)'
    BY <1>2, <2>1, <2>4 DEF Authorize, callVars, keyVars
  <2> QED BY <1>8, <2>2, <2>3, <2>4 DEF HostStep
<1>9. ASSUME NEW q \in Players, ClientStep(q) PROVE PlayerOk(p)'
  <2>1. CASE q = p
    BY <1>1, <1>9, <2>1, ClientAsks
  <2>2. CASE q # p
    <3>0. UNCHANGED <<scope, source, load, last, sent, subscribers, refusedAt, outbox, down>>
          /\ ClientTypeOK
      BY <1>9 DEF ClientStep, hostVars, worldVars, callVars, keyVars, wireVars, TypeIInv, ClientIInv
    <3>1. /\ active'[p] = active[p] /\ status'[p] = status[p] /\ value'[p] = value[p]
          /\ up'[p] = up[p] /\ floor' = floor
      BY <1>9, <2>2, <3>0
      DEF ClientStep, ClientSubscribe, Refresh, Disconnect, Shed, BeginCall, Request, ClientTypeOK
    <3>2. OnWay(p)' = OnWay(p)
      BY <3>0 DEF OnWay
    <3> QED BY <1>1, <3>0, <3>1, <3>2, EndsFrame
  <2> QED BY <2>1, <2>2
<1>10. ASSUME NEW q \in Players, Leave(q) PROVE PlayerOk(p)'
  BY <1>1, <1>10, LeaveEnds
<1>11. ASSUME NEW c \in Calls, CallStep(c) PROVE PlayerOk(p)'
  <2>1. /\ UNCHANGED <<scope, source, load, last, sent, subscribers, refusedAt, outbox, down>>
        /\ UNCHANGED <<active, status, value, floor, up>>
    BY <1>11 DEF CallStep, RejectCall, SettleTimeout, hostVars, worldVars, callVars, keyVars, wireVars
  <2>2. OnWay(p)' = OnWay(p)
    BY <2>1 DEF OnWay
  <2> QED BY <1>1, <2>1, <2>2, EndsFrame
<1>12. CASE UNCHANGED vars
  BY <1>2, <1>12 DEF vars, hostVars, worldVars, callVars, keyVars
<1> QED
  BY <1>3, <1>4, <1>5, <1>6, <1>7, <1>8, <1>9, <1>10, <1>11, <1>12 DEF Next, Step

(* docs/resources.md, "No missed change": once nothing is on its way, a    *)
(* subscriber shows what there is, or why not, however subscriptions,      *)
(* refusals, departures, calls, loads and frames interleave; left out are  *)
(* a value the host dropped and a player refused during the load that      *)
(* answers them.                                                           *)
THEOREM EndsCurrent == Spec => []CurrentWhenQuiet
<1>1. Init => TypeIInv /\ TagIInv /\ AnswerIInv /\ ApartIInv /\ EndIInv
  BY TypeInit, TagInit, AnswerInit, ApartInit, EndInit
<1>2. TypeIInv /\ TagIInv /\ AnswerIInv /\ ApartIInv /\ EndIInv /\ [Next]_vars
        => (TypeIInv /\ TagIInv /\ AnswerIInv /\ ApartIInv /\ EndIInv)'
  BY TypeNext, TagNext, AnswerNext, ApartNext, EndNext
<1>3. EndIInv => CurrentWhenQuiet
  <2> SUFFICES ASSUME EndIInv, Quiet, NEW p \in Players, active[p]
               PROVE  LET k == KeyOf(p) IN
                        \/ Subscribed(p) /\ Current(p)
                        \/ status[p] = "error" /\ (~Subscribed(p) \/ last[k] = "failed")
                        \/ Subscribed(p) /\ (last[k] = "dropped" \/ refusedAt[p] > sent[k])
    BY DEF CurrentWhenQuiet
  <2>1. ~Running(KeyOf(p)) /\ ~Asked(p) /\ OnWay(p) = {}
    BY KeyOfType, EmptyStates DEF Quiet, Asked, OnWay
  <2>2. Answered(p)
    BY <2>1 DEF EndIInv, PlayerOk
  <2> QED BY <2>1, <2>2 DEF Answered, Excepted, EndsRight, Knows, Failing
<1> QED BY <1>1, <1>2, <1>3, PTL DEF Spec
=============================================================================
