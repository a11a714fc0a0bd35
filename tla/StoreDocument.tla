--------------------------- MODULE StoreDocument ---------------------------
(***************************************************************************)
(* One DataStore key and the session-locked documents that servers open on *)
(* it: `acquire`, `writeDocument` and `createDocument` of player-store.ts, *)
(* with the request loop of store.ts (`runStoreRequest`) under them.       *)
(*                                                                         *)
(* A session is one document, from the load that claims the key to the end *)
(* of its last request.  Every request is one UpdateAsync, tried up to     *)
(* RetryAttempts times; an attempt may land and lose its answer, so the    *)
(* retry runs the transform again on a record the first attempt wrote.     *)
(*                                                                         *)
(* The code compares timestamps only as `now - stamp` against the TTL, half*)
(* the TTL or the heartbeat interval.  The model keeps the differences:    *)
(* every stamp is an age, saturated at the largest threshold it is         *)
(* compared with, and Tick ages all of them.  Clocks of servers agree.     *)
(***************************************************************************)
EXTENDS Integers, Sequences

CONSTANTS
  Servers,        \* lock owners: `${JobId}:${PlaceId}`
  Sessions,       \* documents that may be opened on the key
  Home,           \* Home[d]: the server that opens session d
  Values,         \* fingerprints of the values a document can hold
  Default,        \* what an absent record decodes to
  Nobody,         \* no lock, no holder
  Outsider,       \* a lock owner outside Servers
  ForeignShapes,  \* what this code may see a record of an Outsider as
  RetryAttempts,  \* retry.attempts
  LockTtl,        \* session.lockTtlMs, in ticks
  Heartbeat,      \* session.heartbeatMs, in ticks
  MaxQueue        \* bound: explicit saves and releases queued on a document

ASSUME SessionsAssumption ==
  /\ Home \in [Sessions -> Servers]
  /\ Default \in Values
  /\ Nobody \notin Servers \cup Sessions
  /\ Outsider \notin Servers \cup Sessions
  /\ Nobody # Outsider
  /\ ForeignShapes \subseteq {"readable", "ahead", "unreadable"}

(* resolveSession: the TTL is forced to at least two heartbeats.           *)
ASSUME TimingAssumption ==
  /\ RetryAttempts \in Nat \ {0}
  /\ Heartbeat \in Nat \ {0}
  /\ LockTtl \in Nat
  /\ LockTtl >= 2 * Heartbeat
  /\ MaxQueue \in Nat

VARIABLES
  record,     \* the DataStore record: its shape to this code, value and lock
  phase,      \* phase[d]: "idle", "acquiring", "open" or "closed"
  value,      \* value[d]: DocumentState.value
  persisted,  \* persisted[d]: DocumentState.persisted
  lockAge,    \* lockAge[d]: now - DocumentState.lockWrittenAtMs
  timer,      \* timer[d]: time since the heartbeat was armed, or NotArmed
  queue,      \* queue[d]: work behind DocumentState.queue
  request,    \* request[d]: the store request d has in flight
  holder,     \* history: the session (or Outsider) that claimed last
  unsure      \* history: a write of d landed and d was not told so

recordVars == <<record, holder>>
docVars == <<value, persisted, lockAge, unsure>>
vars == <<record, phase, value, persisted, lockAge, timer, queue, request,
          holder, unsure>>

-----------------------------------------------------------------------------
NotArmed == -1
Shapes == {"absent", "readable", "ahead", "unreadable"}
Ops == {"save", "heartbeat", "release"}

Absent == [shape |-> "absent", value |-> Default, owner |-> Nobody, age |-> 0]
NoRequest == [op |-> "none", attempt |-> 0, reply |-> "none", value |-> Default,
              age |-> 0, before |-> "none", first |-> "none"]

(* lockAge is compared with half the TTL only.                             *)
HalfTtl == (LockTtl + 1) \div 2
WrittenAge(age) == IF age < HalfTtl THEN age ELSE HalfTtl

Older(age, limit) == IF age < limit THEN age + 1 ELSE age

(* A session that can still change the record.                             *)
Live(d) == phase[d] \in {"acquiring", "open"} \/ request[d].op # "none"

(* status() answers "ready": the document is open.                         *)
Clean(d) == value[d] = persisted[d]

Init ==
  /\ record \in {Absent} \cup
       {[shape |-> "readable", value |-> v, owner |-> Nobody, age |-> 0] : v \in Values}
  /\ phase = [d \in Sessions |-> "idle"]
  /\ value = [d \in Sessions |-> Default]
  /\ persisted = [d \in Sessions |-> Default]
  /\ lockAge = [d \in Sessions |-> 0]
  /\ timer = [d \in Sessions |-> NotArmed]
  /\ queue = [d \in Sessions |-> << >>]
  /\ request = [d \in Sessions |-> NoRequest]
  /\ holder = Nobody
  /\ unsure = [d \in Sessions |-> FALSE]

-----------------------------------------------------------------------------
(* The request loop.  An attempt that fails is retried until the attempts  *)
(* run out; a non-retryable error ends the request at once.                *)

InFlight(d) == request[d].op # "none"
Writing(d) == request[d].op \in Ops

(* The attempt is sent and its transform has not run.                      *)
Sent(d, ops) == request[d].op \in ops /\ request[d].reply = "none"
Replied(d, ops, reply) == request[d].op \in ops /\ request[d].reply = reply

GiveUpDisarmed(d) ==  \* mutant: a failed heartbeat is not armed again
  /\ request' = [request EXCEPT ![d] = NoRequest]
  /\ phase' = IF phase[d] = "acquiring" THEN [phase EXCEPT ![d] = "idle"] ELSE phase
  /\ timer' = timer
(* The request ends with an error: a claim leaves the session unopened, a  *)
(* heartbeat re-arms its timer, and the document stays as it was.          *)
GiveUp(d) ==
  /\ request' = [request EXCEPT ![d] = NoRequest]
  /\ phase' = IF phase[d] = "acquiring" THEN [phase EXCEPT ![d] = "idle"] ELSE phase
  /\ timer' = IF request[d].op = "heartbeat" THEN [timer EXCEPT ![d] = 0] ELSE timer

CanRetry(d) == request[d].attempt < RetryAttempts

(* The attempt is rejected: throttled, no request budget left, an error the*)
(* service raised before the write, or an answer lost after it.            *)
AttemptFails(d) ==
  /\ InFlight(d) /\ request[d].reply \in {"none", "written"}
  /\ \/ /\ CanRetry(d)
        /\ request' = [request EXCEPT ![d] =
             [NoRequest EXCEPT !.op = request[d].op, !.attempt = request[d].attempt + 1,
                               !.first = request[d].first,
                               !.value = IF Writing(d) THEN request[d].value ELSE Default,
                               !.age = IF Writing(d) THEN request[d].age ELSE 0]]
        /\ UNCHANGED <<phase, timer>>
     \/ ~CanRetry(d) /\ GiveUp(d)
  /\ UNCHANGED <<recordVars, docVars, queue>>

(* An error no retry can help (StoreUnavailableError, or a value the codec *)
(* refuses to encode).                                                     *)
RequestUnavailable(d) ==
  /\ InFlight(d) /\ request[d].reply = "none"
  /\ GiveUp(d)
  /\ UNCHANGED <<recordVars, docVars, queue>>

-----------------------------------------------------------------------------
(* acquire: one UpdateAsync claims the lock and reads the record under it. *)

BlockingTooShort(srv) ==  \* mutant: the TTL ends a tick early
  record.owner \notin {Nobody, srv} /\ record.age + 1 < LockTtl
Blocking(srv) == record.owner \notin {Nobody, srv} /\ record.age < LockTtl
Decodes == record.shape \in {"absent", "readable"}
Claimable(d) == Decodes /\ ~Blocking(Home[d])

StartAcquire(d) ==
  /\ phase[d] = "idle"
  /\ phase' = [phase EXCEPT ![d] = "acquiring"]
  /\ request' = [request EXCEPT ![d] = [NoRequest EXCEPT !.op = "acquire", !.attempt = 1]]
  /\ UNCHANGED <<recordVars, docVars, timer, queue>>

(* Nothing else of this server may still write the key.                    *)
SoleOnServer(d) == \A e \in Sessions \ {d} : Home[e] = Home[d] => ~Live(e)

Acquire(d) == SoleOnServer(d) /\ StartAcquire(d)

(* The transform claims the lock and keeps what it found (`before`).       *)
ClaimLands(d) ==
  /\ Sent(d, {"acquire"})
  /\ Claimable(d)
  /\ record' = [shape |-> "readable", value |-> record.value,
                owner |-> Home[d], age |-> 0]
  /\ holder' = d
  /\ request' = [request EXCEPT ![d].reply = "written", ![d].value = record.value,
                               ![d].age = 0, ![d].before = record.shape,
                               ![d].first = IF @ = "none" THEN record.shape ELSE @]
  /\ UNCHANGED <<phase, docVars, timer, queue>>

(* The transform answers nil: another server's live lock, or a record this *)
(* code cannot decode.                                                     *)
ClaimRefused(d) ==
  /\ Sent(d, {"acquire"})
  /\ ~Claimable(d)
  /\ GiveUp(d)
  /\ UNCHANGED <<recordVars, docVars, queue>>

(* createDocument opens the document on the snapshot the claim returned.   *)
Open(d) ==
  /\ Replied(d, {"acquire"}, "written")
  /\ request' = [request EXCEPT ![d] = NoRequest]
  /\ phase' = [phase EXCEPT ![d] = "open"]
  /\ value' = [value EXCEPT ![d] = request[d].value]
  /\ persisted' = [persisted EXCEPT ![d] = request[d].value]
  /\ lockAge' = [lockAge EXCEPT ![d] = WrittenAge(request[d].age)]
  /\ timer' = [timer EXCEPT ![d] = 0]
  /\ unsure' = [unsure EXCEPT ![d] = FALSE]
  /\ UNCHANGED <<recordVars, queue>>

-----------------------------------------------------------------------------
(* The document: staging, the write queue, the heartbeat.                  *)

Stage(d, v) ==
  /\ phase[d] = "open"
  /\ v # value[d]
  /\ value' = [value EXCEPT ![d] = v]
  /\ UNCHANGED <<recordVars, phase, persisted, lockAge, timer, queue, request,
                 unsure>>

(* save() and document.release(): work joins the queue.                    *)
Enqueue(d, op) ==
  /\ Live(d) /\ phase[d] # "acquiring"
  /\ Len(SelectSeq(queue[d], LAMBDA o : o # "heartbeat")) < MaxQueue
  /\ queue' = [queue EXCEPT ![d] = Append(@, op)]
  /\ UNCHANGED <<recordVars, docVars, phase, timer, request>>

Save(d) == Enqueue(d, "save")
Release(d) == Enqueue(d, "release")

HeartbeatFires(d) ==
  /\ phase[d] = "open"
  /\ timer[d] >= Heartbeat
  /\ timer' = [timer EXCEPT ![d] = NotArmed]
  /\ queue' = [queue EXCEPT ![d] = Append(@, "heartbeat")]
  /\ UNCHANGED <<recordVars, docVars, phase, request>>

LockNeverDue(d) == FALSE  \* mutant: an idle heartbeat does not refresh the lock
(* Half the TTL has passed since the lock was written.                     *)
LockDue(d) == lockAge[d] >= HalfTtl

Ready(d, op) == queue[d] # << >> /\ Head(queue[d]) = op /\ request[d].op = "none"
Dequeue(d) == queue' = [queue EXCEPT ![d] = Tail(@)]
Send(d, op) ==
  request' = [request EXCEPT ![d] = [NoRequest EXCEPT !.op = op, !.attempt = 1,
                                                      !.value = value[d]]]

(* Work that reaches a closed document: StoreClosedError, or nothing left  *)
(* to release.                                                             *)
RunClosed(d) ==
  /\ phase[d] # "open"
  /\ \E op \in Ops : Ready(d, op)
  /\ Dequeue(d)
  /\ UNCHANGED <<recordVars, docVars, phase, timer, request>>

(* flush with nothing to write.                                            *)
FlushNothing(d) ==
  /\ phase[d] = "open"
  /\ Clean(d)
  /\ \/ Ready(d, "save") /\ UNCHANGED timer
     \/ Ready(d, "heartbeat") /\ ~LockDue(d) /\ timer' = [timer EXCEPT ![d] = 0]
  /\ Dequeue(d)
  /\ UNCHANGED <<recordVars, docVars, phase, request>>

(* flush with something to write, or a lock to refresh.                    *)
Flush(d) ==
  /\ phase[d] = "open"
  /\ \/ Ready(d, "save") /\ ~Clean(d) /\ Send(d, "save")
     \/ Ready(d, "heartbeat") /\ (~Clean(d) \/ LockDue(d)) /\ Send(d, "heartbeat")
  /\ Dequeue(d)
  /\ UNCHANGED <<recordVars, docVars, phase, timer>>

(* A closed document is not read again: its memory is not kept.            *)
Forget(gone) ==
  /\ value' = [d \in Sessions |-> IF d \in gone THEN Default ELSE value[d]]
  /\ persisted' = [d \in Sessions |-> IF d \in gone THEN Default ELSE persisted[d]]
  /\ lockAge' = [d \in Sessions |-> IF d \in gone THEN 0 ELSE lockAge[d]]
  /\ unsure' = [d \in Sessions |-> IF d \in gone THEN FALSE ELSE unsure[d]]
  /\ timer' = [d \in Sessions |-> IF d \in gone THEN NotArmed ELSE timer[d]]

(* document.release: the document closes, then one last write goes out.    *)
RunRelease(d) ==
  /\ phase[d] = "open"
  /\ Ready(d, "release")
  /\ Send(d, "release")
  /\ phase' = [phase EXCEPT ![d] = "closed"]
  /\ Forget({d})
  /\ Dequeue(d)
  /\ UNCHANGED recordVars

-----------------------------------------------------------------------------
(* writeDocument: the transform of a save, heartbeat or release.           *)

RefusedUnlessAhead(d) ==  \* mutant: a newer record is overwritten
  /\ Decodes
  /\ record.owner # Home[d]
  /\ record.owner = Nobody => record.value # request[d].value
RefusedUnlessTaken(d) ==  \* mutant: another server's lock is not looked at
  \/ record.shape = "ahead"
  \/ Decodes /\ record.owner = Nobody /\ record.value # request[d].value
(* A record some other code must keep, another server's lock, or no lock   *)
(* over a value that is not ours.                                          *)
Refused(d) ==
  \/ record.shape = "ahead"
  \/ Decodes /\ record.owner \notin {Nobody, Home[d]}
  \/ Decodes /\ record.owner = Nobody /\ record.value # request[d].value

(* No lock, and exactly our value: nothing is written, and the request     *)
(* still counts as answered.                                               *)
AlreadyThere(d) ==
  Decodes /\ record.owner = Nobody /\ record.value = request[d].value

Written(d) ==
  LET releasing == request[d].op = "release" IN
  [shape |-> "readable", value |-> request[d].value,
   owner |-> IF releasing THEN Nobody ELSE Home[d],
   age |-> IF releasing THEN 0 ELSE request[d].age]

WriteLands(d) ==
  /\ Sent(d, Ops)
  /\ ~Refused(d) /\ ~AlreadyThere(d)
  /\ record' = Written(d)
  /\ holder' = IF request[d].op = "release" /\ holder = d THEN Nobody ELSE holder
  /\ unsure' = [unsure EXCEPT ![d] = request[d].op # "release"]
  /\ request' = [request EXCEPT ![d].reply = "written"]
  /\ UNCHANGED <<phase, value, persisted, lockAge, timer, queue>>

(* The transform answers nil, with or without a failure to report.         *)
WriteCancelled(d) ==
  /\ Sent(d, Ops)
  /\ Refused(d) \/ AlreadyThere(d)
  /\ request' = [request EXCEPT ![d].reply = IF Refused(d) THEN "refused" ELSE "cancelled"]
  /\ UNCHANGED <<recordVars, docVars, phase, timer, queue>>

ConfirmsLatest(d) == value[d]  \* mutant: what was staged since counts as written
Confirmed(d) == request[d].value

(* The write is answered, and what it wrote is now what is persisted.      *)
WriteAnswered(d) ==
  /\ Replied(d, Ops, "written") \/ Replied(d, Ops, "cancelled")
  /\ request' = [request EXCEPT ![d] = NoRequest]
  /\ \/ request[d].op = "release" /\ UNCHANGED <<persisted, lockAge, unsure>>
     \/ /\ request[d].op # "release"
        /\ persisted' = [persisted EXCEPT ![d] = Confirmed(d)]
        /\ lockAge' = [lockAge EXCEPT ![d] = WrittenAge(request[d].age)]
        /\ unsure' = [unsure EXCEPT ![d] = FALSE]
  /\ timer' = IF request[d].op = "heartbeat" THEN [timer EXCEPT ![d] = 0] ELSE timer
  /\ UNCHANGED <<recordVars, phase, value, queue>>

(* Losing the lock is terminal for the document.                           *)
WriteRefused(d) ==
  /\ Replied(d, Ops, "refused")
  /\ request' = [request EXCEPT ![d] = NoRequest]
  /\ phase' = [phase EXCEPT ![d] = "closed"]
  /\ Forget({d})
  /\ UNCHANGED <<recordVars, queue>>

-----------------------------------------------------------------------------
(* The world around the sessions.                                          *)

(* A server dies: its timers, queues and requests die with it.             *)
Crash(srv) ==
  LET gone == {d \in Sessions : Home[d] = srv} IN
  /\ \E d \in gone : phase[d] # "closed"
  /\ phase' = [d \in Sessions |-> IF d \in gone THEN "closed" ELSE phase[d]]
  /\ Forget(gone)
  /\ queue' = [d \in Sessions |-> IF d \in gone THEN << >> ELSE queue[d]]
  /\ request' = [d \in Sessions |-> IF d \in gone THEN NoRequest ELSE request[d]]
  /\ UNCHANGED recordVars

(* store.remove(key): the record goes, whoever holds its lock.             *)
Remove ==
  /\ record.shape # "absent"
  /\ record' = Absent
  /\ holder' = Nobody
  /\ UNCHANGED <<phase, docVars, timer, queue, request>>

(* A server outside the model takes a free or lapsed key and rewrites the  *)
(* record as its version of the store does.                                *)
ClaimByOutsider(shape) ==
  /\ ~Blocking(Outsider)
  /\ record.shape \in {"absent", "readable"}
  /\ record' = [record EXCEPT !.shape = shape, !.owner = Outsider, !.age = 0]
  /\ holder' = Outsider
  /\ UNCHANGED <<phase, docVars, timer, queue, request>>

Tick ==
  /\ record' = IF record.owner = Nobody THEN record
               ELSE [record EXCEPT !.age = Older(@, LockTtl)]
  /\ lockAge' = [d \in Sessions |->
       IF phase[d] = "open" THEN Older(lockAge[d], HalfTtl) ELSE lockAge[d]]
  /\ timer' = [d \in Sessions |->
       IF timer[d] = NotArmed THEN NotArmed ELSE Older(timer[d], Heartbeat)]
  /\ request' = [d \in Sessions |->
       IF Writing(d) \/ request[d].reply # "none" THEN [request[d] EXCEPT !.age = Older(@, LockTtl)] ELSE request[d]]
  /\ UNCHANGED <<phase, value, persisted, queue, holder, unsure>>

-----------------------------------------------------------------------------
(* The queue is a promise chain: work starts in the step that brings it to *)
(* the front, so nothing happens between the two.                          *)
Idle(d) == queue[d] = << >> \/ InFlight(d)
Quiet == \A d \in Sessions : Idle(d)
RunWork(d) ==
  ~Idle(d) /\ (RunClosed(d) \/ FlushNothing(d) \/ Flush(d) \/ RunRelease(d))

(* What the servers' own code does next.                                   *)
Step(d) ==
  \/ ClaimLands(d) \/ ClaimRefused(d) \/ Open(d)
  \/ HeartbeatFires(d)
  \/ WriteLands(d) \/ WriteCancelled(d) \/ WriteAnswered(d) \/ WriteRefused(d)

(* What the game calls.                                                    *)
Call(d) == Save(d) \/ Release(d) \/ \E v \in Values : Stage(d, v)

(* What goes wrong.                                                        *)
Fault ==
  \/ \E d \in Sessions : AttemptFails(d) \/ RequestUnavailable(d)
  \/ \E srv \in Servers : Crash(srv)
  \/ Remove
  \/ \E shape \in ForeignShapes : ClaimByOutsider(shape)

Next ==
  \/ \E d \in Sessions : RunWork(d)
  \/ Quiet /\ \E d \in Sessions : Acquire(d) \/ Step(d) \/ Call(d)
  \/ Quiet /\ Fault
  \/ Quiet /\ Tick

Spec == Init /\ [][Next]_vars

(* Requests and heartbeats that take no time: the clock waits for them.    *)
Timely == \A d \in Sessions : ~InFlight(d) /\ ~(phase[d] = "open" /\ timer[d] >= Heartbeat)

-----------------------------------------------------------------------------
(* Properties.                                                             *)

Requests == [op: Ops \cup {"none", "acquire"}, attempt: 0 .. RetryAttempts,
             reply: {"none", "written", "cancelled", "refused"}, value: Values,
             age: 0 .. LockTtl, before: {"none"} \cup Shapes,
             first: {"none"} \cup Shapes]

(* Every variable has the type its declaration gives it.                   *)
TypeOK ==
  /\ record \in [shape: Shapes, value: Values, age: 0 .. LockTtl,
                 owner: Servers \cup {Nobody, Outsider}]
  /\ phase \in [Sessions -> {"idle", "acquiring", "open", "closed"}]
  /\ value \in [Sessions -> Values]
  /\ persisted \in [Sessions -> Values]
  /\ lockAge \in [Sessions -> 0 .. HalfTtl]
  /\ timer \in [Sessions -> {NotArmed} \cup 0 .. Heartbeat]
  /\ queue \in [Sessions -> Seq(Ops)]
  /\ request \in [Sessions -> Requests]
  /\ holder \in Sessions \cup {Nobody, Outsider}
  /\ unsure \in [Sessions -> BOOLEAN]

(* The lock in the record names the server of the session that claimed     *)
(* last, and no server ever has two sessions that can still write the key. *)
(* This is what makes `owner === us` in writeDocument mean "our session    *)
(* holds the lock": the code compares servers, never sessions.             *)
LockNamesHolder ==
  /\ record.owner = Nobody <=> holder = Nobody
  /\ record.owner = Outsider <=> holder = Outsider
  /\ record.owner \in Servers => holder \in Sessions /\ Home[holder] = record.owner
OneWriterPerServer ==
  \A d, e \in Sessions : Live(d) /\ Live(e) /\ Home[d] = Home[e] => d = e
OwnLockIsMine ==
  \A d \in Sessions :
    (phase[d] = "open" \/ Writing(d)) /\ record.owner = Home[d] => holder = d
LockInv == LockNamesHolder /\ OneWriterPerServer /\ OwnLockIsMine

(* The key is a single-writer register: claims hand the data over, only    *)
(* the session that claimed last changes it, and a lock is taken from      *)
(* another server only after its TTL.                                      *)
Lapsed == record.owner = Nobody \/ record.age >= LockTtl
Lock == INSTANCE SessionLock WITH data <- record.value, lapsed <- Lapsed
SingleWriter == Lock!Spec

(* A save, heartbeat or release that reported success is in the record: as *)
(* long as the session holds the lock and no later write of it landed with *)
(* its answer lost, the record holds what the document calls persisted.    *)
AckedIsStored ==
  \A d \in Sessions :
    phase[d] = "open" /\ holder = d /\ ~unsure[d] => record.value = persisted[d]

(* player-store.ts:596-600: the heartbeat alone keeps a lock alive, whatever*)
(* the interval and the TTL are, as long as requests take no time.         *)
LockKept ==
  \A d \in Sessions : phase[d] = "open" /\ holder = d => record.age < LockTtl

Unsaved(d) == phase[d] = "open" /\ value[d] # persisted[d]

(* A record a newer Aruna wrote is never written back by this one.         *)
AheadIsKept ==
  [][record.shape = "ahead" => record'.shape \in {"ahead", "absent"}]_record

(* player-store.ts:150, isNew: "Ready, and the key held nothing": a        *)
(* session opens with the `before` its load first found: a load that found *)
(* no record opens as new, any other does not.                             *)
NewMeansNothingHeld ==
  [][\A d \in Sessions : phase[d] = "acquiring" /\ phase'[d] = "open" =>
       request[d].before = request[d].first]_vars
=============================================================================
