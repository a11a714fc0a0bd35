------------------------ MODULE StoreDocumentProofs ------------------------
(***************************************************************************)
(* What StoreDocument guarantees for any number of servers, sessions and   *)
(* values, and any timing.                                                 *)
(***************************************************************************)
EXTENDS StoreDocument, SequenceTheorems, TLAPS

(* No foreign record is one this code fails to decode without recognising  *)
(* it as newer: writeDocument overwrites such a record, lock and all.      *)
OnlyLegible == "unreadable" \notin ForeignShapes

-----------------------------------------------------------------------------
LEMMA HalfTtlIsNat == HalfTtl \in Nat
BY TimingAssumption DEF HalfTtl

(* The numbers a request starts with are within its bounds.                *)
LEMMA Bounds ==
  /\ 0 \in 0 .. RetryAttempts /\ 1 \in 0 .. RetryAttempts
  /\ 0 \in 0 .. LockTtl /\ 0 \in 0 .. HalfTtl /\ 0 \in 0 .. Heartbeat
BY TimingAssumption, HalfTtlIsNat

LEMMA OlderIsBounded ==
  ASSUME NEW limit \in Nat, NEW age \in 0 .. limit
  PROVE  Older(age, limit) \in 0 .. limit
BY DEF Older

LEMMA WrittenAgeIsBounded ==
  ASSUME NEW age \in Nat
  PROVE  WrittenAge(age) \in 0 .. HalfTtl
BY HalfTtlIsNat DEF WrittenAge

-----------------------------------------------------------------------------
(* Every variable keeps its type.                                          *)

LEMMA NoRequestType == NoRequest \in Requests
BY SessionsAssumption, Bounds DEF Requests, NoRequest

LEMMA RequestFieldType ==
  ASSUME NEW r \in Requests, NEW reply \in {"written", "cancelled", "refused"},
         NEW age \in 0 .. LockTtl
  PROVE  /\ [r EXCEPT !.reply = reply] \in Requests
         /\ [r EXCEPT !.age = age] \in Requests
BY DEF Requests

LEMMA SendType ==
  ASSUME TypeOK, NEW d \in Sessions, NEW op \in Ops, Send(d, op)
  PROVE  request' \in [Sessions -> Requests]
<1>1. value[d] \in Values
  BY DEF TypeOK
<1>2. [NoRequest EXCEPT !.op = op, !.attempt = 1, !.value = value[d]] \in Requests
  BY <1>1, SessionsAssumption, Bounds DEF Requests, NoRequest
<1> QED BY <1>2 DEF Send, TypeOK

(* A request that ends leaves the variables of the types they had.         *)
LEMMA GiveUpType ==
  ASSUME TypeOK, NEW d \in Sessions, GiveUp(d)
  PROVE  /\ request' \in [Sessions -> Requests]
         /\ phase' \in [Sessions -> {"idle", "acquiring", "open", "closed"}]
         /\ timer' \in [Sessions -> {NotArmed} \cup 0 .. Heartbeat]
BY NoRequestType, Bounds DEF GiveUp, TypeOK

LEMMA DequeueType ==
  ASSUME TypeOK, NEW d \in Sessions, NEW op, Ready(d, op), Dequeue(d)
  PROVE  queue' \in [Sessions -> Seq(Ops)]
<1>1. queue[d] \in Seq(Ops) /\ queue[d] # << >>
  BY DEF TypeOK, Ready
<1>2. Tail(queue[d]) \in Seq(Ops)
  BY <1>1, HeadTailProperties
<1> QED BY <1>2 DEF TypeOK, Dequeue

LEMMA AppendType ==
  ASSUME TypeOK, NEW d \in Sessions, NEW op \in Ops,
         queue' = [queue EXCEPT ![d] = Append(@, op)]
  PROVE  queue' \in [Sessions -> Seq(Ops)]
<1>1. Append(queue[d], op) \in Seq(Ops)
  BY AppendProperties DEF TypeOK
<1> QED BY <1>1 DEF TypeOK

LEMMA ForgetType ==
  ASSUME TypeOK, NEW gone, Forget(gone)
  PROVE  /\ value' \in [Sessions -> Values]
         /\ persisted' \in [Sessions -> Values]
         /\ lockAge' \in [Sessions -> 0 .. HalfTtl]
         /\ unsure' \in [Sessions -> BOOLEAN]
         /\ timer' \in [Sessions -> {NotArmed} \cup 0 .. Heartbeat]
BY SessionsAssumption, Bounds DEF Forget, TypeOK

LEMMA InitType == Init => TypeOK
<1> SUFFICES ASSUME Init PROVE TypeOK
  OBVIOUS
<1>1. record \in [shape: Shapes, value: Values, age: 0 .. LockTtl,
                  owner: Servers \cup {Nobody, Outsider}]
  BY SessionsAssumption, Bounds DEF Init, Absent, Shapes
<1>2. queue \in [Sessions -> Seq(Ops)]
  BY DEF Init
<1> QED
  BY <1>1, <1>2, SessionsAssumption, Bounds, NoRequestType DEF Init, TypeOK

LEMMA NextType == TypeOK /\ [Next]_vars => TypeOK'
<1> SUFFICES ASSUME TypeOK, [Next]_vars PROVE TypeOK'
  OBVIOUS
<1> USE DEF recordVars, docVars
<1>1. ASSUME NEW d \in Sessions, AttemptFails(d) PROVE TypeOK'
  <2>1. CASE CanRetry(d) /\ UNCHANGED <<phase, timer>> /\ ~GiveUp(d)
    <3>1. request[d] \in Requests /\ request[d].attempt + 1 \in 0 .. RetryAttempts
      BY <2>1, TimingAssumption, SMTT(30) DEF CanRetry, TypeOK, Requests
    <3> DEFINE again ==
          [NoRequest EXCEPT !.op = request[d].op, !.attempt = request[d].attempt + 1,
                            !.first = request[d].first,
                            !.value = IF Writing(d) THEN request[d].value ELSE Default,
                            !.age = IF Writing(d) THEN request[d].age ELSE 0]
    <3>2. again \in Requests
      BY <3>1, SessionsAssumption, Bounds DEF Requests, NoRequest
    <3>3. request' = [request EXCEPT ![d] = again]
      BY <1>1, <2>1 DEF AttemptFails
    <3> HIDE DEF again
    <3> QED BY <1>1, <2>1, <3>2, <3>3 DEF AttemptFails, TypeOK
  <2>2. CASE GiveUp(d)
    BY <1>1, <2>2, GiveUpType DEF AttemptFails, TypeOK
  <2> QED BY <1>1, <2>1, <2>2 DEF AttemptFails
<1>2. ASSUME NEW d \in Sessions, RequestUnavailable(d) PROVE TypeOK'
  BY <1>2, GiveUpType DEF RequestUnavailable, TypeOK
<1>3. ASSUME NEW d \in Sessions, StartAcquire(d) PROVE TypeOK'
  <2>1. [NoRequest EXCEPT !.op = "acquire", !.attempt = 1] \in Requests
    BY SessionsAssumption, Bounds DEF Requests, NoRequest
  <2> QED BY <1>3, <2>1 DEF StartAcquire, TypeOK
<1>4. ASSUME NEW d \in Sessions, ClaimLands(d) PROVE TypeOK'
  <2>1. request[d] \in Requests /\ record.shape \in Shapes /\ record.value \in Values
    BY DEF TypeOK
  <2>2. request'[d] \in Requests /\ request' \in [Sessions -> Requests]
    BY <1>4, <2>1, Bounds DEF ClaimLands, TypeOK, Requests
  <2>3. record' \in [shape: Shapes, value: Values, age: 0 .. LockTtl,
                     owner: Servers \cup {Nobody, Outsider}]
    BY <1>4, <2>1, Bounds, SessionsAssumption DEF ClaimLands, Shapes
  <2> QED BY <1>4, <2>2, <2>3 DEF ClaimLands, TypeOK
<1>5. ASSUME NEW d \in Sessions, ClaimRefused(d) PROVE TypeOK'
  BY <1>5, GiveUpType DEF ClaimRefused, TypeOK
<1>6. ASSUME NEW d \in Sessions, Open(d) PROVE TypeOK'
  <2>1. request[d].value \in Values /\ request[d].age \in Nat
    BY TimingAssumption DEF TypeOK, Requests
  <2> QED BY <1>6, <2>1, WrittenAgeIsBounded, NoRequestType, Bounds DEF Open, TypeOK
<1>7. ASSUME NEW d \in Sessions, NEW v \in Values, Stage(d, v) PROVE TypeOK'
  BY <1>7 DEF Stage, TypeOK
<1>8. ASSUME NEW d \in Sessions, NEW op \in Ops, Enqueue(d, op) PROVE TypeOK'
  BY <1>8, AppendType DEF Enqueue, TypeOK
<1>9. ASSUME NEW d \in Sessions, HeartbeatFires(d) PROVE TypeOK'
  BY <1>9, AppendType DEF HeartbeatFires, TypeOK, Ops
<1>10. ASSUME NEW d \in Sessions, RunClosed(d) PROVE TypeOK'
  BY <1>10, DequeueType DEF RunClosed, TypeOK
<1>11. ASSUME NEW d \in Sessions, FlushNothing(d) PROVE TypeOK'
  <2>1. queue' \in [Sessions -> Seq(Ops)]
    BY <1>11, DequeueType DEF FlushNothing
  <2>2. timer' \in [Sessions -> {NotArmed} \cup 0 .. Heartbeat]
    BY <1>11, Bounds, ZenonT(30) DEF FlushNothing, TypeOK
  <2> QED BY <1>11, <2>1, <2>2 DEF FlushNothing, TypeOK
<1>12. ASSUME NEW d \in Sessions, Flush(d) PROVE TypeOK'
  BY <1>12, DequeueType, SendType DEF Flush, TypeOK, Ops
<1>13. ASSUME NEW d \in Sessions, RunRelease(d) PROVE TypeOK'
  BY <1>13, DequeueType, SendType, ForgetType DEF RunRelease, TypeOK, Ops
<1>14. ASSUME NEW d \in Sessions, WriteLands(d) PROVE TypeOK'
  <2>1. request[d] \in Requests /\ Home[d] \in Servers
    BY SessionsAssumption DEF TypeOK
  <2>2. Written(d) \in [shape: Shapes, value: Values, age: 0 .. LockTtl,
                        owner: Servers \cup {Nobody, Outsider}]
    BY <2>1, Bounds DEF Written, Shapes, Requests
  <2>3. request' \in [Sessions -> Requests]
    BY <1>14, <2>1 DEF WriteLands, TypeOK, Requests
  <2> QED BY <1>14, <2>2, <2>3 DEF WriteLands, TypeOK
<1>15. ASSUME NEW d \in Sessions, WriteCancelled(d) PROVE TypeOK'
  <2>1. request' \in [Sessions -> Requests]
    <3>1. \A reply \in {"refused", "cancelled"} :
            [request[d] EXCEPT !.reply = reply] \in Requests
      BY RequestFieldType, Bounds DEF TypeOK
    <3>2. CASE Refused(d)
      <4>1. request' = [request EXCEPT ![d] = [request[d] EXCEPT !.reply = "refused"]]
        BY <1>15, <3>2 DEF WriteCancelled
      <4> QED BY <4>1, <3>1 DEF TypeOK
    <3>3. CASE ~Refused(d)
      <4>1. request' = [request EXCEPT ![d] = [request[d] EXCEPT !.reply = "cancelled"]]
        BY <1>15, <3>3 DEF WriteCancelled
      <4> QED BY <4>1, <3>1 DEF TypeOK
    <3> QED BY <3>2, <3>3
  <2> QED BY <1>15, <2>1 DEF WriteCancelled, TypeOK
<1>16. ASSUME NEW d \in Sessions, WriteAnswered(d) PROVE TypeOK'
  <2>1. request[d].value \in Values /\ request[d].age \in Nat
    BY TimingAssumption DEF TypeOK, Requests
  <2>2. request' \in [Sessions -> Requests]
    BY <1>16, NoRequestType DEF WriteAnswered, TypeOK
  <2>3. persisted' \in [Sessions -> Values] /\ unsure' \in [Sessions -> BOOLEAN]
    BY <1>16, <2>1 DEF WriteAnswered, Confirmed, TypeOK
  <2>4. lockAge' \in [Sessions -> 0 .. HalfTtl]
    <3>1. WrittenAge(request[d].age) \in 0 .. HalfTtl
      BY <2>1, WrittenAgeIsBounded
    <3> QED BY <1>16, <3>1 DEF WriteAnswered, TypeOK
  <2>5. timer' \in [Sessions -> {NotArmed} \cup 0 .. Heartbeat]
    BY <1>16, Bounds DEF WriteAnswered, TypeOK
  <2> QED BY <1>16, <2>2, <2>3, <2>4, <2>5 DEF WriteAnswered, TypeOK
<1>17. ASSUME NEW d \in Sessions, WriteRefused(d) PROVE TypeOK'
  BY <1>17, ForgetType, NoRequestType DEF WriteRefused, TypeOK
<1>18. ASSUME NEW srv \in Servers, Crash(srv) PROVE TypeOK'
  BY <1>18, ForgetType, NoRequestType DEF Crash, TypeOK
<1>19. CASE Remove
  BY <1>19, SessionsAssumption, Bounds DEF Remove, Absent, TypeOK, Shapes
<1>20. ASSUME NEW shape \in ForeignShapes, ClaimByOutsider(shape) PROVE TypeOK'
  BY <1>20, SessionsAssumption, Bounds DEF ClaimByOutsider, TypeOK, Shapes
<1>21. CASE Tick
  <2>1. record' \in [shape: Shapes, value: Values, age: 0 .. LockTtl,
                     owner: Servers \cup {Nobody, Outsider}]
    BY <1>21, OlderIsBounded, TimingAssumption DEF Tick, TypeOK
  <2>2. lockAge' \in [Sessions -> 0 .. HalfTtl]
    BY <1>21, OlderIsBounded, HalfTtlIsNat DEF Tick, TypeOK
  <2>3. timer' \in [Sessions -> {NotArmed} \cup 0 .. Heartbeat]
    BY <1>21, OlderIsBounded, TimingAssumption DEF Tick, TypeOK
  <2>4. request' \in [Sessions -> Requests]
    <3>1. \A d \in Sessions : Older(request[d].age, LockTtl) \in 0 .. LockTtl
      BY OlderIsBounded, TimingAssumption DEF TypeOK, Requests
    <3>2. \A d \in Sessions : \A age \in 0 .. LockTtl :
            [request[d] EXCEPT !.age = age] \in Requests
      BY RequestFieldType DEF TypeOK
    <3>3. ASSUME NEW d \in Sessions PROVE request'[d] \in Requests
      <4>1. \/ request'[d] = [request[d] EXCEPT !.age = Older(request[d].age, LockTtl)]
            \/ request'[d] = request[d]
        BY <1>21 DEF Tick
      <4> QED BY <4>1, <3>1, <3>2 DEF TypeOK
    <3> QED BY <1>21, <3>3 DEF Tick
  <2> QED BY <1>21, <2>1, <2>2, <2>3, <2>4 DEF Tick, TypeOK
<1>22. CASE UNCHANGED vars
  BY <1>22 DEF vars, TypeOK
<1> QED
  BY <1>1, <1>2, <1>3, <1>4, <1>5, <1>6, <1>7, <1>8, <1>9, <1>10, <1>11, <1>12,
     <1>13, <1>14, <1>15, <1>16, <1>17, <1>18, <1>19, <1>20, <1>21, <1>22
  DEF Next, RunWork, Acquire, Step, Call, Save, Release, Fault, Ops

(* Every variable keeps the type its declaration gives it.                 *)
THEOREM TypeCorrect == Spec => []TypeOK
BY InitType, NextType, PTL DEF Spec

-----------------------------------------------------------------------------
(* The lock names its holder.  LockInv says so of an open document and of  *)
(* a write; what makes it inductive is that the same holds of a claim that *)
(* has landed and not been answered yet (Open would otherwise open a       *)
(* document on a lock another session has), and that no record is one a    *)
(* write overwrites without reading its lock.                              *)
Legible == record.shape # "unreadable"
ClaimIsMine ==
  \A d \in Sessions :
    request[d].reply = "written" /\ record.owner = Home[d] => holder = d
RepliesBelong == \A d \in Sessions : request[d].reply # "none" => InFlight(d)
LockIInv == LockInv /\ Legible /\ ClaimIsMine /\ RepliesBelong

(* A session that may still claim or write is live.                        *)
LEMMA BusyIsLive ==
  ASSUME NEW d \in Sessions, InFlight(d) \/ phase[d] = "open"
  PROVE  Live(d)
BY DEF Live, InFlight

(* A write lands under its own server's lock only, and so under its own.   *)
LEMMA WriterHolds ==
  ASSUME TypeOK, LockIInv, NEW d \in Sessions, WriteLands(d)
  PROVE  record.owner = Home[d] /\ holder = d
<1>1. Decodes
  BY DEF WriteLands, Refused, LockIInv, Legible, Decodes, TypeOK, Shapes
<1>2. record.owner = Home[d]
  BY <1>1 DEF WriteLands, Refused, AlreadyThere
<1>3. Writing(d)
  BY DEF WriteLands, Sent, Writing
<1> QED BY <1>2, <1>3 DEF LockIInv, LockInv, OwnLockIsMine

LEMMA LockInit == Init => LockIInv
BY SessionsAssumption
   DEF Init, LockIInv, LockInv, LockNamesHolder, OneWriterPerServer, OwnLockIsMine,
       ClaimIsMine, Legible, RepliesBelong, Absent, NoRequest, Live, Writing, Ops

(* Where neither the lock nor the holder changes, nothing of LockIInv can  *)
(* fail but by a session becoming live, or live in a new way.              *)
SameLock == record'.owner = record.owner /\ record'.shape = record.shape /\ holder' = holder

LEMMA LockFrame ==
  ASSUME LockIInv, SameLock,
         \A d \in Sessions : Live(d)' => Live(d),
         \A d \in Sessions : (phase[d] = "open" \/ Writing(d))' =>
            phase[d] = "open" \/ Writing(d) \/ request[d].reply = "written",
         \A d \in Sessions : request'[d].reply = "written" =>
            phase[d] = "open" \/ Writing(d) \/ request[d].reply = "written",
         RepliesBelong'
  PROVE  LockIInv'
<1>1. LockNamesHolder' /\ Legible'
  BY DEF LockIInv, LockInv, LockNamesHolder, Legible, SameLock
<1>2. OneWriterPerServer'
  BY DEF LockIInv, LockInv, OneWriterPerServer
<1>3. OwnLockIsMine' /\ ClaimIsMine'
  BY DEF LockIInv, LockInv, OwnLockIsMine, ClaimIsMine, SameLock
<1> QED BY <1>1, <1>2, <1>3 DEF LockIInv, LockInv

LEMMA LockNext ==
  ASSUME OnlyLegible, TypeOK, LockIInv, [Next]_vars
  PROVE  LockIInv'
<1> USE DEF Live
<1>1. ASSUME NEW d \in Sessions, AttemptFails(d) \/ RequestUnavailable(d)
      PROVE LockIInv'
  <2>1. SameLock
    BY <1>1 DEF AttemptFails, RequestUnavailable, recordVars, SameLock
  <2>2. \A e \in Sessions : /\ request'[e].op \in {"none", request[e].op}
                            /\ phase'[e] \in {phase[e], "idle"}
                            /\ request'[e].reply \in {"none", request[e].reply}
                            /\ e # d => request'[e] = request[e]
                            /\ e = d => request'[e].reply = "none"
    <3>1. CASE GiveUp(d)
      BY <3>1 DEF GiveUp, NoRequest, TypeOK
    <3>2. CASE AttemptFails(d) /\ ~GiveUp(d)
      <4>1. UNCHANGED phase
        BY <3>2 DEF AttemptFails
      <4>2. PICK first, val, age :
              request' = [request EXCEPT ![d] =
                [NoRequest EXCEPT !.op = request[d].op, !.attempt = request[d].attempt + 1,
                                  !.first = first, !.value = val, !.age = age]]
        BY <3>2, Zenon DEF AttemptFails
      <4> QED BY <4>1, <4>2 DEF NoRequest, TypeOK
    <3> QED BY <1>1, <3>1, <3>2 DEF RequestUnavailable
  <2>3. \A e \in Sessions : Live(e)' => Live(e)
    BY <2>2
  <2>4. RepliesBelong'
    BY <2>2 DEF LockIInv, RepliesBelong, InFlight
  <2> QED BY <2>1, <2>2, <2>3, <2>4, LockFrame DEF Writing, Ops
<1>2. ASSUME NEW d \in Sessions, ClaimRefused(d) PROVE LockIInv'
  BY <1>2, LockFrame DEF ClaimRefused, GiveUp, NoRequest, Writing, Ops, TypeOK,
                         LockIInv, RepliesBelong, InFlight, recordVars, SameLock
<1>3. ASSUME NEW d \in Sessions, Acquire(d) PROVE LockIInv'
  <2>1. UNCHANGED recordVars
    BY <1>3 DEF Acquire, StartAcquire
  <2>2. OneWriterPerServer'
    BY <1>3 DEF Acquire, SoleOnServer, StartAcquire, LockIInv, LockInv,
               OneWriterPerServer, TypeOK, NoRequest
  <2>3. \A e \in Sessions : /\ (phase[e] = "open" \/ Writing(e))' =>
                                phase[e] = "open" \/ Writing(e)
                            /\ request'[e].reply = "written" => request[e].reply = "written"
    BY <1>3 DEF Acquire, StartAcquire, NoRequest, Writing, Ops, TypeOK
  <2>4. RepliesBelong'
    BY <1>3 DEF Acquire, StartAcquire, NoRequest, TypeOK, LockIInv, RepliesBelong, InFlight
  <2> QED
    BY <2>1, <2>2, <2>3, <2>4 DEF LockIInv, LockInv, LockNamesHolder, OwnLockIsMine,
                            ClaimIsMine, Legible, recordVars
<1>4. ASSUME NEW d \in Sessions, ClaimLands(d) PROVE LockIInv'
  <2>1. Live(d) /\ Home[d] \in Servers
    BY <1>4, SessionsAssumption DEF ClaimLands, Sent
  <2>2. \A e \in Sessions : Live(e)' => Live(e)
    BY <1>4 DEF ClaimLands, TypeOK
  <2>3. OneWriterPerServer'
    BY <2>2 DEF LockIInv, LockInv, OneWriterPerServer
  <2>4. record'.owner = Home[d] /\ record'.shape = "readable" /\ holder' = d
    BY <1>4 DEF ClaimLands
  <2>5. LockNamesHolder' /\ Legible'
    BY <2>1, <2>4, SessionsAssumption DEF LockNamesHolder, Legible
  <2>6. \A e \in Sessions : Home[e] = Home[d] /\ Live(e)' => e = d
    BY <2>1, <2>2 DEF LockIInv, LockInv, OneWriterPerServer
  <2>7. \A e \in Sessions : (phase[e] = "open" \/ Writing(e))' => Live(e)'
    BY DEF Writing, Ops
  <2>8. OwnLockIsMine'
    BY <2>4, <2>6, <2>7 DEF OwnLockIsMine
  <2>9. RepliesBelong'
    BY <1>4 DEF ClaimLands, Sent, LockIInv, RepliesBelong, InFlight, TypeOK
  <2>10. ClaimIsMine'
    BY <2>4, <2>6, <2>9 DEF ClaimIsMine, RepliesBelong, InFlight
  <2> QED BY <2>3, <2>5, <2>8, <2>9, <2>10 DEF LockIInv, LockInv
<1>5. CASE UNCHANGED <<recordVars, phase, request>>
  BY <1>5, LockFrame DEF LockIInv, RepliesBelong, InFlight, Writing, recordVars, SameLock
<1>6. ASSUME NEW d \in Sessions, Open(d) PROVE LockIInv'
  <2>1. /\ SameLock /\ Live(d) /\ request[d].reply = "written"
        /\ phase' = [phase EXCEPT ![d] = "open"]
        /\ request' = [request EXCEPT ![d] = NoRequest]
    BY <1>6 DEF Open, Replied, recordVars, SameLock
  <2>2. RepliesBelong'
    BY <2>1 DEF LockIInv, RepliesBelong, InFlight, TypeOK, NoRequest
  <2> QED BY <2>1, <2>2, LockFrame DEF Writing, Ops, TypeOK, NoRequest
<1>7. ASSUME NEW d \in Sessions, Flush(d) \/ RunRelease(d) PROVE LockIInv'
  <2>1. PICK op \in Ops : Send(d, op)
    BY <1>7 DEF Flush, RunRelease, Ops
  <2>2. /\ SameLock /\ phase[d] = "open"
        /\ phase' \in {phase, [phase EXCEPT ![d] = "closed"]}
    BY <1>7 DEF Flush, RunRelease, recordVars, SameLock
  <2>3. \A e \in Sessions :
          /\ request'[e].reply \in {"none", request[e].reply}
          /\ e # d => request'[e] = request[e]
          /\ e = d => request'[e].reply = "none"
    BY <2>1 DEF Send, NoRequest, TypeOK
  <2>4. RepliesBelong'
    BY <2>3 DEF LockIInv, RepliesBelong, InFlight
  <2>5. \A e \in Sessions : phase'[e] \in {phase[e], "closed"}
    BY <2>2 DEF TypeOK
  <2> QED BY <2>2, <2>3, <2>4, <2>5, LockFrame DEF Writing
<1>8. ASSUME NEW d \in Sessions, WriteLands(d) PROVE LockIInv'
  <2>1. record.owner = Home[d] /\ holder = d /\ Home[d] \in Servers
    BY <1>8, WriterHolds, SessionsAssumption
  <2>2. /\ record'.shape = "readable"
        /\ \/ record'.owner = Home[d] /\ holder' = d
           \/ record'.owner = Nobody /\ holder' = Nobody
    BY <1>8, <2>1 DEF WriteLands, Written
  <2>3. /\ UNCHANGED phase /\ InFlight(d)
        /\ \A e \in Sessions : /\ request'[e].op = request[e].op
                               /\ e # d => request'[e] = request[e]
    BY <1>8 DEF WriteLands, Sent, Ops, TypeOK, InFlight
  <2>4. LockNamesHolder' /\ Legible'
    BY <2>1, <2>2, SessionsAssumption DEF LockNamesHolder, Legible
  <2>5. OneWriterPerServer'
    BY <2>3 DEF LockIInv, LockInv, OneWriterPerServer
  <2>6. \A e \in Sessions : Home[e] = Home[d] /\ Live(e) => e = d
    BY <2>3 DEF LockIInv, LockInv, OneWriterPerServer, InFlight
  <2>7. \A e \in Sessions : Home[e] \in Servers
    BY SessionsAssumption
  <2>8. OwnLockIsMine'
    BY <2>2, <2>3, <2>6, <2>7, SessionsAssumption DEF OwnLockIsMine, Writing, Ops
  <2>9. RepliesBelong'
    BY <2>3 DEF LockIInv, RepliesBelong, InFlight
  <2>10. ClaimIsMine'
    BY <2>2, <2>3, <2>6, <2>7, <2>9, SessionsAssumption DEF ClaimIsMine, RepliesBelong, InFlight
  <2> QED BY <2>4, <2>5, <2>8, <2>9, <2>10 DEF LockIInv, LockInv
<1>9. ASSUME NEW d \in Sessions, WriteCancelled(d) PROVE LockIInv'
  <2>1. /\ SameLock /\ UNCHANGED phase /\ InFlight(d) /\ Writing(d)
        /\ \A e \in Sessions : /\ request'[e].op = request[e].op
                               /\ e # d => request'[e] = request[e]
                               /\ e = d => request'[e].reply \in {"refused", "cancelled"}
    BY <1>9 DEF WriteCancelled, Sent, Ops, TypeOK, InFlight, Writing, recordVars, SameLock
  <2>2. RepliesBelong'
    BY <2>1 DEF LockIInv, RepliesBelong, InFlight
  <2> QED BY <2>1, <2>2, LockFrame DEF Writing
<1>10. ASSUME NEW d \in Sessions, WriteAnswered(d) \/ WriteRefused(d) PROVE LockIInv'
  <2>1. /\ SameLock
        /\ \A e \in Sessions : /\ phase'[e] \in {phase[e], "closed"}
                               /\ request'[e] \in {request[e], NoRequest}
    BY <1>10 DEF WriteAnswered, WriteRefused, TypeOK, recordVars, SameLock
  <2>2. RepliesBelong'
    BY <2>1 DEF LockIInv, RepliesBelong, InFlight, NoRequest
  <2> QED BY <2>1, <2>2, LockFrame DEF Writing, NoRequest, Ops
<1>11. ASSUME NEW srv \in Servers, Crash(srv) PROVE LockIInv'
  <2>1. /\ SameLock
        /\ \A e \in Sessions : /\ phase'[e] \in {phase[e], "closed"}
                               /\ request'[e] \in {request[e], NoRequest}
    BY <1>11 DEF Crash, TypeOK, recordVars, SameLock
  <2>2. RepliesBelong'
    BY <2>1 DEF LockIInv, RepliesBelong, InFlight, NoRequest
  <2> QED BY <2>1, <2>2, LockFrame DEF Writing, NoRequest, Ops
<1>12. ASSUME Remove \/ \E shape \in ForeignShapes : ClaimByOutsider(shape)
       PROVE  LockIInv'
  <2>1. /\ UNCHANGED <<phase, request>> /\ record'.shape # "unreadable"
        /\ \/ record'.owner = Nobody /\ holder' = Nobody
           \/ record'.owner = Outsider /\ holder' = Outsider
    <3>1. CASE Remove
      BY <3>1 DEF Remove, Absent
    <3>2. ASSUME NEW shape \in ForeignShapes, ClaimByOutsider(shape)
          PROVE  /\ UNCHANGED <<phase, request>> /\ holder' = Outsider
                 /\ record'.owner = Outsider /\ record'.shape = shape
      BY <3>2 DEF ClaimByOutsider, TypeOK
    <3> QED BY <1>12, <3>1, <3>2 DEF OnlyLegible
  <2>2. \A e \in Sessions : Home[e] \in Servers
    BY SessionsAssumption
  <2>3. LockNamesHolder' /\ OwnLockIsMine' /\ ClaimIsMine' /\ Legible'
    BY <2>1, <2>2, SessionsAssumption
    DEF LockNamesHolder, OwnLockIsMine, ClaimIsMine, Legible
  <2>4. OneWriterPerServer' /\ RepliesBelong'
    BY <2>1 DEF LockIInv, LockInv, OneWriterPerServer, RepliesBelong, InFlight
  <2> QED BY <2>3, <2>4 DEF LockIInv, LockInv
<1>13. CASE Tick
  <2>1. /\ SameLock /\ UNCHANGED phase
        /\ \A e \in Sessions : /\ request'[e].op = request[e].op
                               /\ request'[e].reply = request[e].reply
    BY <1>13 DEF Tick, TypeOK, Requests, SameLock
  <2>2. RepliesBelong'
    BY <2>1 DEF LockIInv, RepliesBelong, InFlight
  <2> QED BY <2>1, <2>2, LockFrame DEF Writing
<1>14. CASE UNCHANGED vars
  BY <1>14, <1>5 DEF vars, recordVars
<1>15. ASSUME NEW d \in Sessions,
              RunClosed(d) \/ FlushNothing(d) \/ HeartbeatFires(d) \/ Call(d)
       PROVE  LockIInv'
  BY <1>15, <1>5
  DEF RunClosed, FlushNothing, HeartbeatFires, Call, Save, Release, Enqueue, Stage
<1> HIDE DEF Live
<1> QED
  BY <1>1, <1>2, <1>3, <1>4, <1>6, <1>7, <1>8, <1>9, <1>10, <1>11, <1>12, <1>13,
     <1>14, <1>15
  DEF Next, RunWork, Step, Fault

(* player-store.ts:481-490: the lock in the record is the lock of the      *)
(* session that claimed the key last, and a server writes the key from one *)
(* session at a time.                                                      *)
THEOREM LockCorrect ==
  ASSUME OnlyLegible
  PROVE  Spec => []LockInv
<1>1. Init => TypeOK /\ LockIInv
  BY InitType, LockInit
<1>2. TypeOK /\ LockIInv /\ [Next]_vars => (TypeOK /\ LockIInv)'
  BY NextType, LockNext
<1>3. LockIInv => LockInv
  BY DEF LockIInv
<1> QED BY <1>1, <1>2, <1>3, PTL DEF Spec

-----------------------------------------------------------------------------
(* The key is a single-writer register: every step is one of SessionLock's *)
(* or changes nothing it sees.                                             *)

LEMMA SameLockStutters ==
  ASSUME UNCHANGED recordVars
  PROVE  UNCHANGED <<holder, record.value, Lapsed>>
BY DEF recordVars, Lapsed

LEMMA LockStep ==
  ASSUME OnlyLegible, TypeOK, LockIInv, [Next]_vars
  PROVE  [Lock!Next]_(Lock!lockVars)
<1> USE DEF Lock!lockVars
<1>1. CASE UNCHANGED recordVars
  BY <1>1, SameLockStutters
<1>2. ASSUME NEW d \in Sessions, ClaimLands(d) PROVE Lock!Next
  <2>1. Home[d] \in Servers
    BY SessionsAssumption
  <2>2. /\ holder' = d /\ record'.value = record.value
        /\ record'.owner = Home[d] /\ record'.age = 0
    BY <1>2 DEF ClaimLands
  <2>3. Lapsed' = FALSE
    BY <2>1, <2>2, SessionsAssumption, TimingAssumption DEF Lapsed
  <2>4. Lapsed \/ (holder \in Sessions /\ Home[holder] = Home[d])
    <3>1. CASE record.owner = Home[d]
      BY <2>1, <3>1 DEF LockIInv, LockInv, LockNamesHolder
    <3>2. CASE record.owner # Home[d]
      BY <1>2, <3>2, TimingAssumption DEF ClaimLands, Claimable, Blocking, Lapsed, TypeOK
    <3> QED BY <3>1, <3>2
  <2>5. Lock!Claim(d)
    BY <2>2, <2>3, <2>4 DEF Lock!Claim
  <2> QED BY <2>5 DEF Lock!Next
<1>3. ASSUME NEW d \in Sessions, WriteLands(d) PROVE Lock!Next
  <2>1. holder = d /\ Home[d] \in Servers
    BY <1>3, WriterHolds, SessionsAssumption
  <2>2. record'.value = request[d].value /\ record'.value \in Values
    BY <1>3 DEF WriteLands, Written, TypeOK, Requests
  <2>3. Lapsed' \in BOOLEAN
    BY DEF Lapsed
  <2>4. CASE request[d].op = "release"
    <3>1. holder' = Nobody /\ Lapsed' = TRUE
      BY <1>3, <2>1, <2>4 DEF WriteLands, Written, Lapsed
    <3>2. Lock!Release(d)
      BY <2>1, <2>2, <3>1 DEF Lock!Release
    <3> QED BY <3>2 DEF Lock!Next
  <2>5. CASE request[d].op # "release"
    <3>1. holder' = d
      BY <1>3, <2>1, <2>5 DEF WriteLands
    <3>2. Lock!Write(d)
      BY <2>1, <2>2, <2>3, <3>1 DEF Lock!Write
    <3> QED BY <3>2 DEF Lock!Next
  <2> QED BY <2>4, <2>5
<1>4. CASE Remove
  <2>1. Lock!Erase
    BY <1>4 DEF Remove, Absent, Lapsed, Lock!Erase
  <2> QED BY <2>1 DEF Lock!Next
<1>5. ASSUME NEW shape \in ForeignShapes, ClaimByOutsider(shape) PROVE Lock!Next
  <2>1. Lapsed \/ holder = Outsider
    BY <1>5, SessionsAssumption, TimingAssumption
    DEF ClaimByOutsider, Blocking, Lapsed, TypeOK, LockIInv, LockInv, LockNamesHolder
  <2>2. Lock!ClaimByOutsider
    <3>1. /\ holder' = Outsider /\ record'.owner = Outsider
          /\ record'.age = 0 /\ record'.value = record.value
      BY <1>5 DEF ClaimByOutsider, TypeOK
    <3>2. Lapsed' = FALSE
      BY <3>1, SessionsAssumption, TimingAssumption DEF Lapsed
    <3> QED BY <2>1, <3>1, <3>2 DEF Lock!ClaimByOutsider
  <2> QED BY <2>2 DEF Lock!Next
<1>6. CASE Tick
  <2>1. holder' = holder /\ record'.value = record.value /\ record'.owner = record.owner
    BY <1>6 DEF Tick, TypeOK
  <2>2. Lapsed => Lapsed'
    BY <1>6, TimingAssumption DEF Tick, Older, Lapsed, TypeOK
  <2>3. CASE Lapsed'
    <3>1. Lock!Lapse
      BY <2>1, <2>3 DEF Lock!Lapse, Lapsed
    <3> QED BY <3>1 DEF Lock!Next
  <2>4. CASE ~Lapsed'
    BY <2>1, <2>2, <2>4 DEF Lapsed
  <2> QED BY <2>3, <2>4
<1> QED
  BY <1>1, <1>2, <1>3, <1>4, <1>5, <1>6
  DEF Next, RunWork, Acquire, Step, Call, Fault, vars, recordVars, docVars,
      RunClosed, FlushNothing, Flush, RunRelease, StartAcquire, ClaimRefused, Open,
      HeartbeatFires, WriteCancelled, WriteAnswered, WriteRefused, Save, Release,
      Enqueue, Stage, AttemptFails, RequestUnavailable, Crash

(* docs/stores.md, "Player stores and the session lock": whatever the      *)
(* number of servers and sessions, and whatever fails, only the session    *)
(* that claimed the key last changes the record, and a lock is taken from  *)
(* another server only after its TTL.                                      *)
THEOREM SingleWriterCorrect ==
  ASSUME OnlyLegible
  PROVE  Spec => SingleWriter
<1>1. Init => TypeOK /\ LockIInv
  BY InitType, LockInit
<1>2. TypeOK /\ LockIInv /\ [Next]_vars => (TypeOK /\ LockIInv)'
  BY NextType, LockNext
<1>3. Init => Lock!Init
  BY SessionsAssumption DEF Init, Absent, Lock!Init, Lapsed
<1>4. TypeOK /\ LockIInv /\ [Next]_vars => [Lock!Next]_(Lock!lockVars)
  BY LockStep
<1> QED BY <1>1, <1>2, <1>3, <1>4, PTL DEF Spec, SingleWriter, Lock!Spec

-----------------------------------------------------------------------------
(* What a session was told is stored is stored.  An answer counts as a     *)
(* write although nothing was written (AlreadyThere) only for a session    *)
(* that is not the holder, and a claim's or write's own value is in the    *)
(* record until its answer is read.                                        *)
WrittenIsStored ==
  \A d \in Sessions :
    request[d].reply = "written" /\ holder = d => record.value = request[d].value
CancelledIsLost == \A d \in Sessions : request[d].reply = "cancelled" => holder # d
ClaimIsNotOpen == \A d \in Sessions : request[d].op = "acquire" => phase[d] # "open"
AckIInv == AckedIsStored /\ WrittenIsStored /\ CancelledIsLost /\ ClaimIsNotOpen

LEMMA AckInit == Init => AckIInv
BY DEF Init, AckIInv, AckedIsStored, WrittenIsStored, CancelledIsLost, ClaimIsNotOpen,
       NoRequest

(* A step that leaves the record's value and the holder alone, opens no    *)
(* document, and answers nothing.                                          *)
LEMMA AckFrame ==
  ASSUME AckIInv, holder' = holder, record'.value = record.value,
         \A d \in Sessions :
           /\ phase'[d] = "open" =>
                phase[d] = "open" /\ persisted'[d] = persisted[d] /\ unsure'[d] = unsure[d]
           /\ request'[d].reply \in {"written", "cancelled"} =>
                request'[d].reply = request[d].reply /\ request'[d].value = request[d].value
           /\ request'[d].op = "acquire" => request[d].op = "acquire" \/ phase'[d] # "open"
  PROVE  AckIInv'
BY DEF AckIInv, AckedIsStored, WrittenIsStored, CancelledIsLost, ClaimIsNotOpen

(* A request that has just been sent has no answer.                        *)
LEMMA SendIsUnanswered ==
  ASSUME TypeOK, NEW d \in Sessions, NEW op, Send(d, op)
  PROVE  \A e \in Sessions :
           request'[e] = request[e] \/ (request'[e].reply = "none" /\ request'[e].op = op)
BY DEF Send, NoRequest, TypeOK

(* Forgetting some documents leaves the others.                            *)
LEMMA ForgetLeaves ==
  ASSUME NEW gone, Forget(gone)
  PROVE  \A e \in Sessions \ gone : persisted'[e] = persisted[e] /\ unsure'[e] = unsure[e]
BY DEF Forget

LEMMA AckNext ==
  ASSUME OnlyLegible, TypeOK, LockIInv, AckIInv, [Next]_vars
  PROVE  AckIInv'
<1> USE DEF recordVars, docVars
<1>1. CASE UNCHANGED <<recordVars, phase, persisted, unsure, request>>
  BY <1>1, AckFrame
<1>2. ASSUME NEW d \in Sessions,
             AttemptFails(d) \/ RequestUnavailable(d) \/ ClaimRefused(d)
      PROVE  AckIInv'
  <2>1. UNCHANGED <<record, holder, persisted, unsure>>
    BY <1>2 DEF AttemptFails, RequestUnavailable, ClaimRefused
  <2>2. \A e \in Sessions : phase'[e] = "open" => phase[e] = "open"
    BY <1>2 DEF AttemptFails, RequestUnavailable, ClaimRefused, GiveUp, TypeOK
  <2>3. \A e \in Sessions : e # d => request'[e] = request[e]
    BY <1>2 DEF AttemptFails, RequestUnavailable, ClaimRefused, GiveUp, TypeOK
  <2>4. request'[d].reply = "none" /\ request'[d].op \in {"none", request[d].op}
    <3>1. CASE GiveUp(d)
      BY <3>1 DEF GiveUp, NoRequest, TypeOK
    <3>2. CASE AttemptFails(d) /\ ~GiveUp(d)
      <4>1. PICK first, val, age :
              request' = [request EXCEPT ![d] =
                [NoRequest EXCEPT !.op = request[d].op, !.attempt = request[d].attempt + 1,
                                  !.first = first, !.value = val, !.age = age]]
        BY <3>2, Zenon DEF AttemptFails
      <4> QED BY <4>1 DEF NoRequest, TypeOK
    <3> QED BY <1>2, <3>1, <3>2 DEF RequestUnavailable, ClaimRefused
  <2> QED BY <2>1, <2>2, <2>3, <2>4, AckFrame
<1>3. ASSUME NEW d \in Sessions, Acquire(d) PROVE AckIInv'
  <2>1. UNCHANGED <<record, holder, persisted, unsure>>
    BY <1>3 DEF Acquire, StartAcquire
  <2>2. \A e \in Sessions : phase'[e] = "open" => phase[e] = "open"
    BY <1>3 DEF Acquire, StartAcquire, TypeOK
  <2>3. /\ request'[d].reply = "none" /\ phase'[d] = "acquiring"
        /\ \A e \in Sessions : e # d => request'[e] = request[e]
    BY <1>3 DEF Acquire, StartAcquire, NoRequest, TypeOK
  <2> QED BY <2>1, <2>2, <2>3, AckFrame
<1>4. ASSUME NEW d \in Sessions, Flush(d) \/ RunRelease(d) PROVE AckIInv'
  <2>1. UNCHANGED <<record, holder>>
    BY <1>4 DEF Flush, RunRelease
  <2>2. \A e \in Sessions : phase'[e] = "open" =>
          phase[e] = "open" /\ persisted'[e] = persisted[e] /\ unsure'[e] = unsure[e]
    <3>1. CASE Flush(d)
      BY <3>1 DEF Flush
    <3>2. CASE RunRelease(d)
      BY <3>2, ForgetLeaves DEF RunRelease, TypeOK
    <3> QED BY <1>4, <3>1, <3>2
  <2>3. PICK op \in Ops : Send(d, op)
    BY <1>4 DEF Flush, RunRelease, Ops
  <2>4. op # "acquire"
    BY DEF Ops
  <2> QED BY <2>1, <2>2, <2>3, <2>4, SendIsUnanswered, AckFrame
<1>5. ASSUME \/ \E d \in Sessions : WriteRefused(d)
             \/ \E srv \in Servers : Crash(srv)
      PROVE  AckIInv'
  <2>1. UNCHANGED <<record, holder>>
    BY <1>5 DEF WriteRefused, Crash
  <2>2. ASSUME NEW e \in Sessions
        PROVE  /\ phase'[e] = "open" =>
                    phase[e] = "open" /\ persisted'[e] = persisted[e] /\ unsure'[e] = unsure[e]
               /\ request'[e] \in {request[e], NoRequest}
    <3>1. CASE \E d \in Sessions : WriteRefused(d)
      <4>1. PICK d \in Sessions : WriteRefused(d)
        BY <3>1
      <4> QED BY <4>1, ForgetLeaves DEF WriteRefused, TypeOK
    <3>2. CASE \E srv \in Servers : Crash(srv)
      <4>1. PICK srv \in Servers : Crash(srv)
        BY <3>2
      <4> DEFINE gone == {d \in Sessions : Home[d] = srv}
      <4>2. Forget(gone)
        BY <4>1 DEF Crash
      <4>3. e \notin gone => persisted'[e] = persisted[e] /\ unsure'[e] = unsure[e]
        BY <4>2, ForgetLeaves
      <4> QED BY <4>1, <4>3 DEF Crash, TypeOK
    <3> QED BY <1>5, <3>1, <3>2
  <2> QED BY <2>1, <2>2, AckFrame DEF NoRequest
<1>6. ASSUME NEW d \in Sessions, ClaimLands(d) PROVE AckIInv'
  <2>1. /\ holder' = d /\ record'.value = record.value
        /\ UNCHANGED <<phase, persisted, unsure>>
    BY <1>6 DEF ClaimLands
  <2>2. request'[d].reply = "written" /\ request'[d].value = record.value
    BY <1>6 DEF ClaimLands, TypeOK
  <2>3. \A e \in Sessions : e # d => request'[e] = request[e]
    BY <1>6 DEF ClaimLands, TypeOK
  <2>4. request[d].op = "acquire" /\ request'[d].op = "acquire"
    BY <1>6 DEF ClaimLands, Sent, TypeOK
  <2> QED
    BY <2>1, <2>2, <2>3, <2>4
    DEF AckIInv, AckedIsStored, WrittenIsStored, CancelledIsLost, ClaimIsNotOpen
<1>7. ASSUME NEW d \in Sessions, Open(d) PROVE AckIInv'
  <2>1. /\ UNCHANGED <<record, holder>> /\ request[d].reply = "written"
        /\ request' = [request EXCEPT ![d] = NoRequest]
    BY <1>7 DEF Open, Replied
  <2>2. /\ persisted'[d] = request[d].value
        /\ \A e \in Sessions \ {d} : /\ phase'[e] = phase[e]
                                    /\ persisted'[e] = persisted[e] /\ unsure'[e] = unsure[e]
    BY <1>7 DEF Open, TypeOK
  <2>3. \A e \in Sessions : request'[e] = IF e = d THEN NoRequest ELSE request[e]
    BY <2>1 DEF TypeOK
  <2> QED
    BY <2>1, <2>2, <2>3
    DEF AckIInv, AckedIsStored, WrittenIsStored, CancelledIsLost, ClaimIsNotOpen, NoRequest
<1>8. ASSUME NEW d \in Sessions, WriteLands(d) PROVE AckIInv'
  <2>1. holder = d
    BY <1>8, WriterHolds
  <2>2. /\ UNCHANGED <<phase, persisted>> /\ request[d].op \in Ops
        /\ record'.value = request[d].value
    BY <1>8 DEF WriteLands, Written, Sent
  <2>3. \/ request[d].op = "release" /\ holder' = Nobody
        \/ request[d].op # "release" /\ holder' = d /\ unsure'[d]
    BY <1>8, <2>1 DEF WriteLands, TypeOK
  <2>4. /\ request'[d].op = request[d].op /\ request'[d].value = request[d].value
        /\ request'[d].reply = "written"
        /\ \A e \in Sessions : e # d => request'[e] = request[e]
    BY <1>8 DEF WriteLands, TypeOK
  <2> QED
    BY <2>1, <2>2, <2>3, <2>4, SessionsAssumption
    DEF AckIInv, AckedIsStored, WrittenIsStored, CancelledIsLost, ClaimIsNotOpen, Ops
<1>9. ASSUME NEW d \in Sessions, WriteCancelled(d) PROVE AckIInv'
  <2>1. UNCHANGED <<record, holder, phase, persisted, unsure>>
    BY <1>9 DEF WriteCancelled
  <2>2. /\ request'[d].op = request[d].op /\ request'[d].reply \in {"refused", "cancelled"}
        /\ \A e \in Sessions : e # d => request'[e] = request[e]
    BY <1>9 DEF WriteCancelled, TypeOK
  <2>3. request'[d].reply = "cancelled" => holder # d
    <3>1. request'[d].reply = "cancelled" => AlreadyThere(d)
      BY <1>9 DEF WriteCancelled, TypeOK
    <3> QED BY <3>1, SessionsAssumption
            DEF AlreadyThere, LockIInv, LockInv, LockNamesHolder
  <2> QED
    BY <2>1, <2>2, <2>3
    DEF AckIInv, AckedIsStored, WrittenIsStored, CancelledIsLost, ClaimIsNotOpen
<1>10. ASSUME NEW d \in Sessions, WriteAnswered(d) PROVE AckIInv'
  <2>1. /\ UNCHANGED <<record, holder, phase>>
        /\ request[d].reply \in {"written", "cancelled"}
        /\ request' = [request EXCEPT ![d] = NoRequest]
    BY <1>10 DEF WriteAnswered, Replied
  <2>2. /\ persisted'[d] = request[d].value \/ (persisted'[d] = persisted[d] /\ unsure'[d] = unsure[d])
        /\ \A e \in Sessions : e # d => persisted'[e] = persisted[e] /\ unsure'[e] = unsure[e]
    BY <1>10 DEF WriteAnswered, Confirmed, TypeOK
  <2>3. \A e \in Sessions : request'[e] = IF e = d THEN NoRequest ELSE request[e]
    BY <2>1 DEF TypeOK
  <2> QED
    BY <2>1, <2>2, <2>3
    DEF AckIInv, AckedIsStored, WrittenIsStored, CancelledIsLost, ClaimIsNotOpen, NoRequest
<1>11. ASSUME Remove \/ \E shape \in ForeignShapes : ClaimByOutsider(shape)
       PROVE  AckIInv'
  <2>1. holder' \in {Nobody, Outsider} /\ UNCHANGED <<phase, persisted, unsure, request>>
    BY <1>11 DEF Remove, ClaimByOutsider
  <2> QED
    BY <2>1, SessionsAssumption
    DEF AckIInv, AckedIsStored, WrittenIsStored, CancelledIsLost, ClaimIsNotOpen
<1>12. CASE Tick
  <2>1. /\ UNCHANGED <<phase, persisted, unsure, holder>> /\ record'.value = record.value
        /\ \A e \in Sessions : /\ request'[e].op = request[e].op
                               /\ request'[e].reply = request[e].reply
                               /\ request'[e].value = request[e].value
    BY <1>12 DEF Tick, TypeOK, Requests
  <2> QED BY <2>1, AckFrame
<1>13. CASE UNCHANGED vars
  BY <1>13, <1>1 DEF vars
<1>14. ASSUME NEW d \in Sessions,
              RunClosed(d) \/ FlushNothing(d) \/ HeartbeatFires(d) \/ Call(d)
       PROVE  AckIInv'
  BY <1>14, <1>1
  DEF RunClosed, FlushNothing, HeartbeatFires, Call, Save, Release, Enqueue, Stage
<1> QED
  BY <1>2, <1>3, <1>4, <1>5, <1>6, <1>7, <1>8, <1>9, <1>10, <1>11, <1>12, <1>13, <1>14
  DEF Next, RunWork, Step, Fault

(* A save, heartbeat or release that reported success is in the record for *)
(* as long as the session holds the lock and no later write of it is       *)
(* unanswered (player-store.ts:530).                                       *)
THEOREM SavesAreStored ==
  ASSUME OnlyLegible
  PROVE  Spec => []AckedIsStored
<1>1. Init => TypeOK /\ LockIInv /\ AckIInv
  BY InitType, LockInit, AckInit
<1>2. TypeOK /\ LockIInv /\ AckIInv /\ [Next]_vars => (TypeOK /\ LockIInv /\ AckIInv)'
  BY NextType, LockNext, AckNext
<1>3. AckIInv => AckedIsStored
  BY DEF AckIInv
<1> QED BY <1>1, <1>2, <1>3, PTL DEF Spec

(* player-store.ts:470-476: no step of this code writes a record back that *)
(* a newer Aruna wrote, whatever else the key went through.                *)
THEOREM AheadIsNeverOverwritten == Spec => AheadIsKept
<1>1. TypeOK /\ [Next]_vars => [record.shape = "ahead" => record'.shape \in {"ahead", "absent"}]_record
  <2> SUFFICES ASSUME TypeOK, [Next]_vars, record.shape = "ahead", record' # record
               PROVE  record'.shape \in {"ahead", "absent"}
    OBVIOUS
  <2>1. \A d \in Sessions : ~ClaimLands(d) /\ ~WriteLands(d)
    BY DEF ClaimLands, Claimable, Decodes, WriteLands, Refused
  <2>2. \A shape \in ForeignShapes : ~ClaimByOutsider(shape)
    BY DEF ClaimByOutsider
  <2>3. CASE Remove
    BY <2>3 DEF Remove, Absent
  <2>4. CASE Tick
    BY <2>4 DEF Tick, TypeOK
  <2> QED
    BY <2>1, <2>2, <2>3, <2>4
    DEF Next, RunWork, Acquire, Step, Call, Fault, vars, recordVars, docVars,
        RunClosed, FlushNothing, Flush, RunRelease, StartAcquire, ClaimRefused, Open,
        HeartbeatFires, WriteCancelled, WriteAnswered, WriteRefused, Save, Release,
        Enqueue, Stage, AttemptFails, RequestUnavailable, Crash
<1> QED BY <1>1, TypeCorrect, PTL DEF Spec, AheadIsKept
=============================================================================
