------------------------- MODULE PlayerStoreProofs -------------------------
(***************************************************************************)
(* That the maps of a player store keep what StoreDocument assumes of its  *)
(* sessions, for any players, servers, loads and bounds.                   *)
(***************************************************************************)
EXTENDS PlayerStore, SequenceTheorems, TLAPS

(* The documents again, with what is proved of them.                       *)
DP == INSTANCE StoreDocumentProofs

-----------------------------------------------------------------------------
(* Documents.                                                              *)

(* A request, whatever else it carries.                                    *)
Plain(r) == "op" \in DOMAIN r

(* What a session asks for goes with its phase.                            *)
InPhase(d) ==
  /\ request[d].op \in SD!Ops \cup {"none", "acquire"}
  /\ request[d].op = "acquire" <=> phase[d] = "acquiring"
  /\ request[d].op \in SD!Ops => phase[d] \in {"open", "closed"}

DocInv ==
  /\ phase \in [Sessions -> {"idle", "acquiring", "open", "closed"}]
  /\ queue \in [Sessions -> Seq(SD!Ops)]
  /\ request = [d \in Sessions |-> request[d]]
  /\ \A d \in Sessions : Plain(request[d]) /\ InPhase(d)

(* d is closed, or will be by what its queue holds.                        *)
Closing(d) ==
  \/ phase[d] = "closed"
  \/ phase[d] = "open" /\ \E i \in DOMAIN queue[d] : queue[d][i] = "release"

LiveOn(s) == {d \in Sessions : Home[d] = s /\ SD!Live(d)}

-----------------------------------------------------------------------------
(* Loads.  Those of a server stand in a line: each but the first waits for *)
(* the release that follows the one before, and the last is the holder's   *)
(* or the one whose release is kept in `releasing'.                        *)

Pending(p) == Loading(p) \/ after[p] > 0
Waits(p, ref) == loading[p].state = "waiting" /\ loading[p].on = ref

LastIs(s, p) ==
  IF holders[s] = NoOne THEN after[p] > 0 /\ releasing[s] = <<"load", p, 1>>
  ELSE holders[s] = p /\ after[p] = 0

Line(s, c) ==
  /\ \A p \in Players : (\E i \in DOMAIN c : c[i] = p) <=> Pending(p) /\ ServerOf[p] = s
  /\ \A i, j \in DOMAIN c : c[i] = c[j] => i = j
  /\ \A i \in DOMAIN c : i > 1 => Waits(c[i], <<"load", c[i - 1], 1>>)
  /\ \A i \in DOMAIN c : i < Len(c) => after[c[i]] > 0
  /\ c # << >> => LastIs(s, c[Len(c)])

(* The session that may still write is the first load's, or the one it     *)
(* waits for; and without a load, the one the next load will wait for.     *)
FirstIs(s, p) ==
  /\ ~Loading(p) => \A e \in LiveOn(s) : documents[p] = e
  /\ loading[p].state = "waiting" =>
       loading[p].on[1] # "load" /\ \A e \in LiveOn(s) : loading[p].on = <<"doc", e>>
  /\ loading[p].state = "acquiring" => \A e \in LiveOn(s) : e = Session(p)
  /\ loading[p].state = "backoff" => LiveOn(s) = {}
RestIs(s) ==
  IF holders[s] = NoOne THEN \A e \in LiveOn(s) : releasing[s] = <<"doc", e>>
  ELSE \A e \in LiveOn(s) : documents[holders[s]] = e
Front(s, c) == IF c = << >> THEN RestIs(s) ELSE FirstIs(s, c[1])

SoundLine(s) == \E c \in Seq(Players) : Line(s, c) /\ Front(s, c)
LineInv == \A s \in Servers : SoundLine(s)

(* Entries are of the server, and references are to what will be over.     *)
RefInv ==
  /\ \A s \in Servers : holders[s] # NoOne => ServerOf[holders[s]] = s
  /\ \A s \in Servers, p \in Players, k \in 1 .. 2 :
       releasing[s] = <<"load", p, k>> => ServerOf[p] = s /\ after[p] > 0
  /\ \A d \in Sessions : Awaited(d) => Closing(d)

MapInv ==
  \A p \in Players :
    /\ Loading(p) => loads[p] > 0
    /\ documents[p] # NoOne =>
         /\ documents[p][1] = p
         /\ phase[documents[p]] \in {"open", "closed"}
         /\ Loading(p) => ~SD!Live(documents[p])
         /\ ~Pending(p) => holders[ServerOf[p]] = p

Orphanless ==
  \A d \in Sessions : phase[d] = "open" => documents[d[1]] = d \/ Closing(d)

IInv == TypeOK /\ DocInv /\ LineInv /\ RefInv /\ MapInv /\ Orphanless

-----------------------------------------------------------------------------
(* Steps of documents.  A calm one lets no session write that could not    *)
(* before, and takes no close back.                                        *)

Calm ==
  \A d \in Sessions :
    /\ SD!Live(d)' => SD!Live(d)
    /\ phase'[d] = phase[d] \/ (phase[d] = "open" /\ phase'[d] = "closed")
    /\ Closing(d) => Closing(d)'

Phases == {"idle", "acquiring", "open", "closed"}

LEMMA SessionFacts ==
  /\ \A d \in Sessions : d[1] \in Players /\ d = <<d[1], d[2]>> /\ d[2] \in 1 .. MaxLoads
                         /\ Home[d] = ServerOf[d[1]] /\ Home[d] \in Servers
  /\ NoOne \notin Sessions /\ NoOne \notin Players
BY PlayersAssumption DEF Sessions, Home

LEMMA OneDocument ==
  ASSUME DocInv, NEW d \in Sessions,
         phase' \in [Sessions -> Phases], queue' \in [Sessions -> Seq(SD!Ops)],
         request' = [e \in Sessions |-> request'[e]],
         \A e \in Sessions \ {d} :
           phase'[e] = phase[e] /\ queue'[e] = queue[e] /\ request'[e] = request[e],
         Plain(request'[d]), InPhase(d)', SD!Live(d)' => SD!Live(d),
         phase'[d] = phase[d] \/ (phase[d] = "open" /\ phase'[d] = "closed"),
         Closing(d) => Closing(d)'
  PROVE  DocInv' /\ Calm
<1>1. \A e \in Sessions \ {d} :
        /\ Plain(request'[e]) /\ InPhase(e)'
        /\ SD!Live(e)' => SD!Live(e)
        /\ Closing(e) => Closing(e)'
  BY DEF DocInv, InPhase, SD!Live, Closing
<1>2. DocInv'
  BY <1>1 DEF DocInv, Phases
<1>3. Calm
  BY <1>1 DEF Calm
<1> QED BY <1>2, <1>3

LEMMA SameDocuments ==
  ASSUME DocInv, UNCHANGED <<phase, queue, request>>
  PROVE  DocInv' /\ Calm
BY DEF DocInv, Calm, InPhase, SD!Live, Closing

LEMMA PlainNone == Plain(SD!NoRequest) /\ SD!NoRequest.op = "none"
BY DEF Plain, SD!NoRequest

(* The steps of one document.                                              *)
LEMMA AnswersAreCalm ==
  ASSUME DocInv, NEW d \in Sessions,
         SD!ClaimLands(d) \/ SD!WriteLands(d) \/ SD!WriteCancelled(d)
  PROVE  DocInv' /\ Calm
<1>1. /\ UNCHANGED <<phase, queue>> /\ request' = [e \in Sessions |-> request'[e]]
      /\ \A e \in Sessions \ {d} : request'[e] = request[e]
  BY DEF DocInv, SD!ClaimLands, SD!WriteLands, SD!WriteCancelled
<1>2. Plain(request'[d]) /\ request'[d].op = request[d].op
  <2>1. CASE SD!ClaimLands(d)
    BY <2>1 DEF DocInv, Plain, SD!ClaimLands
  <2>2. CASE SD!WriteLands(d) \/ SD!WriteCancelled(d)
    BY <2>2 DEF DocInv, Plain, SD!WriteLands, SD!WriteCancelled
  <2> QED BY <2>1, <2>2
<1>3. InPhase(d)' /\ (SD!Live(d)' => SD!Live(d)) /\ (Closing(d) => Closing(d)')
  BY <1>1, <1>2 DEF DocInv, InPhase, SD!Live, Closing
<1> QED BY <1>1, <1>2, <1>3, OneDocument DEF DocInv, Phases

LEMMA EndsAreCalm ==
  ASSUME DocInv, NEW d \in Sessions,
         \/ SD!WriteAnswered(d) \/ SD!WriteRefused(d)
         \/ SD!GiveUp(d) /\ queue' = queue /\ phase[d] # "acquiring"
  PROVE  DocInv' /\ Calm
<1>1. /\ queue' = queue /\ request' = [request EXCEPT ![d] = SD!NoRequest]
      /\ request' = [e \in Sessions |-> request'[e]]
  BY DEF DocInv, SD!WriteAnswered, SD!WriteRefused, SD!GiveUp
<1>2. phase' = phase \/ (phase' = [phase EXCEPT ![d] = "closed"] /\ request[d].op \in SD!Ops)
  BY DEF SD!WriteAnswered, SD!WriteRefused, SD!GiveUp, SD!Replied
<1>3. phase' \in [Sessions -> Phases] /\ (phase'[d] = phase[d] \/ (phase[d] = "open" /\ phase'[d] = "closed"))
      /\ \A e \in Sessions \ {d} : phase'[e] = phase[e]
  BY <1>2 DEF DocInv, Phases, InPhase
<1>4. request'[d] = SD!NoRequest /\ phase[d] # "acquiring"
      /\ \A e \in Sessions \ {d} : request'[e] = request[e]
  <2>1. phase[d] # "acquiring"
    BY DEF SD!WriteAnswered, SD!WriteRefused, SD!Replied, DocInv, InPhase, SD!Ops
  <2> QED BY <1>1, <2>1 DEF DocInv
<1>5. Plain(request'[d]) /\ InPhase(d)' /\ (SD!Live(d)' => SD!Live(d)) /\ (Closing(d) => Closing(d)')
  BY <1>1, <1>3, <1>4, PlainNone DEF InPhase, SD!Live, Closing, SD!Ops
<1> QED BY <1>1, <1>3, <1>4, <1>5, OneDocument DEF DocInv

LEMMA RetryIsCalm ==
  ASSUME DocInv, NEW d \in Sessions, SD!AttemptFails(d), ~SD!GiveUp(d)
  PROVE  DocInv' /\ Calm
<1>1. UNCHANGED <<phase, queue>> /\ SD!InFlight(d)
      /\ request' = [request EXCEPT ![d] =
             [SD!NoRequest EXCEPT !.op = request[d].op, !.attempt = request[d].attempt + 1,
                               !.first = request[d].first,
                               !.value = IF SD!Writing(d) THEN request[d].value ELSE Default,
                               !.age = IF SD!Writing(d) THEN request[d].age ELSE 0]]
  BY DEF SD!AttemptFails
<1>2. request' = [e \in Sessions |-> request'[e]]
      /\ \A e \in Sessions \ {d} : request'[e] = request[e]
  BY <1>1 DEF DocInv
<1>3. Plain(request'[d]) /\ request'[d].op = request[d].op
  BY <1>1, PlainNone DEF DocInv, Plain
<1>4. InPhase(d)' /\ (SD!Live(d)' => SD!Live(d)) /\ (Closing(d) => Closing(d)')
  BY <1>1, <1>3 DEF DocInv, InPhase, SD!Live, Closing
<1> QED BY <1>1, <1>2, <1>3, <1>4, OneDocument DEF DocInv, Phases

LEMMA QueuedIsCalm ==
  ASSUME DocInv, NEW d \in Sessions, NEW op \in SD!Ops, UNCHANGED <<phase, request>>,
         queue' = [queue EXCEPT ![d] = Append(@, op)]
  PROVE  DocInv' /\ Calm /\ (phase[d] = "open" /\ op = "release" => Closing(d)')
<1>1. queue[d] \in Seq(SD!Ops) /\ queue'[d] = Append(queue[d], op)
      /\ queue' \in [Sessions -> Seq(SD!Ops)]
  <2>1. queue[d] \in Seq(SD!Ops)
    BY DEF DocInv
  <2>2. Append(queue[d], op) \in Seq(SD!Ops)
    BY <2>1, AppendProperties
  <2> QED BY <2>1, <2>2 DEF DocInv
<1>2. /\ \A i \in DOMAIN queue[d] : i \in DOMAIN queue'[d] /\ queue'[d][i] = queue[d][i]
      /\ \E i \in DOMAIN queue'[d] : queue'[d][i] = op
  <2> DEFINE old == queue[d]
             new == queue'[d]
  <2>1. old \in Seq(SD!Ops) /\ new = Append(old, op)
    BY <1>1
  <2> HIDE DEF old, new
  <2>2. /\ \A i \in DOMAIN old : i \in DOMAIN new /\ new[i] = old[i]
        /\ Len(old) + 1 \in DOMAIN new /\ new[Len(old) + 1] = op
    BY <2>1, AppendProperties, LenProperties
  <2> QED BY <2>2 DEF old, new
<1>3. InPhase(d)' /\ Plain(request'[d]) /\ (SD!Live(d)' => SD!Live(d)) /\ (Closing(d) => Closing(d)')
  BY <1>2 DEF DocInv, InPhase, SD!Live, Closing
<1>4. phase[d] = "open" /\ op = "release" => Closing(d)'
  BY <1>2 DEF Closing
<1>5. \A e \in Sessions \ {d} : queue'[e] = queue[e]
  BY DEF DocInv
<1> QED BY <1>1, <1>3, <1>4, <1>5, OneDocument DEF DocInv, Phases

LEMMA WorkIsCalm ==
  ASSUME DocInv, NEW d \in Sessions, SD!RunWork(d)
  PROVE  DocInv' /\ Calm
<1>1. PICK op \in SD!Ops : queue[d] # << >> /\ Head(queue[d]) = op /\ SD!Dequeue(d)
                          /\ (op = "release" => phase[d] # "open" \/ phase'[d] = "closed")
  BY DEF SD!RunWork, SD!RunClosed, SD!FlushNothing, SD!Flush, SD!RunRelease, SD!Ready, SD!Ops, DocInv
<1>2. queue[d] \in Seq(SD!Ops) /\ queue'[d] = Tail(queue[d]) /\ queue' \in [Sessions -> Seq(SD!Ops)]
      /\ \A e \in Sessions \ {d} : queue'[e] = queue[e]
  <2>1. queue[d] \in Seq(SD!Ops)
    BY DEF DocInv
  <2>2. Tail(queue[d]) \in Seq(SD!Ops)
    BY <1>1, <2>1, HeadTailProperties
  <2> QED BY <1>1, <2>1, <2>2 DEF DocInv, SD!Dequeue
<1>3. \A i \in DOMAIN queue[d] : queue[d][i] # op =>
        \E j \in DOMAIN queue'[d] : queue'[d][j] = queue[d][i]
  <2> DEFINE old == queue[d]
             new == queue'[d]
  <2>1. old \in Seq(SD!Ops) /\ old # << >> /\ new = Tail(old) /\ Head(old) = op
    BY <1>1, <1>2
  <2> HIDE DEF old, new
  <2> SUFFICES ASSUME NEW i \in DOMAIN old, old[i] # op
               PROVE  \E j \in DOMAIN new : new[j] = old[i]
    BY DEF old, new
  <2>2. i \in 1 .. Len(old) /\ i # 1 /\ Len(old) \in Nat
    BY <2>1, HeadTailProperties, LenProperties
  <2>3. i - 1 \in DOMAIN new /\ new[i - 1] = old[i]
    BY <2>1, <2>2, HeadTailProperties, LenProperties
  <2> QED BY <2>3
<1>4. /\ phase' = phase \/ (phase[d] = "open" /\ phase' = [phase EXCEPT ![d] = "closed"])
      /\ request' = request \/ (phase[d] = "open" /\ \E o \in SD!Ops : SD!Send(d, o))
  BY DEF SD!RunWork, SD!RunClosed, SD!FlushNothing, SD!Flush, SD!RunRelease, SD!Ops
<1>5. phase' \in [Sessions -> Phases] /\ (phase'[d] = phase[d] \/ (phase[d] = "open" /\ phase'[d] = "closed"))
      /\ \A e \in Sessions \ {d} : phase'[e] = phase[e]
  BY <1>4 DEF DocInv, Phases
<1>6. /\ request' = [e \in Sessions |-> request'[e]] /\ Plain(request'[d])
      /\ \A e \in Sessions \ {d} : request'[e] = request[e]
      /\ request'[d].op = request[d].op \/ (phase[d] = "open" /\ request'[d].op \in SD!Ops)
  <2>1. PICK r : (r = request'[d] /\ request' = [request EXCEPT ![d] = r] /\ Plain(r)
                  /\ (r.op = request[d].op \/ (phase[d] = "open" /\ r.op \in SD!Ops)))
    <3>1. CASE request' = request
      BY <3>1 DEF DocInv
    <3>2. ASSUME phase[d] = "open", NEW o \in SD!Ops, SD!Send(d, o)
          PROVE  LET r == request'[d] IN
                 /\ request' = [request EXCEPT ![d] = r] /\ Plain(r)
                 /\ phase[d] = "open" /\ r.op \in SD!Ops
      <4>1. PICK r : r = [SD!NoRequest EXCEPT !.op = o, !.attempt = 1, !.value = value[d]]
        OBVIOUS
      <4>2. request' = [request EXCEPT ![d] = r]
        BY <3>2, <4>1 DEF SD!Send
      <4>3. Plain(r) /\ r.op = o
        BY <4>1, PlainNone DEF Plain
      <4> QED BY <3>2, <4>2, <4>3 DEF DocInv
    <3> QED BY <1>4, <3>1, <3>2
  <2> QED BY <2>1 DEF DocInv
<1>7. InPhase(d)' /\ (SD!Live(d)' => SD!Live(d))
  BY <1>5, <1>6 DEF DocInv, InPhase, SD!Live, SD!Ops
<1>8. Closing(d) => Closing(d)'
  BY <1>1, <1>3, <1>5 DEF Closing
<1> QED BY <1>2, <1>5, <1>6, <1>7, <1>8, OneDocument

LEMMA TickIsCalm ==
  ASSUME DocInv, SD!Tick
  PROVE  DocInv' /\ Calm
<1>1. UNCHANGED <<phase, queue>> /\ request' = [e \in Sessions |-> request'[e]]
  BY DEF SD!Tick
<1>2. ASSUME NEW d \in Sessions PROVE Plain(request'[d]) /\ request'[d].op = request[d].op
  BY DEF SD!Tick, DocInv, Plain
<1>3. DocInv'
  BY <1>1, <1>2 DEF DocInv, InPhase
<1> QED BY <1>1, <1>2, <1>3 DEF Calm, SD!Live, Closing

(* Steps that are not calm: a claim, one that ends without the lock, an    *)
(* opening, a crash.                                                       *)
OthersStay(d) ==
  \A e \in Sessions \ {d} :
    phase'[e] = phase[e] /\ (SD!Live(e)' <=> SD!Live(e)) /\ (Closing(e) => Closing(e)')

LEMMA UncalmDocument ==
  ASSUME DocInv, NEW d \in Sessions, NEW ph \in Phases, NEW r,
         phase' = [phase EXCEPT ![d] = ph], queue' = queue,
         request' = [request EXCEPT ![d] = r], Plain(r),
         r.op \in {"none", "acquire"}, r.op = "acquire" <=> ph = "acquiring"
  PROVE  DocInv' /\ OthersStay(d) /\ phase'[d] = ph /\ request'[d] = r
<1>1. phase' \in [Sessions -> Phases] /\ request' = [e \in Sessions |-> request'[e]]
      /\ phase'[d] = ph /\ request'[d] = r
  BY DEF DocInv, Phases
<1>2. \A e \in Sessions \ {d} : phase'[e] = phase[e] /\ request'[e] = request[e]
  BY DEF DocInv
<1>3. \A e \in Sessions : Plain(request'[e]) /\ InPhase(e)'
  <2>1. Plain(request'[d]) /\ InPhase(d)'
    BY <1>1 DEF InPhase, SD!Ops
  <2>2. \A e \in Sessions \ {d} : Plain(request'[e]) /\ InPhase(e)'
    BY <1>2 DEF InPhase, DocInv
  <2> QED BY <2>1, <2>2
<1>4. OthersStay(d)
  BY <1>2 DEF OthersStay, SD!Live, Closing
<1> QED BY <1>1, <1>3, <1>4 DEF DocInv, Phases

LEMMA ClaimStarts ==
  ASSUME DocInv, NEW d \in Sessions, SD!StartAcquire(d)
  PROVE  DocInv' /\ OthersStay(d) /\ phase[d] = "idle" /\ phase'[d] = "acquiring"
<1>1. PICK r : r = [SD!NoRequest EXCEPT !.op = "acquire", !.attempt = 1]
  OBVIOUS
<1>2. Plain(r) /\ r.op = "acquire"
  BY <1>1, PlainNone DEF Plain
<1>3. /\ phase[d] = "idle" /\ phase' = [phase EXCEPT ![d] = "acquiring"]
      /\ queue' = queue /\ request' = [request EXCEPT ![d] = r]
  BY <1>1 DEF SD!StartAcquire
<1> QED BY <1>2, <1>3, UncalmDocument DEF Phases

LEMMA ClaimEnds ==
  ASSUME DocInv, NEW d \in Sessions, SD!GiveUp(d), queue' = queue, phase[d] = "acquiring"
  PROVE  DocInv' /\ OthersStay(d) /\ phase'[d] = "idle" /\ ~SD!Live(d)'
<1>1. phase' = [phase EXCEPT ![d] = "idle"] /\ request' = [request EXCEPT ![d] = SD!NoRequest]
  BY DEF SD!GiveUp
<1>2. DocInv' /\ OthersStay(d) /\ phase'[d] = "idle" /\ request'[d] = SD!NoRequest
  BY <1>1, PlainNone, UncalmDocument DEF Phases
<1> QED BY <1>2, PlainNone DEF SD!Live

LEMMA ClaimOpens ==
  ASSUME DocInv, NEW d \in Sessions, SD!Open(d)
  PROVE  DocInv' /\ OthersStay(d) /\ phase[d] = "acquiring" /\ phase'[d] = "open"
<1>1. phase' = [phase EXCEPT ![d] = "open"] /\ request' = [request EXCEPT ![d] = SD!NoRequest]
      /\ queue' = queue /\ request[d].op = "acquire"
  BY DEF SD!Open, SD!Replied
<1>2. DocInv' /\ OthersStay(d) /\ phase'[d] = "open"
  BY <1>1, PlainNone, UncalmDocument DEF Phases
<1> QED BY <1>1, <1>2 DEF DocInv, InPhase

LEMMA CrashEnds ==
  ASSUME DocInv, NEW s \in Servers, SD!Crash(s)
  PROVE  /\ DocInv'
         /\ \A d \in Sessions :
              IF Home[d] = s THEN phase'[d] = "closed" /\ ~SD!Live(d)'
              ELSE phase'[d] = phase[d] /\ (SD!Live(d)' <=> SD!Live(d)) /\ (Closing(d) => Closing(d)')
<1>1. /\ phase' = [d \in Sessions |-> IF Home[d] = s THEN "closed" ELSE phase[d]]
      /\ queue' = [d \in Sessions |-> IF Home[d] = s THEN << >> ELSE queue[d]]
      /\ request' = [d \in Sessions |-> IF Home[d] = s THEN SD!NoRequest ELSE request[d]]
  BY DEF SD!Crash
<1>2. << >> \in Seq(SD!Ops)
  OBVIOUS
<1>3. phase' \in [Sessions -> Phases] /\ queue' \in [Sessions -> Seq(SD!Ops)]
  BY <1>1, <1>2 DEF DocInv, Phases
<1>4. ASSUME NEW d \in Sessions, Home[d] = s
      PROVE  /\ phase'[d] = "closed" /\ ~SD!Live(d)'
             /\ Plain(request'[d]) /\ InPhase(d)'
  BY <1>1, <1>4, PlainNone DEF SD!Live, InPhase, SD!Ops
<1>5. ASSUME NEW d \in Sessions, Home[d] # s
      PROVE  /\ phase'[d] = phase[d] /\ (SD!Live(d)' <=> SD!Live(d)) /\ (Closing(d) => Closing(d)')
             /\ Plain(request'[d]) /\ InPhase(d)'
  BY <1>1, <1>5 DEF SD!Live, InPhase, Closing, DocInv
<1>6. request' = [d \in Sessions |-> request'[d]]
  BY <1>1
<1> QED BY <1>3, <1>4, <1>5, <1>6 DEF DocInv, Phases

-----------------------------------------------------------------------------
(* What leaves the maps alone.                                             *)

LEMMA LineFrame ==
  ASSUME NEW s \in Servers, SoundLine(s), holders[s] # NoOne => ServerOf[holders[s]] = s,
         holders[s] \in Players \cup {NoOne},
         \A p \in Players : ServerOf[p] = s =>
           /\ loading'[p].state = loading[p].state
           /\ loading[p].state = "waiting" => loading'[p].on = loading[p].on
           /\ after'[p] = after[p] /\ documents'[p] = documents[p] /\ loads'[p] = loads[p],
         holders'[s] = holders[s], releasing'[s] = releasing[s], LiveOn(s)' \subseteq LiveOn(s)
  PROVE  SoundLine(s)'
<1>1. PICK c \in Seq(Players) : Line(s, c) /\ Front(s, c)
  BY DEF SoundLine
<1>2. \A i \in DOMAIN c : c[i] \in Players /\ ServerOf[c[i]] = s
  BY <1>1, LenProperties DEF Line
<1>3. \A p \in Players : ServerOf[p] = s =>
        /\ Loading(p)' <=> Loading(p)
        /\ Pending(p)' <=> Pending(p)
        /\ \A ref : Waits(p, ref)' <=> Waits(p, ref)
        /\ Session(p)' = Session(p)
  BY DEF Loading, Pending, Waits, Session
<1>4. Line(s, c)'
  <2>1. \A p \in Players : (\E i \in DOMAIN c : c[i] = p) <=> Pending(p)' /\ ServerOf[p] = s
    BY <1>1, <1>3 DEF Line
  <2>2. \A i \in DOMAIN c : i > 1 => Waits(c[i], <<"load", c[i - 1], 1>>)'
    BY <1>1, <1>2, <1>3 DEF Line
  <2>3. c # << >> => LastIs(s, c[Len(c)])'
    <3>1. c # << >> => Len(c) \in DOMAIN c
      BY LenProperties, EmptySeq
    <3> QED BY <1>1, <1>2, <3>1 DEF Line, LastIs
  <2>4. \A i \in DOMAIN c : i < Len(c) => after'[c[i]] > 0
    BY <1>1, <1>2 DEF Line
  <2> QED BY <1>1, <2>1, <2>2, <2>3, <2>4 DEF Line
<1>5. Front(s, c)'
  <2>1. CASE c = << >>
    BY <1>1, <2>1 DEF Front, RestIs
  <2>2. CASE c # << >>
    <3>1. 1 \in DOMAIN c
      BY <2>2, LenProperties, EmptySeq
    <3> QED BY <1>1, <1>2, <1>3, <2>2, <3>1 DEF Front, FirstIs
  <2> QED BY <2>1, <2>2
<1> QED BY <1>4, <1>5 DEF SoundLine

LEMMA CalmLive == \A s \in Servers : Calm => LiveOn(s)' \subseteq LiveOn(s)
BY DEF Calm, LiveOn

LEMMA MapFrame ==
  ASSUME IInv, DocInv', Calm, failures' \subseteq Players, released' \subseteq Players,
         UNCHANGED <<documents, loading, holders, releasing, after, loads>>
  PROVE  IInv'
<1>1. TypeOK'
  BY DEF IInv, TypeOK
<1>2. LineInv'
  BY LineFrame, CalmLive DEF IInv, LineInv, RefInv, TypeOK
<1>3. RefInv'
  BY DEF IInv, RefInv, Awaited, Calm
<1>4. MapInv'
  BY DEF IInv, MapInv, Loading, Pending, Calm, TypeOK
<1>5. Orphanless'
  BY DEF IInv, Orphanless, Calm, DocInv
<1> QED BY <1>1, <1>2, <1>3, <1>4, <1>5 DEF IInv

LEMMA StillMaps ==
  ASSUME IInv, UNCHANGED mapVars
  PROVE  /\ failures' \subseteq Players /\ released' \subseteq Players
         /\ UNCHANGED <<documents, loading, holders, releasing, after, loads>>
BY DEF IInv, TypeOK, mapVars

LEMMA RefFacts ==
  /\ \A p, q, k, l : <<"load", p, k>> = <<"load", q, l>> => p = q /\ k = l
  /\ \A p, k, d : <<"load", p, k>> # <<"doc", d>> /\ <<"load", p, k>> # NoRef
  /\ \A d, e : <<"doc", d>> = <<"doc", e>> => d = e
  /\ \A d : <<"doc", d>> # NoRef /\ <<"doc", d>>[1] = "doc" /\ <<"doc", d>>[2] = d
  /\ \A p, k : <<"load", p, k>>[1] = "load" /\ <<"load", p, k>>[2] = p
  /\ NoRef[1] = "none"
BY DEF NoRef

LEMMA RefTypes ==
  /\ \A ref \in Refs :
       \/ ref = NoRef
       \/ \E p \in Players, k \in 1 .. 2 : ref = <<"load", p, k>>
       \/ \E d \in Sessions : ref = <<"doc", d>>
  /\ NoRef \in Refs
  /\ \A p \in Players, k \in 1 .. 2 : <<"load", p, k>> \in Refs
  /\ \A d \in Sessions : <<"doc", d>> \in Refs
BY DEF Refs

-----------------------------------------------------------------------------
(* Steps no map follows.                                                   *)

LEMMA QuietSteps ==
  ASSUME DocInv, NEW d \in Sessions,
         \/ SD!RunWork(d) \/ RecordStep(d) \/ SD!HeartbeatFires(d)
         \/ SD!Save(d) \/ SD!Release(d) \/ \E v \in Values : SD!Stage(d, v)
  PROVE  DocInv' /\ Calm
<1>1. CASE SD!RunWork(d)
  BY <1>1, WorkIsCalm
<1>2. CASE SD!ClaimLands(d) \/ SD!WriteLands(d) \/ SD!WriteCancelled(d)
  BY <1>2, AnswersAreCalm
<1>3. CASE SD!WriteAnswered(d) \/ SD!WriteRefused(d)
  BY <1>3, EndsAreCalm
<1>4. CASE SD!HeartbeatFires(d)
  <2>1. UNCHANGED <<phase, request>> /\ queue' = [queue EXCEPT ![d] = Append(@, "heartbeat")]
    BY <1>4 DEF SD!HeartbeatFires
  <2>2. "heartbeat" \in SD!Ops
    BY DEF SD!Ops
  <2> QED BY <2>1, <2>2, QueuedIsCalm
<1>5. ASSUME NEW op \in SD!Ops, SD!Enqueue(d, op) PROVE DocInv' /\ Calm
  <2>1. UNCHANGED <<phase, request>> /\ queue' = [queue EXCEPT ![d] = Append(@, op)]
    BY <1>5 DEF SD!Enqueue
  <2> QED BY <2>1, QueuedIsCalm
<1>6. CASE \E v \in Values : SD!Stage(d, v)
  BY <1>6, SameDocuments DEF SD!Stage
<1> QED BY <1>1, <1>2, <1>3, <1>4, <1>5, <1>6 DEF RecordStep, SD!Save, SD!Release, SD!Ops

(* What ends a document that has a release queued.                         *)
LEMMA ReleaseCloses ==
  ASSUME DocInv, NEW d \in Sessions, SD!Release(d)
  PROVE  DocInv' /\ Calm /\ (phase[d] \in {"open", "closed"} => Closing(d)')
<1>1. UNCHANGED <<phase, request>> /\ queue' = [queue EXCEPT ![d] = Append(@, "release")]
  BY DEF SD!Release, SD!Enqueue
<1>2. "release" \in SD!Ops
  BY DEF SD!Ops
<1>3. DocInv' /\ Calm /\ (phase[d] = "open" => Closing(d)')
  BY <1>1, <1>2, QueuedIsCalm
<1> QED BY <1>1, <1>3 DEF Closing

-----------------------------------------------------------------------------
(* The first of a line.                                                    *)

LEMMA FirstOfLine ==
  ASSUME NEW s \in Servers, NEW c \in Seq(Players), Line(s, c),
         NEW p \in Players, ServerOf[p] = s, Pending(p),
         loading[p].state # "waiting" \/ loading[p].on[1] # "load"
  PROVE  /\ c # << >> /\ c[1] = p /\ Len(c) \in Nat \ {0} /\ DOMAIN c = 1 .. Len(c)
         /\ \A i \in DOMAIN c : i # 1 => c[i] # p
<1>1. PICK i \in DOMAIN c : c[i] = p
  BY DEF Line
<1>2. DOMAIN c = 1 .. Len(c) /\ Len(c) \in Nat
  BY LenProperties
<1>3. i = 1
  BY <1>1, <1>2, RefFacts DEF Line, Waits
<1>4. c # << >> /\ Len(c) # 0
  BY <1>1, <1>2
<1>5. \A j \in DOMAIN c : j # 1 => c[j] # p
  BY <1>1, <1>2, <1>3, <1>4 DEF Line
<1> QED BY <1>1, <1>2, <1>3, <1>4, <1>5

(* A claim in flight is the load's of its player.                          *)
LEMMA ClaimsAreLoads ==
  ASSUME IInv, NEW d \in Sessions, phase[d] = "acquiring"
  PROVE  loading[d[1]].state = "acquiring" /\ d = Session(d[1])
<1> DEFINE s == Home[d]
<1>1. s \in Servers /\ d \in LiveOn(s) /\ d[1] \in Players
  BY SessionFacts DEF LiveOn, SD!Live
<1>2. PICK c \in Seq(Players) : Line(s, c) /\ Front(s, c)
  BY <1>1 DEF IInv, LineInv, SoundLine
<1>3. ~Closing(d) /\ ~Awaited(d)
  BY DEF IInv, RefInv, Closing
<1>4. \A p \in Players : documents[p] # d
  BY SessionFacts DEF IInv, MapInv
<1>5. c # << >>
  <2>1. releasing[s] # <<"doc", d>>
    BY <1>1, <1>3 DEF Awaited
  <2>2. holders[s] # NoOne => holders[s] \in Players
    BY <1>1 DEF IInv, TypeOK
  <2> QED BY <1>1, <1>2, <1>4, <2>1, <2>2 DEF Front, RestIs
<1>6. c[1] \in Players
  BY <1>5, LenProperties, EmptySeq
<1>7. loading[c[1]].state = "acquiring" /\ d = Session(c[1])
  <2>1. FirstIs(s, c[1])
    BY <1>2, <1>5 DEF Front
  <2>2. loading[c[1]].state \in {"none", "waiting", "acquiring", "backoff"}
    BY <1>6 DEF IInv, TypeOK
  <2>3. loading[c[1]].on # <<"doc", d>>
    BY <1>3, <1>6 DEF Awaited
  <2> QED BY <1>1, <1>4, <1>6, <2>1, <2>2, <2>3 DEF FirstIs, Loading
<1> QED BY <1>7 DEF Session

(* player-store.ts:356-363: when a load claims, no session of its server   *)
(* can still write.                                                        *)
LEMMA ClaimIsAlone ==
  ASSUME IInv, NEW p \in Players,
         \/ loading[p].state = "waiting" /\ loading[p].on = NoRef
         \/ loading[p].state = "backoff"
  PROVE  Session(p) \in Sessions /\ LiveOn(ServerOf[p]) = {} /\ SD!SoleOnServer(Session(p))
<1> DEFINE s == ServerOf[p]
<1>1. s \in Servers /\ Loading(p) /\ Session(p) \in Sessions /\ Home[Session(p)] = s
  BY PlayersAssumption DEF Loading, Session, Sessions, Home, IInv, MapInv, TypeOK
<1>2. PICK c \in Seq(Players) : Line(s, c) /\ Front(s, c)
  BY <1>1 DEF IInv, LineInv, SoundLine
<1>3. c # << >> /\ c[1] = p
  BY <1>1, <1>2, FirstOfLine, RefFacts DEF Pending
<1>4. LiveOn(s) = {}
  BY <1>2, <1>3, RefFacts DEF Front, FirstIs
<1> QED BY <1>1, <1>4 DEF SD!SoleOnServer, LiveOn

-----------------------------------------------------------------------------
(* A load claims.                                                          *)

LEMMA ClaimKeeps ==
  ASSUME IInv, NEW p \in Players,
         \/ loading[p].state = "waiting" /\ loading[p].on = NoRef
         \/ loading[p].state = "backoff",
         SD!StartAcquire(Session(p)),
         loading' = [loading EXCEPT ![p].state = "acquiring"],
         UNCHANGED <<documents, failures, released, holders, releasing, after, loads>>
  PROVE  IInv'
<1> DEFINE s == ServerOf[p]
           d == Session(p)
<1>1. d \in Sessions /\ d[1] = p /\ Home[d] = s /\ LiveOn(s) = {} /\ s \in Servers /\ Loading(p)
  BY ClaimIsAlone, PlayersAssumption DEF Session, Home, Loading
<1>2. DocInv' /\ OthersStay(d) /\ phase[d] = "idle" /\ phase'[d] = "acquiring"
  BY <1>1, ClaimStarts DEF IInv
<1>3. /\ loading'[p].state = "acquiring" /\ loading'[p].on = loading[p].on
      /\ loading'[p].tries = loading[p].tries
      /\ \A q \in Players : q # p => loading'[q] = loading[q]
      /\ DOMAIN loading' = Players
  BY DEF IInv, TypeOK
<1>4. \A q \in Players : /\ Loading(q)' <=> Loading(q)
                         /\ Pending(q)' <=> Pending(q)
                         /\ loading'[q].on = loading[q].on
  BY <1>1, <1>3 DEF Loading, Pending
<1>5. TypeOK'
  BY <1>3 DEF IInv, TypeOK
<1>6. SoundLine(s)'
  <2>1. PICK c \in Seq(Players) : Line(s, c) /\ Front(s, c)
    BY <1>1 DEF IInv, LineInv, SoundLine
  <2>2. /\ c # << >> /\ c[1] = p /\ DOMAIN c = 1 .. Len(c)
        /\ \A i \in DOMAIN c : i # 1 => c[i] \in Players /\ c[i] # p
    BY <1>1, <2>1, FirstOfLine, RefFacts, LenProperties DEF Pending
  <2>3. Line(s, c)'
    <3>1. \A i \in DOMAIN c : i > 1 => Waits(c[i], <<"load", c[i - 1], 1>>)'
      BY <1>3, <2>1, <2>2 DEF Line, Waits
    <3>2. (c # << >> => LastIs(s, c[Len(c)]))'
      BY <2>1 DEF Line, LastIs
    <3> QED BY <1>4, <2>1, <3>1, <3>2 DEF Line
  <2>4. Front(s, c)'
    <3>1. \A e \in LiveOn(s)' : e = d
      BY <1>1, <1>2 DEF LiveOn, OthersStay
    <3>2. Session(p)' = d
      BY DEF Session
    <3> QED BY <1>3, <1>4, <1>1, <2>2, <3>1, <3>2 DEF Front, FirstIs
  <2> QED BY <2>3, <2>4 DEF SoundLine
<1>7. \A t \in Servers \ {s} : SoundLine(t)'
  <2> SUFFICES ASSUME NEW t \in Servers \ {s} PROVE SoundLine(t)'
    OBVIOUS
  <2>1. LiveOn(t)' \subseteq LiveOn(t)
    BY <1>1, <1>2 DEF LiveOn, OthersStay
  <2> QED BY <1>3, <2>1, LineFrame DEF IInv, LineInv, RefInv, TypeOK
<1>8. RefInv'
  <2>1. \A e \in Sessions : Awaited(e)' => Closing(e)
    BY <1>4 DEF IInv, RefInv, Awaited
  <2>2. ~Closing(d)
    BY <1>2 DEF Closing
  <2>3. \A e \in Sessions : Awaited(e)' => Closing(e)'
    BY <1>2, <2>1, <2>2 DEF OthersStay
  <2> QED BY <2>3 DEF IInv, RefInv
<1>9. MapInv'
  <2>1. \A q \in Players : documents[q] # NoOne => documents[q] \in Sessions \ {d}
    BY <1>2 DEF IInv, MapInv, TypeOK
  <2> QED BY <1>2, <1>4, <2>1 DEF IInv, MapInv, OthersStay
<1>10. Orphanless'
  BY <1>1, <1>2 DEF IInv, Orphanless, OthersStay
<1> QED BY <1>2, <1>5, <1>6, <1>7, <1>8, <1>9, <1>10 DEF IInv, LineInv

(* A load that claims is the first of its line, and its session alone can  *)
(* write.                                                                  *)
LEMMA ClaimantIsFirst ==
  ASSUME IInv, NEW p \in Players, loading[p].state = "acquiring"
  PROVE  /\ Session(p) \in Sessions /\ Session(p)[1] = p /\ Home[Session(p)] = ServerOf[p]
         /\ ServerOf[p] \in Servers
         /\ \A e \in LiveOn(ServerOf[p]) : e = Session(p)
         /\ \E c \in Seq(Players) :
              /\ Line(ServerOf[p], c) /\ Front(ServerOf[p], c)
              /\ c # << >> /\ c[1] = p /\ Len(c) \in Nat \ {0} /\ DOMAIN c = 1 .. Len(c)
              /\ \A i \in DOMAIN c : i # 1 => c[i] \in Players /\ c[i] # p
<1> DEFINE s == ServerOf[p]
<1>1. s \in Servers /\ Pending(p) /\ Session(p) \in Sessions /\ Session(p)[1] = p /\ Home[Session(p)] = s
  BY PlayersAssumption DEF Loading, Pending, Session, Sessions, Home, IInv, MapInv, TypeOK
<1>2. PICK c \in Seq(Players) : Line(s, c) /\ Front(s, c)
  BY <1>1 DEF IInv, LineInv, SoundLine
<1>3. /\ c # << >> /\ c[1] = p /\ Len(c) \in Nat \ {0} /\ DOMAIN c = 1 .. Len(c)
      /\ \A i \in DOMAIN c : i # 1 => c[i] \in Players /\ c[i] # p
  BY <1>1, <1>2, FirstOfLine, LenProperties
<1>4. \A e \in LiveOn(s) : e = Session(p)
  BY <1>2, <1>3 DEF Front, FirstIs
<1> QED BY <1>1, <1>2, <1>3, <1>4

(* A refused load waits for its next attempt.                              *)
LEMMA BackoffKeeps ==
  ASSUME IInv, NEW p \in Players, loading[p].state = "acquiring",
         loading[p].tries < AcquireAttempts,
         loading' = [loading EXCEPT ![p].state = "backoff", ![p].tries = @ + 1],
         NEW d, d = Session(p), phase[d] = "acquiring",
         DocInv', OthersStay(d), phase'[d] = "idle", ~SD!Live(d)',
         UNCHANGED <<documents, failures, released, holders, releasing, after, loads>>
  PROVE  IInv'
<1> DEFINE s == ServerOf[p]
<1>1. /\ d \in Sessions /\ d[1] = p /\ Home[d] = s /\ s \in Servers
      /\ \A e \in LiveOn(s) : e = d
  BY ClaimantIsFirst
<1>2. /\ loading'[p].state = "backoff" /\ loading'[p].on = loading[p].on
      /\ loading'[p].tries = loading[p].tries + 1
      /\ \A q \in Players : q # p => loading'[q] = loading[q]
  BY DEF IInv, TypeOK
<1>3. \A q \in Players : /\ Loading(q)' <=> Loading(q)
                         /\ Pending(q)' <=> Pending(q)
                         /\ loading'[q].on = loading[q].on
  BY <1>2 DEF Loading, Pending
<1>4. TypeOK'
  BY <1>2, PlayersAssumption DEF IInv, TypeOK
<1>5. SoundLine(s)'
  <2>1. PICK c \in Seq(Players) : /\ Line(s, c) /\ Front(s, c)
                                  /\ c # << >> /\ c[1] = p /\ Len(c) \in Nat \ {0} /\ DOMAIN c = 1 .. Len(c)
                                  /\ \A i \in DOMAIN c : i # 1 => c[i] \in Players /\ c[i] # p
    BY ClaimantIsFirst
  <2>2. Line(s, c)'
    <3>1. \A i \in DOMAIN c : i > 1 => Waits(c[i], <<"load", c[i - 1], 1>>)'
      <4>1. \A i \in DOMAIN c : i > 1 => Waits(c[i], <<"load", c[i - 1], 1>>)
        BY <2>1 DEF Line
      <4>2. \A i \in DOMAIN c : i # 1 => loading'[c[i]] = loading[c[i]]
        BY <1>2, <2>1
      <4>3. \A i \in DOMAIN c : i > 1 => i # 1
        BY <2>1
      <4> QED BY <4>1, <4>2, <4>3 DEF Waits
    <3>2. (c # << >> => LastIs(s, c[Len(c)]))'
      BY <2>1 DEF Line, LastIs
    <3> QED BY <1>3, <2>1, <3>1, <3>2 DEF Line
  <2>3. LiveOn(s)' = {}
    BY <1>1 DEF LiveOn, OthersStay
  <2>4. Front(s, c)'
    BY <1>2, <2>1, <2>3 DEF Front, FirstIs, Loading
  <2> QED BY <2>2, <2>4 DEF SoundLine
<1>6. \A t \in Servers \ {s} : SoundLine(t)'
  <2> SUFFICES ASSUME NEW t \in Servers \ {s} PROVE SoundLine(t)'
    OBVIOUS
  <2>1. LiveOn(t)' \subseteq LiveOn(t)
    BY <1>1 DEF LiveOn, OthersStay
  <2> QED BY <1>2, <2>1, LineFrame DEF IInv, LineInv, RefInv, TypeOK
<1>7. RefInv'
  <2>1. \A e \in Sessions : Awaited(e)' => Closing(e)
    BY <1>3, ZenonT(30) DEF IInv, RefInv, Awaited
  <2>2. ~Closing(d)
    BY DEF Closing
  <2>3. \A e \in Sessions : Awaited(e)' => Closing(e)'
    BY <2>1, <2>2 DEF OthersStay
  <2> QED BY <2>3 DEF IInv, RefInv
<1>8. MapInv'
  <2>1. \A q \in Players : documents[q] # NoOne => documents[q] \in Sessions \ {d}
    BY DEF IInv, MapInv, TypeOK
  <2> QED BY <1>3, <2>1 DEF IInv, MapInv, OthersStay
<1>9. Orphanless'
  BY <1>1 DEF IInv, Orphanless, OthersStay
<1> QED BY <1>4, <1>5, <1>6, <1>7, <1>8, <1>9 DEF IInv, LineInv

(* A load that settles, with a document or without.                        *)
LEMMA SettlingKeeps ==
  ASSUME IInv, NEW p \in Players, loading[p].state = "acquiring",
         loading' = [loading EXCEPT ![p] = NotLoading],
         NEW d, d = Session(p), phase[d] = "acquiring", DocInv', OthersStay(d),
         \/ documents' = [documents EXCEPT ![p] = d] /\ phase'[d] = "open"
         \/ documents' = documents /\ phase'[d] = "idle" /\ ~SD!Live(d)',
         failures' \subseteq Players,
         UNCHANGED <<released, holders, releasing, after, loads>>
  PROVE  IInv'
<1> DEFINE s == ServerOf[p]
<1>1. /\ d \in Sessions /\ d[1] = p /\ Home[d] = s /\ s \in Servers
      /\ \A e \in LiveOn(s) : e = d
  BY ClaimantIsFirst
<1>2. /\ loading'[p] = NotLoading /\ Loading(p) /\ ~Loading(p)'
      /\ \A q \in Players : q # p =>
           /\ loading'[q] = loading[q] /\ documents'[q] = documents[q]
           /\ Loading(q)' <=> Loading(q)
           /\ Pending(q)' <=> Pending(q)
      /\ Pending(p)' <=> after[p] > 0
  BY DEF IInv, TypeOK, Loading, Pending, NotLoading
<1>3. TypeOK'
  <2>1. NotLoading \in [state: {"none", "waiting", "acquiring", "backoff"},
                        on: Refs, tries: 0 .. AcquireAttempts]
    BY RefTypes, PlayersAssumption DEF NotLoading
  <2> QED BY <1>1, <2>1 DEF IInv, TypeOK
<1>4. \A e \in LiveOn(s)' : documents'[p] = e
  <2>1. \A e \in LiveOn(s)' : e = d /\ SD!Live(d)'
    BY <1>1 DEF LiveOn, OthersStay
  <2> QED BY <2>1 DEF IInv, TypeOK
<1>5. PICK c \in Seq(Players) : /\ Line(s, c) /\ Front(s, c)
                                /\ c # << >> /\ c[1] = p /\ Len(c) \in Nat \ {0} /\ DOMAIN c = 1 .. Len(c)
                                /\ \A i \in DOMAIN c : i # 1 => c[i] \in Players /\ c[i] # p
  BY ClaimantIsFirst
<1>6. after[p] \in 0 .. 2
  BY DEF IInv, TypeOK
<1>7. after[p] = 0 => Len(c) = 1 /\ holders[s] = p
  BY <1>5 DEF Line, LastIs
<1>8. SoundLine(s)'
  <2>1. CASE after[p] > 0
    <3>1. Line(s, c)'
      <4>1. \A q \in Players : Pending(q)' <=> Pending(q)
        BY <1>2, <2>1 DEF Pending
      <4>2. \A i \in DOMAIN c : i > 1 => Waits(c[i], <<"load", c[i - 1], 1>>)'
        BY <1>2, <1>5 DEF Line, Waits
      <4>3. (c # << >> => LastIs(s, c[Len(c)]))'
        BY <1>5 DEF Line, LastIs
      <4> QED BY <1>5, <4>1, <4>2, <4>3 DEF Line
    <3>2. Front(s, c)'
      BY <1>2, <1>4, <1>5 DEF Front, FirstIs, NotLoading
    <3> QED BY <3>1, <3>2 DEF SoundLine
  <2>2. CASE after[p] = 0
    <3>1. << >> \in Seq(Players) /\ DOMAIN << >> = {}
      OBVIOUS
    <3>2. \A q \in Players : ~(Pending(q)' /\ ServerOf[q] = s)
      BY <1>2, <1>5, <1>7, <2>2 DEF Line
    <3>3. Line(s, << >>)'
      BY <3>1, <3>2 DEF Line
    <3>4. Front(s, << >>)'
      BY <1>4, <1>7, <2>2, PlayersAssumption DEF Front, RestIs
    <3> QED BY <3>1, <3>3, <3>4 DEF SoundLine
  <2> QED BY <1>6, <2>1, <2>2
<1>9. \A t \in Servers \ {s} : SoundLine(t)'
  <2> SUFFICES ASSUME NEW t \in Servers \ {s} PROVE SoundLine(t)'
    OBVIOUS
  <2>1. LiveOn(t)' \subseteq LiveOn(t)
    BY <1>1 DEF LiveOn, OthersStay
  <2> QED BY <1>2, <2>1, LineFrame DEF IInv, LineInv, RefInv, TypeOK
<1>10. RefInv'
  <2>1. \A e \in Sessions : Awaited(e)' => Closing(e)
    <3>1. \A q \in Players, e \in Sessions : loading'[q].on = <<"doc", e>> => loading[q].on = <<"doc", e>>
      BY <1>2, RefFacts DEF NotLoading
    <3> QED BY <3>1 DEF IInv, RefInv, Awaited
  <2>2. ~Closing(d)
    BY DEF Closing
  <2>3. \A e \in Sessions : Awaited(e)' => Closing(e)'
    BY <2>1, <2>2 DEF OthersStay
  <2> QED BY <2>3 DEF IInv, RefInv
<1>11. ASSUME NEW q \in Players, documents[q] # NoOne
       PROVE  documents[q] \in Sessions \ {d}
  <2>1. documents[q] \in Sessions
    BY <1>11 DEF IInv, TypeOK
  <2>2. phase[documents[q]] # phase[d]
    BY <1>11 DEF IInv, MapInv
  <2> QED BY <2>1, <2>2
<1>12. MapInv'
  <2>1. ASSUME NEW q \in Players, q # p, NEW e, e = documents[q], e # NoOne
        PROVE  /\ documents'[q] = e /\ e[1] = q /\ phase'[e] \in {"open", "closed"}
               /\ Loading(q)' => ~SD!Live(e)'
               /\ ~Pending(q)' => holders'[ServerOf[q]] = q
    <3>1. documents'[q] = e /\ e \in Sessions \ {d}
      BY <1>2, <1>11, <2>1
    <3>2. phase'[e] = phase[e] /\ (SD!Live(e)' <=> SD!Live(e))
      BY <3>1 DEF OthersStay
    <3> QED BY <1>2, <2>1, <3>1, <3>2 DEF IInv, MapInv
  <2>2. \A q \in Players : q # p => documents'[q] = documents[q]
    BY <1>2
  <2>3. ASSUME documents'[p] # NoOne
        PROVE  documents'[p][1] = p /\ phase'[documents'[p]] \in {"open", "closed"}
    <3>1. CASE documents' = [documents EXCEPT ![p] = d] /\ phase'[d] = "open"
      BY <1>1, <3>1 DEF IInv, TypeOK
    <3>2. CASE documents' = documents
      <4>1. documents[p] \in Sessions \ {d}
        BY <1>11, <2>3, <3>2
      <4>2. phase'[documents[p]] = phase[documents[p]]
        BY <4>1 DEF OthersStay
      <4> QED BY <2>3, <3>2, <4>2 DEF IInv, MapInv
    <3> QED BY <3>1, <3>2
  <2>4. ~Pending(p)' => holders'[s] = p
    BY <1>2, <1>6, <1>7
  <2>5. ASSUME NEW q \in Players, q # p, documents'[q] # NoOne
        PROVE  /\ documents'[q][1] = q /\ phase'[documents'[q]] \in {"open", "closed"}
               /\ (Loading(q) => ~SD!Live(documents[q]))'
               /\ ~Pending(q)' => holders'[ServerOf[q]] = q
    BY <2>1, <2>2, <2>5
  <2>6. ASSUME NEW q \in Players, q = p, documents'[q] # NoOne
        PROVE  /\ documents'[q][1] = q /\ phase'[documents'[q]] \in {"open", "closed"}
               /\ (Loading(q) => ~SD!Live(documents[q]))'
               /\ ~Pending(q)' => holders'[ServerOf[q]] = q
    BY <1>2, <2>3, <2>4, <2>6
  <2>7. \A q \in Players : Loading(q)' => loads'[q] > 0
    BY <1>2 DEF IInv, MapInv
  <2> QED BY <2>5, <2>6, <2>7 DEF MapInv
<1>13. Orphanless'
  <2> SUFFICES ASSUME NEW e \in Sessions, phase'[e] = "open"
               PROVE  documents'[e[1]] = e \/ Closing(e)'
    BY DEF Orphanless
  <2>1. CASE e = d
    BY <1>1, <2>1 DEF IInv, TypeOK
  <2>2. CASE e # d
    <3>1. phase[e] = "open" /\ SD!Live(e) /\ (Closing(e) => Closing(e)') /\ e[1] \in Players
      BY <2>2, SessionFacts DEF OthersStay, SD!Live
    <3>2. e[1] = p => documents[p] # e
      BY <1>2, <3>1, SessionFacts DEF IInv, MapInv
    <3> QED BY <1>2, <3>1, <3>2 DEF IInv, Orphanless
  <2> QED BY <2>1, <2>2
<1> QED BY <1>3, <1>8, <1>9, <1>10, <1>12, <1>13 DEF IInv, LineInv

-----------------------------------------------------------------------------
(* Promises settle.                                                        *)

(* A load waits for loads of its own server only.                          *)
LEMMA WaitsAtHome ==
  ASSUME IInv, NEW q \in Players, NEW r \in Players, NEW k, Waits(q, <<"load", r, k>>)
  PROVE  ServerOf[r] = ServerOf[q]
<1> DEFINE s == ServerOf[q]
<1>1. s \in Servers /\ Pending(q) /\ loading[q].on = <<"load", r, k>>
  BY PlayersAssumption DEF Waits, Pending, Loading
<1>2. PICK c \in Seq(Players) : Line(s, c) /\ Front(s, c)
  BY <1>1 DEF IInv, LineInv, SoundLine
<1>3. PICK i \in DOMAIN c : c[i] = q
  BY <1>1, <1>2 DEF Line
<1>4. DOMAIN c = 1 .. Len(c) /\ Len(c) \in Nat /\ \A j \in DOMAIN c : c[j] \in Players
  BY LenProperties
<1>5. i # 1
  <2>1. SUFFICES ASSUME i = 1 PROVE FALSE
    OBVIOUS
  <2>2. c # << >> /\ c[1] = q
    BY <1>3, <2>1
  <2> QED BY <1>2, <2>2, <1>1, RefFacts DEF Front, FirstIs, Waits
<1>6. Waits(q, <<"load", c[i - 1], 1>>) /\ i - 1 \in DOMAIN c
  BY <1>2, <1>3, <1>4, <1>5 DEF Line
<1>7. r = c[i - 1]
  BY <1>1, <1>6, RefFacts DEF Waits
<1>8. \A p \in Players : (\E j \in DOMAIN c : c[j] = p) => ServerOf[p] = s
  BY <1>2 DEF Line
<1> QED BY <1>6, <1>7, <1>8

(* The release of d has written: whoever waited for it waits no more.      *)
LEMMA ReleaseDoneKeeps ==
  ASSUME IInv, NEW d \in Sessions, ReleaseDone(d)
  PROVE  IInv'
<1> DEFINE settled(ref) == IF ref = <<"doc", d>> THEN NoRef ELSE ref
<1>1. /\ UNCHANGED docVars /\ UNCHANGED <<documents, failures, released, holders, after, loads>>
      /\ releasing' = [s \in Servers |-> settled(releasing[s])]
      /\ loading' = [p \in Players |-> [loading[p] EXCEPT !.on = settled(@)]]
  BY DEF ReleaseDone, Follow
<1>2. \A p \in Players : /\ loading'[p].state = loading[p].state
                         /\ loading'[p].tries = loading[p].tries
                         /\ loading'[p].on = settled(loading[p].on)
  BY <1>1 DEF IInv, TypeOK
<1>3. \A s \in Servers : releasing'[s] = settled(releasing[s])
  BY <1>1
<1>4. DocInv' /\ Calm
  BY <1>1, SameDocuments DEF IInv, docVars
<1>5. ~SD!Live(d)
  <2>1. Closing(d) /\ queue[d] = << >> /\ request[d].op = "none"
    BY DEF ReleaseDone, Drained, IInv, RefInv, SD!InFlight
  <2> QED BY <2>1 DEF Closing, SD!Live
<1>6. \A s \in Servers : /\ LiveOn(s)' \subseteq LiveOn(s)
                         /\ \A e \in LiveOn(s)' : e # d /\ settled(<<"doc", e>>) = <<"doc", e>>
  BY <1>4, <1>5, RefFacts DEF Calm, LiveOn
<1>7. \A p, k : settled(<<"load", p, k>>) = <<"load", p, k>>
  BY RefFacts
<1>8. \A ref : settled(ref)[1] = "load" => settled(ref) = ref
  BY RefFacts
<1>9. settled(NoRef) = NoRef
  OBVIOUS
<1>10. \A p \in Players : (Loading(p)' <=> Loading(p)) /\ (Pending(p)' <=> Pending(p))
  BY <1>1, <1>2 DEF Loading, Pending
<1>11. TypeOK'
  <2>1. \A ref \in Refs : settled(ref) \in Refs
    BY RefTypes
  <2> HIDE DEF settled
  <2>2. releasing' \in [Servers -> Refs]
    BY <1>1, <2>1 DEF IInv, TypeOK
  <2>3. loading' \in [Players -> [state: {"none", "waiting", "acquiring", "backoff"},
                                  on: Refs, tries: 0 .. AcquireAttempts]]
    BY <1>1, <2>1 DEF IInv, TypeOK
  <2> QED BY <1>1, <2>2, <2>3 DEF IInv, TypeOK
<1>12. \A e : <<"doc", e>> = <<"doc", d>> \/ settled(<<"doc", e>>) = <<"doc", e>>
  OBVIOUS
<1> HIDE DEF settled
<1>13. ASSUME NEW s \in Servers PROVE SoundLine(s)'
  <2>1. PICK c \in Seq(Players) : Line(s, c) /\ Front(s, c)
    BY DEF IInv, LineInv, SoundLine
  <2>2. DOMAIN c = 1 .. Len(c) /\ Len(c) \in Nat /\ \A j \in DOMAIN c : c[j] \in Players
    BY LenProperties
  <2>3. Line(s, c)'
    <3>1. \A i \in DOMAIN c : i > 1 => Waits(c[i], <<"load", c[i - 1], 1>>)'
      <4>1. \A i \in DOMAIN c : i > 1 => Waits(c[i], <<"load", c[i - 1], 1>>)
        BY <2>1 DEF Line
      <4>2. \A p, r \in Players : Waits(p, <<"load", r, 1>>) => Waits(p, <<"load", r, 1>>)'
        BY <1>2, <1>7 DEF Waits
      <4>3. \A i \in DOMAIN c : i > 1 => c[i] \in Players /\ c[i - 1] \in Players
        BY <2>2
      <4> QED BY <4>1, <4>2, <4>3
    <3>2. (c # << >> => LastIs(s, c[Len(c)]))'
      <4>1. \A p \in Players : LastIs(s, p) => LastIs(s, p)'
        BY <1>1, <1>3, <1>7 DEF LastIs
      <4>2. c # << >> => c[Len(c)] \in Players /\ LastIs(s, c[Len(c)])
        BY <2>1, <2>2, EmptySeq DEF Line
      <4> QED BY <4>1, <4>2
    <3> QED BY <1>1, <1>10, <2>1, <3>1, <3>2 DEF Line
  <2>4. Front(s, c)'
    <3>1. CASE c = << >>
      BY <1>1, <1>3, <1>6, <2>1, <3>1 DEF Front, RestIs
    <3>2. CASE c # << >>
      <4>1. c[1] \in Players /\ FirstIs(s, c[1])
        BY <2>1, <2>2, <3>2, EmptySeq DEF Front
      <4>2. FirstIs(s, c[1])'
        <5>1. Session(c[1])' = Session(c[1])
          BY <1>1 DEF Session
        <5>2. loading'[c[1]].state = "waiting" =>
                loading'[c[1]].on[1] # "load" /\ \A e \in LiveOn(s)' : loading'[c[1]].on = <<"doc", e>>
          BY <1>2, <1>6, <1>8, <4>1 DEF FirstIs
        <5> QED BY <1>1, <1>2, <1>6, <1>10, <4>1, <5>1, <5>2 DEF FirstIs
      <4> QED BY <3>2, <4>2 DEF Front
    <3> QED BY <3>1, <3>2
  <2> QED BY <2>3, <2>4 DEF SoundLine
<1>14. RefInv'
  <2>1. \A s \in Servers, p \in Players, k \in 1 .. 2 :
          releasing'[s] = <<"load", p, k>> => releasing[s] = <<"load", p, k>>
    BY <1>3, <1>8, RefFacts
  <2>2. \A e \in Sessions : Awaited(e)' => Awaited(e)
    <3>1. \A ref, e : settled(ref) = <<"doc", e>> => ref = <<"doc", e>>
      BY RefFacts DEF settled
    <3>2. ASSUME NEW s \in Servers, NEW e \in Sessions, releasing'[s] = <<"doc", e>>
          PROVE  releasing[s] = <<"doc", e>>
      <4>1. settled(releasing[s]) = <<"doc", e>>
        BY <1>3, <3>2
      <4> QED BY <3>1, <4>1
    <3>3. ASSUME NEW p \in Players, NEW e \in Sessions, loading'[p].on = <<"doc", e>>
          PROVE  loading[p].on = <<"doc", e>>
      <4>1. settled(loading[p].on) = <<"doc", e>>
        BY <1>2, <3>3
      <4> QED BY <3>1, <4>1
    <3> QED BY <3>2, <3>3 DEF Awaited
  <2>3. \A e \in Sessions : Awaited(e)' => Closing(e)'
    BY <1>4, <2>2 DEF IInv, RefInv, Calm
  <2> QED BY <1>1, <2>1, <2>3 DEF IInv, RefInv
<1>15. MapInv'
  <2>1. \A p \in Players : documents[p] # NoOne => documents[p] \in Sessions
    BY DEF IInv, TypeOK
  <2> QED BY <1>1, <1>4, <1>10, <2>1 DEF IInv, MapInv, Calm
<1>16. Orphanless'
  BY <1>1, <1>4 DEF IInv, Orphanless, Calm, DocInv
<1> QED BY <1>4, <1>11, <1>13, <1>14, <1>15, <1>16 DEF IInv, LineInv

(* The releases that waited for p's load run: p's turn is over.            *)
LEMMA ReleaseAfterLoadKeeps ==
  ASSUME IInv, NEW p \in Players, ReleaseAfterLoad(p)
  PROVE  IInv'
<1>0. PICK d : d = documents[p]
  OBVIOUS
<1> DEFINE s == ServerOf[p]
           live == d # NoOne /\ SD!Live(d)
           first == IF live THEN <<"doc", d>> ELSE NoRef
           settled(ref) == IF ref = <<"load", p, 1>> THEN first
                           ELSE IF ref[1] = "load" /\ ref[2] = p THEN NoRef
                           ELSE ref
<1>1. /\ UNCHANGED <<failures, released, holders, loads>>
      /\ documents' = [documents EXCEPT ![p] = NoOne]
      /\ after' = [after EXCEPT ![p] = 0]
      /\ releasing' = [t \in Servers |-> settled(releasing[t])]
      /\ loading' = [q \in Players |-> [loading[q] EXCEPT !.on = settled(@)]]
  BY <1>0 DEF ReleaseAfterLoad, Follow
<1>2. live => d \in Sessions /\ d[1] = p /\ phase[d] \in {"open", "closed"}
  BY <1>0 DEF IInv, TypeOK, MapInv
<1>3. DocInv' /\ Calm /\ (live => Closing(d)')
  <2>1. CASE live
    <3>1. SD!Release(d)
      BY <1>0, <2>1, RefFacts DEF ReleaseAfterLoad
    <3> QED BY <1>2, <2>1, <3>1, ReleaseCloses DEF IInv
  <2>2. CASE ~live
    <3>1. UNCHANGED docVars
      BY <1>0, <2>2, RefFacts DEF ReleaseAfterLoad
    <3> QED BY <2>2, <3>1, SameDocuments DEF IInv, docVars
  <2> QED BY <2>1, <2>2
<1>4. s \in Servers /\ ~Loading(p) /\ after[p] > 0 /\ Pending(p) /\ loading[p].state = "none"
  BY PlayersAssumption DEF ReleaseAfterLoad, Loading, Pending
<1>5. PICK c \in Seq(Players) : Line(s, c) /\ Front(s, c)
  BY <1>4 DEF IInv, LineInv, SoundLine
<1>6. /\ c # << >> /\ c[1] = p /\ Len(c) \in Nat \ {0} /\ DOMAIN c = 1 .. Len(c)
      /\ \A i \in DOMAIN c : c[i] \in Players /\ (i # 1 => c[i] # p)
  BY <1>4, <1>5, FirstOfLine, LenProperties
<1>7. \A e \in LiveOn(s) : e = d /\ first = <<"doc", e>>
  <2>1. \A e \in LiveOn(s) : e = d
    BY <1>0, <1>4, <1>5, <1>6 DEF Front, FirstIs
  <2>2. \A e \in LiveOn(s) : e # NoOne /\ SD!Live(e)
    BY SessionFacts DEF LiveOn
  <2> QED BY <2>1, <2>2
<1>8. first = NoRef \/ (live /\ first = <<"doc", d>>)
  OBVIOUS
<1>9. settled(<<"load", p, 1>>) = first
  OBVIOUS
<1>10. \A q, k : q # p => settled(<<"load", q, k>>) = <<"load", q, k>>
  BY RefFacts
<1>11. \A e : settled(<<"doc", e>>) = <<"doc", e>>
  BY RefFacts
<1>12. settled(NoRef) = NoRef
  BY RefFacts
<1>13. \A ref : settled(ref) = ref \/ settled(ref) = NoRef \/ settled(ref) = first
  OBVIOUS
<1>14. \A q, k : settled(<<"load", q, k>>) = <<"load", q, k>> => q # p
  BY <1>8, RefFacts
<1>15. \A ref \in Refs : settled(ref) \in Refs
  BY <1>2, <1>8, <1>13, RefTypes
<1> HIDE DEF settled, first, live
<1>16. \A q \in Players : /\ loading'[q].state = loading[q].state
                          /\ loading'[q].tries = loading[q].tries
                          /\ loading'[q].on = settled(loading[q].on)
                          /\ Loading(q)' <=> Loading(q)
                          /\ Session(q)' = Session(q)
  BY <1>1 DEF IInv, TypeOK, Loading, Session
<1>17. /\ \A t \in Servers : releasing'[t] = settled(releasing[t])
       /\ \A q \in Players : q # p => documents'[q] = documents[q] /\ after'[q] = after[q]
       /\ documents'[p] = NoOne /\ after'[p] = 0
  BY <1>1 DEF IInv, TypeOK
<1>18. ~Pending(p)' /\ \A q \in Players : q # p => (Pending(q)' <=> Pending(q))
  BY <1>4, <1>16, <1>17 DEF Pending
<1>19. TypeOK'
  <2>1. releasing' \in [Servers -> Refs]
    BY <1>1, <1>15 DEF IInv, TypeOK
  <2>2. loading' \in [Players -> [state: {"none", "waiting", "acquiring", "backoff"},
                                  on: Refs, tries: 0 .. AcquireAttempts]]
    BY <1>1, <1>15 DEF IInv, TypeOK
  <2> QED BY <1>1, <2>1, <2>2 DEF IInv, TypeOK
<1>20. PICK b \in Seq(Players) :
         /\ DOMAIN b = 1 .. Len(b) /\ Len(b) = Len(c) - 1 /\ (b # << >> <=> Len(b) > 0)
         /\ \A i \in DOMAIN b : i + 1 \in DOMAIN c /\ b[i] = c[i + 1] /\ b[i] \in Players /\ b[i] # p
  <2>1. Tail(c) \in Seq(Players) /\ Len(Tail(c)) = Len(c) - 1
        /\ \A i \in 1 .. Len(Tail(c)) : Tail(c)[i] = c[i + 1]
    BY <1>6, HeadTailProperties
  <2>2. DOMAIN Tail(c) = 1 .. Len(Tail(c)) /\ (Tail(c) # << >> <=> Len(Tail(c)) > 0)
    BY <1>6, <2>1, LenProperties, EmptySeq
  <2>3. \A i \in DOMAIN Tail(c) : i + 1 \in DOMAIN c /\ i + 1 # 1
    BY <1>6, <2>1, <2>2
  <2> QED BY <1>6, <2>1, <2>2, <2>3
<1>21. SoundLine(s)'
  <2>1. Line(s, b)'
    <3>1. ASSUME NEW q \in Players PROVE (\E i \in DOMAIN b : b[i] = q) <=> Pending(q)' /\ ServerOf[q] = s
      <4>1. CASE q = p
        BY <1>18, <1>20, <4>1
      <4>2. CASE q # p
        <5>1. (\E i \in DOMAIN c : c[i] = q) <=> Pending(q)' /\ ServerOf[q] = s
          BY <1>5, <1>18, <4>2 DEF Line
        <5>2. ASSUME NEW i \in DOMAIN c, c[i] = q PROVE \E j \in DOMAIN b : b[j] = q
          <6>1. i - 1 \in DOMAIN b /\ (i - 1) + 1 = i
            BY <1>6, <1>20, <4>2, <5>2
          <6> QED BY <1>20, <5>2, <6>1
        <5> QED BY <1>20, <5>1, <5>2
      <4> QED BY <4>1, <4>2
    <3>2. \A i, j \in DOMAIN b : b[i] = b[j] => i = j
      <4>1. \A i, j \in DOMAIN b : c[i + 1] = c[j + 1] => i + 1 = j + 1
        BY <1>5, <1>20 DEF Line
      <4> QED BY <1>20, <4>1
    <3>3. ASSUME NEW i \in DOMAIN b, i > 1 PROVE Waits(b[i], <<"load", b[i - 1], 1>>)'
      <4>1. i - 1 \in DOMAIN b /\ (i - 1) + 1 = i /\ i + 1 > 1
        BY <1>20, <3>3
      <4>2. Waits(c[i + 1], <<"load", c[i], 1>>) /\ b[i - 1] = c[i] /\ b[i] = c[i + 1]
        <5>1. Waits(c[i + 1], <<"load", c[(i + 1) - 1], 1>>)
          BY <1>5, <1>20, <4>1 DEF Line
        <5>2. (i + 1) - 1 = i
          BY <1>20
        <5> QED BY <1>20, <4>1, <5>1, <5>2
      <4>3. b[i - 1] # p /\ b[i] \in Players
        BY <1>20, <4>1
      <4>4. PICK q, r \in Players : q = b[i] /\ r = b[i - 1] /\ r # p /\ Waits(q, <<"load", r, 1>>)
        BY <1>20, <4>1, <4>2, <4>3
      <4>5. settled(<<"load", r, 1>>) = <<"load", r, 1>>
        BY <1>10, <4>4
      <4>6. Waits(q, <<"load", r, 1>>)'
        BY <1>16, <4>4, <4>5 DEF Waits
      <4> QED BY <4>4, <4>6
    <3>4. \A i \in DOMAIN b : i < Len(b) => after'[b[i]] > 0
      <4>1. \A i \in DOMAIN b : i < Len(b) => i + 1 < Len(c)
        BY <1>6, <1>20
      <4> QED BY <1>5, <1>17, <1>20, <4>1 DEF Line
    <3>5. b # << >> => LastIs(s, b[Len(b)])'
      <4> SUFFICES ASSUME b # << >> PROVE LastIs(s, b[Len(b)])'
        OBVIOUS
      <4>1. Len(b) \in DOMAIN b /\ Len(b) + 1 = Len(c)
        BY <1>6, <1>20
      <4>2. b[Len(b)] = c[Len(c)] /\ b[Len(b)] # p /\ b[Len(b)] \in Players
        BY <1>20, <4>1
      <4>3. LastIs(s, c[Len(c)])
        BY <1>5, <1>6 DEF Line
      <4>4. PICK q \in Players : q = c[Len(c)] /\ q # p
        BY <4>2
      <4>5. settled(<<"load", q, 1>>) = <<"load", q, 1>> /\ after'[q] = after[q]
            /\ releasing'[s] = settled(releasing[s]) /\ holders' = holders /\ LastIs(s, q)
        BY <1>1, <1>4, <1>10, <1>17, <4>3, <4>4
      <4>6. LastIs(s, q)'
        BY <4>5 DEF LastIs
      <4> QED BY <4>2, <4>4, <4>6
    <3> QED BY <3>1, <3>2, <3>3, <3>4, <3>5 DEF Line
  <2>2. LiveOn(s)' \subseteq LiveOn(s)
    BY <1>3, <1>4, CalmLive
  <2>3. Front(s, b)'
    <3>1. CASE b = << >>
      <4>1. Len(c) = 1
        BY <1>6, <1>20, <3>1
      <4>2. LastIs(s, p)
        BY <1>5, <1>6, <4>1 DEF Line
      <4>3. holders[s] = NoOne /\ releasing[s] = <<"load", p, 1>>
        BY <1>4, <4>2 DEF LastIs
      <4>4. releasing'[s] = first
        BY <1>4, <1>9, <1>17, <4>3
      <4> QED BY <1>1, <1>7, <2>2, <3>1, <4>3, <4>4 DEF Front, RestIs
    <3>2. CASE b # << >>
      <4>1. 1 \in DOMAIN b /\ 1 + 1 = 2 /\ 2 - 1 = 1 /\ 2 > 1
        BY <1>20, <3>2
      <4>2. b[1] = c[2] /\ 2 \in DOMAIN c /\ b[1] \in Players
        BY <1>20, <4>1
      <4>3. Waits(b[1], <<"load", p, 1>>)
        <5>1. Waits(c[2], <<"load", c[2 - 1], 1>>)
          BY <1>5, <4>1, <4>2 DEF Line
        <5> QED BY <1>6, <4>1, <4>2, <5>1
      <4>4. loading'[b[1]].state = "waiting" /\ loading'[b[1]].on = first
        BY <1>9, <1>16, <4>2, <4>3 DEF Waits
      <4>5. first[1] # "load"
        BY <1>8, RefFacts
      <4>6. FirstIs(s, b[1])'
        BY <1>7, <2>2, <4>4, <4>5 DEF FirstIs, Loading
      <4> QED BY <3>2, <4>6 DEF Front
    <3> QED BY <3>1, <3>2
  <2> QED BY <2>1, <2>3 DEF SoundLine
<1>22. ASSUME NEW t \in Servers \ {s} PROVE SoundLine(t)'
  <2>1. LiveOn(t)' \subseteq LiveOn(t)
    BY <1>3, CalmLive
  <2>2. releasing'[t] = releasing[t]
    <3>1. CASE releasing[t] = NoRef
      BY <1>12, <1>17, <3>1
    <3>2. ASSUME NEW q \in Players, NEW k \in 1 .. 2, releasing[t] = <<"load", q, k>>
          PROVE  releasing'[t] = releasing[t]
      <4>1. q # p
        BY <3>2 DEF IInv, RefInv
      <4> QED BY <1>10, <1>17, <3>2, <4>1
    <3>3. CASE \E e \in Sessions : releasing[t] = <<"doc", e>>
      BY <1>11, <1>17, <3>3
    <3>4. releasing[t] \in Refs
      BY DEF IInv, TypeOK
    <3> QED BY <3>1, <3>2, <3>3, <3>4, RefTypes
  <2>3. ASSUME NEW q \in Players, ServerOf[q] = t, loading[q].state = "waiting"
        PROVE  loading'[q].on = loading[q].on
    <3>1. CASE loading[q].on = NoRef
      BY <1>12, <1>16, <3>1
    <3>2. ASSUME NEW r \in Players, NEW k \in 1 .. 2, loading[q].on = <<"load", r, k>>
          PROVE  loading'[q].on = loading[q].on
      <4>1. r # p
        BY <2>3, <3>2, WaitsAtHome DEF Waits
      <4> QED BY <1>10, <1>16, <3>2, <4>1
    <3>3. CASE \E e \in Sessions : loading[q].on = <<"doc", e>>
      BY <1>11, <1>16, <3>3
    <3>4. loading[q].on \in Refs
      BY DEF IInv, TypeOK
    <3> QED BY <3>1, <3>2, <3>3, <3>4, RefTypes
  <2>4. SoundLine(t) /\ holders[t] \in Players \cup {NoOne}
        /\ (holders[t] # NoOne => ServerOf[holders[t]] = t)
    BY DEF IInv, LineInv, RefInv, TypeOK
  <2>5. \A q \in Players : ServerOf[q] = t =>
          /\ loading'[q].state = loading[q].state
          /\ loading[q].state = "waiting" => loading'[q].on = loading[q].on
          /\ after'[q] = after[q] /\ documents'[q] = documents[q] /\ loads'[q] = loads[q]
    BY <1>1, <1>16, <1>17, <2>3
  <2> QED BY <1>1, <2>1, <2>2, <2>4, <2>5, LineFrame
<1>23. RefInv'
  <2>1. ASSUME NEW t \in Servers, NEW q \in Players, NEW k \in 1 .. 2,
               releasing'[t] = <<"load", q, k>>
        PROVE  ServerOf[q] = t /\ after'[q] > 0
    <3>1. settled(releasing[t]) = <<"load", q, k>>
      BY <1>17, <2>1
    <3>2. releasing[t] = <<"load", q, k>>
      BY <1>8, <1>13, <3>1, RefFacts
    <3>3. q # p
      BY <1>14, <3>1, <3>2
    <3> QED BY <1>17, <3>2, <3>3 DEF IInv, RefInv
  <2>2. \A ref, e : settled(ref) = <<"doc", e>> => ref = <<"doc", e>> \/ (live /\ e = d)
    BY <1>8, <1>13, RefFacts
  <2>3. ASSUME NEW e \in Sessions, Awaited(e)' PROVE Closing(e)'
    <3>1. (\E t \in Servers : settled(releasing[t]) = <<"doc", e>>)
          \/ (\E q \in Players : settled(loading[q].on) = <<"doc", e>>)
      BY <1>16, <1>17, <2>3 DEF Awaited
    <3>2. Awaited(e) \/ (live /\ e = d)
      BY <2>2, <3>1 DEF Awaited
    <3> QED BY <1>3, <3>2 DEF IInv, RefInv, Calm
  <2> QED BY <1>1, <2>1, <2>3 DEF IInv, RefInv
<1>24. MapInv'
  <2>1. ASSUME NEW q \in Players, q # p, documents'[q] # NoOne
        PROVE  /\ documents'[q][1] = q /\ phase'[documents'[q]] \in {"open", "closed"}
               /\ (Loading(q) => ~SD!Live(documents[q]))'
               /\ ~Pending(q)' => holders'[ServerOf[q]] = q
    <3>1. PICK e \in Sessions : e = documents[q] /\ e = documents'[q]
      BY <1>17, <2>1 DEF IInv, TypeOK
    <3>2. e[1] = q /\ phase[e] \in {"open", "closed"} /\ (Loading(q) => ~SD!Live(e))
          /\ (~Pending(q) => holders[ServerOf[q]] = q)
      BY <1>17, <2>1, <3>1 DEF IInv, MapInv
    <3>3. phase'[e] \in {"open", "closed"} /\ (SD!Live(e)' => SD!Live(e))
      BY <1>3, <3>2 DEF Calm
    <3> QED BY <1>1, <1>16, <1>18, <2>1, <3>1, <3>2, <3>3
  <2>2. \A q \in Players : Loading(q)' => loads'[q] > 0
    BY <1>1, <1>16 DEF IInv, MapInv
  <2> QED BY <1>17, <2>1, <2>2 DEF MapInv
<1>25. Orphanless'
  <2> SUFFICES ASSUME NEW e \in Sessions, phase'[e] = "open"
               PROVE  documents'[e[1]] = e \/ Closing(e)'
    BY DEF Orphanless
  <2>1. phase[e] = "open" /\ (Closing(e) => Closing(e)') /\ e[1] \in Players /\ e # NoOne
    BY <1>3, SessionFacts DEF Calm
  <2>2. documents[e[1]] = e \/ Closing(e)
    BY <2>1 DEF IInv, Orphanless
  <2>3. e[1] = p /\ documents[p] = e => live /\ e = d
    BY <1>0, <2>1 DEF live, SD!Live
  <2> QED BY <1>3, <1>17, <2>1, <2>2, <2>3
<1> QED BY <1>3, <1>19, <1>21, <1>22, <1>23, <1>24, <1>25 DEF IInv, LineInv

-----------------------------------------------------------------------------
(* release(p), and the load that comes next.                               *)

Writes(d) == d # NoOne /\ SD!Live(d)

(* What is left of a player's entry when the documents were calm.          *)
LEMMA EntriesStay ==
  ASSUME IInv, Calm, NEW q \in Players, documents'[q] = documents[q], documents[q] # NoOne
  PROVE  /\ documents'[q][1] = q
         /\ phase'[documents'[q]] \in {"open", "closed"}
         /\ ~SD!Live(documents[q]) => ~(SD!Live(documents[q]))'
<1>1. PICK e \in Sessions : e = documents[q] /\ e = documents'[q]
  BY DEF IInv, TypeOK
<1>2. e[1] = q /\ phase[e] \in {"open", "closed"}
  BY <1>1 DEF IInv, MapInv
<1>3. phase'[e] \in {"open", "closed"} /\ (SD!Live(e)' => SD!Live(e))
  BY <1>2 DEF Calm
<1> QED BY <1>1, <1>2, <1>3

LEMMA EndsAtOnce ==
  ASSUME IInv, NEW h \in Players, EndSession(h), ~Loading(h), NEW d, d = documents[h]
  PROVE  /\ DocInv' /\ Calm
         /\ after' = after /\ documents' = [documents EXCEPT ![h] = NoOne]
         /\ IF Writes(d) THEN d \in Sessions /\ Closing(d)' /\ ReleaseOf(h) = <<"doc", d>>
            ELSE ReleaseOf(h) = NoRef /\ UNCHANGED docVars
         /\ Orphanless'
<1>1. after' = after /\ documents' = [documents EXCEPT ![h] = NoOne]
  BY DEF EndSession
<1>2. Writes(d) => d \in Sessions /\ d[1] = h /\ phase[d] \in {"open", "closed"}
  BY DEF IInv, TypeOK, MapInv, Writes
<1>3. IF Writes(d) THEN SD!Release(d) /\ ReleaseOf(h) = <<"doc", d>>
      ELSE UNCHANGED docVars /\ ReleaseOf(h) = NoRef
  BY DEF EndSession, ReleaseOf, Writes
<1>4. DocInv' /\ Calm /\ (Writes(d) => Closing(d)')
  <2>1. CASE Writes(d)
    BY <1>2, <1>3, <2>1, ReleaseCloses DEF IInv
  <2>2. CASE ~Writes(d)
    BY <1>3, <2>2, SameDocuments DEF IInv, docVars
  <2> QED BY <2>1, <2>2
<1>5. Orphanless'
  <2> SUFFICES ASSUME NEW e \in Sessions, phase'[e] = "open"
               PROVE  documents'[e[1]] = e \/ Closing(e)'
    BY DEF Orphanless
  <2>1. phase[e] = "open" /\ (Closing(e) => Closing(e)') /\ e[1] \in Players /\ e # NoOne
    BY <1>4, SessionFacts DEF Calm
  <2>2. documents[e[1]] = e \/ Closing(e)
    BY <2>1 DEF IInv, Orphanless
  <2>3. e[1] = h /\ documents[h] = e => Writes(d) /\ e = d
    BY <2>1 DEF Writes, SD!Live
  <2>4. e[1] # h => documents'[e[1]] = documents[e[1]]
    BY <1>1, <2>1 DEF IInv, TypeOK
  <2> QED BY <1>4, <2>1, <2>2, <2>3, <2>4
<1> QED BY <1>1, <1>2, <1>3, <1>4, <1>5

LEMMA EndsLater ==
  ASSUME IInv, NEW h \in Players, EndSession(h), Loading(h)
  PROVE  /\ DocInv' /\ Calm /\ Orphanless'
         /\ UNCHANGED docVars /\ documents' = documents
         /\ after' = [after EXCEPT ![h] = @ + 1]
         /\ ReleaseOf(h) = <<"load", h, after[h] + 1>>
<1>1. /\ UNCHANGED docVars /\ documents' = documents
      /\ after' = [after EXCEPT ![h] = @ + 1]
      /\ ReleaseOf(h) = <<"load", h, after[h] + 1>>
  BY DEF EndSession, ReleaseOf
<1>2. DocInv' /\ Calm
  BY <1>1, SameDocuments DEF IInv, docVars
<1>3. Orphanless'
  BY <1>1, <1>2 DEF IInv, Orphanless, Calm, DocInv
<1> QED BY <1>1, <1>2, <1>3

LEMMA SettledLoads ==
  ASSUME IInv, Settled, NEW p \in Players, ~Loading(p)
  PROVE  after[p] = 0 /\ ~Pending(p)
BY DEF Settled, IInv, TypeOK, Pending

(* A server with no load: no line.                                         *)
LEMMA NoLine ==
  ASSUME NEW s \in Servers, \A q \in Players : ServerOf[q] = s => ~Pending(q)
  PROVE  /\ Line(s, << >>)
         /\ \A c \in Seq(Players) : Line(s, c) => c = << >>
<1>1. DOMAIN << >> = {} /\ Len(<< >>) = 0
  OBVIOUS
<1>2. ASSUME NEW c \in Seq(Players), Line(s, c) PROVE c = << >>
  <2>1. \A i \in DOMAIN c : c[i] \in Players
    BY LenProperties
  <2>2. DOMAIN c = {}
    BY <1>2, <2>1 DEF Line
  <2> QED BY <2>2, LenProperties, EmptySeq
<1>3. Line(s, << >>)
  BY <1>1 DEF Line
<1> QED BY <1>2, <1>3

(* The last of a line is the holder, if there is one.                      *)
LEMMA LastOfLine ==
  ASSUME NEW s \in Servers, NEW c \in Seq(Players), Line(s, c), c # << >>
  PROVE  /\ Len(c) \in DOMAIN c /\ c[Len(c)] \in Players /\ LastIs(s, c[Len(c)])
         /\ Pending(c[Len(c)]) /\ ServerOf[c[Len(c)]] = s
         /\ DOMAIN c = 1 .. Len(c) /\ Len(c) \in Nat \ {0}
         /\ \A i \in DOMAIN c : c[i] \in Players
<1>1. /\ DOMAIN c = 1 .. Len(c) /\ Len(c) \in Nat \ {0}
      /\ \A i \in DOMAIN c : c[i] \in Players
  BY LenProperties, EmptySeq
<1>2. Len(c) \in DOMAIN c
  BY <1>1
<1> QED BY <1>1, <1>2 DEF Line

(* A player leaves while their load runs.                                  *)
LEMMA ReleaseLoadingKeeps ==
  ASSUME IInv, NEW p \in Players, Once(p), Release(p), Loading(p)
  PROVE  IInv'
<1> DEFINE s == ServerOf[p]
<1>1. /\ DocInv' /\ Calm /\ Orphanless' /\ UNCHANGED docVars /\ documents' = documents
      /\ after' = [after EXCEPT ![p] = @ + 1]
      /\ ReleaseOf(p) = <<"load", p, after[p] + 1>>
  BY EndsLater DEF Release
<1>2. /\ released' = released \cup {p} /\ failures' = failures \ {p}
      /\ holders' = IF holders[s] = p THEN [holders EXCEPT ![s] = NoOne] ELSE holders
      /\ releasing' = [releasing EXCEPT ![s] = <<"load", p, after[p] + 1>>]
      /\ UNCHANGED <<loading, loads>>
  BY <1>1 DEF Release, Holding
<1>3. s \in Servers /\ Pending(p) /\ after[p] \in 0 .. 1
  BY PlayersAssumption DEF Pending, IInv, TypeOK, Once
<1>4. /\ after'[p] = after[p] + 1 /\ after'[p] > 0
      /\ \A q \in Players : q # p => after'[q] = after[q]
      /\ releasing'[s] = <<"load", p, after[p] + 1>>
      /\ \A t \in Servers : t # s => releasing'[t] = releasing[t] /\ holders'[t] = holders[t]
      /\ holders'[s] = IF holders[s] = p THEN NoOne ELSE holders[s]
  BY <1>1, <1>2, <1>3 DEF IInv, TypeOK
<1>5. \A q \in Players : (Loading(q)' <=> Loading(q)) /\ (Pending(q)' <=> Pending(q))
                         /\ Session(q)' = Session(q)
  BY <1>2, <1>3, <1>4 DEF Loading, Pending, Session
<1>6. TypeOK'
  <2>1. after[p] + 1 \in 1 .. 2
    BY <1>3
  <2>2. releasing' \in [Servers -> Refs]
    BY <1>2, <2>1, RefTypes DEF IInv, TypeOK
  <2>3. after' \in [Players -> 0 .. 2]
    BY <1>1, <2>1 DEF IInv, TypeOK
  <2>4. holders' \in [Servers -> Players \cup {NoOne}]
    BY <1>2 DEF IInv, TypeOK
  <2> QED BY <1>1, <1>2, <2>2, <2>3, <2>4 DEF IInv, TypeOK
<1>7. SoundLine(s)'
  <2>1. PICK c \in Seq(Players) : Line(s, c) /\ Front(s, c)
    BY <1>3 DEF IInv, LineInv, SoundLine
  <2>2. PICK i \in DOMAIN c : c[i] = p
    BY <1>3, <2>1 DEF Line
  <2>3. c # << >>
    BY <2>2
  <2>4. PICK q \in Players : q = c[Len(c)] /\ LastIs(s, q)
    BY <1>3, <2>1, <2>3, LastOfLine
  <2>5. LastIs(s, q)'
    <3>1. CASE after[p] = 0
      <4>1. i = Len(c)
        BY <1>3, <2>1, <2>2, <2>3, <3>1, LastOfLine DEF Line
      <4>2. q = p /\ holders[s] = p
        BY <2>2, <2>4, <3>1, <4>1 DEF LastIs
      <4> QED BY <1>4, <3>1, <4>2 DEF LastIs
    <3>2. CASE after[p] = 1
      <4>1. holders[s] \notin {p, NoOne}
        BY <3>2 DEF Once
      <4>2. holders[s] = q /\ after[q] = 0 /\ q # p
        BY <2>4, <3>2, <4>1 DEF LastIs
      <4> QED BY <1>4, <4>1, <4>2 DEF LastIs
    <3> QED BY <1>3, <3>1, <3>2
  <2>6. Line(s, c)'
    <3>1. \A j \in DOMAIN c : j > 1 => Waits(c[j], <<"load", c[j - 1], 1>>)'
      BY <1>2, <2>1 DEF Line, Waits
    <3>2. \A j \in DOMAIN c : j < Len(c) => after'[c[j]] > 0
      <4>1. \A r \in Players : after[r] > 0 => after'[r] > 0
        BY <1>4
      <4> QED BY <1>3, <2>1, <2>3, <4>1, LastOfLine DEF Line
    <3>3. (c # << >> => LastIs(s, c[Len(c)]))'
      BY <2>4, <2>5
    <3> QED BY <1>5, <2>1, <3>1, <3>2, <3>3 DEF Line
  <2>7. LiveOn(s)' \subseteq LiveOn(s)
    BY <1>1, <1>3, CalmLive
  <2>8. Front(s, c)'
    <3>1. FirstIs(s, c[1]) /\ c[1] \in Players
      BY <1>3, <2>1, <2>3, LastOfLine DEF Front
    <3> QED BY <1>1, <1>2, <1>5, <2>3, <2>7, <3>1 DEF Front, FirstIs
  <2> QED BY <2>6, <2>8 DEF SoundLine
<1>8. ASSUME NEW t \in Servers \ {s} PROVE SoundLine(t)'
  <2>1. LiveOn(t)' \subseteq LiveOn(t)
    BY <1>1, CalmLive
  <2> QED BY <1>1, <1>2, <1>4, <2>1, LineFrame DEF IInv, LineInv, RefInv, TypeOK
<1>9. RefInv'
  <2>1. \A t \in Servers : holders'[t] # NoOne => ServerOf[holders'[t]] = t
    BY <1>4 DEF IInv, RefInv
  <2>2. ASSUME NEW t \in Servers, NEW q \in Players, NEW k \in 1 .. 2,
               releasing'[t] = <<"load", q, k>>
        PROVE  ServerOf[q] = t /\ after'[q] > 0
    <3>1. CASE t = s
      <4>1. q = p
        BY <1>4, <2>2, <3>1, RefFacts
      <4> QED BY <1>4, <3>1, <4>1
    <3>2. CASE t # s
      <4>1. ServerOf[q] = t /\ after[q] > 0
        BY <1>4, <2>2, <3>2 DEF IInv, RefInv
      <4> QED BY <1>4, <3>2, <4>1
    <3> QED BY <3>1, <3>2
  <2>3. \A e \in Sessions : Awaited(e)' => Awaited(e)
    <3>1. \A t \in Servers, e \in Sessions : releasing'[t] = <<"doc", e>> => releasing[t] = <<"doc", e>>
      BY <1>4, RefFacts
    <3> QED BY <1>2, <3>1 DEF Awaited
  <2> QED BY <1>1, <2>1, <2>2, <2>3 DEF IInv, RefInv, Calm
<1>10. MapInv'
  <2> SUFFICES ASSUME NEW q \in Players
      PROVE  /\ Loading(q)' => loads'[q] > 0
             /\ documents'[q] # NoOne =>
                  /\ documents'[q][1] = q /\ phase'[documents'[q]] \in {"open", "closed"}
                  /\ (Loading(q) => ~SD!Live(documents[q]))'
                  /\ ~Pending(q)' => holders'[ServerOf[q]] = q
    BY DEF MapInv
  <2>1. Loading(q)' => loads'[q] > 0
    BY <1>2, <1>5 DEF IInv, MapInv
  <2>2. ASSUME documents'[q] # NoOne
        PROVE  /\ documents'[q][1] = q /\ phase'[documents'[q]] \in {"open", "closed"}
               /\ (Loading(q) => ~SD!Live(documents[q]))'
    <3>1. documents'[q] = documents[q] /\ documents[q] # NoOne
      BY <1>1, <2>2
    <3>2. Loading(q)' => ~SD!Live(documents[q])
      BY <1>5, <3>1 DEF IInv, MapInv
    <3> QED BY <1>1, <3>1, <3>2, EntriesStay
  <2>3. documents'[q] # NoOne /\ ~Pending(q)' => holders'[ServerOf[q]] = q
    <3>1. documents'[q] # NoOne /\ ~Pending(q)' => holders[ServerOf[q]] = q /\ q # p
      BY <1>1, <1>3, <1>5 DEF IInv, MapInv
    <3>2. ServerOf[q] \in Servers
      BY PlayersAssumption
    <3> QED BY <1>4, <3>1, <3>2
  <2> QED BY <2>1, <2>2, <2>3
<1> QED BY <1>1, <1>6, <1>7, <1>8, <1>9, <1>10 DEF IInv, LineInv

(* A player leaves whose load, if any, is over.                            *)
LEMMA ReleaseIdleKeeps ==
  ASSUME IInv, Settled, NEW p \in Players, Release(p), ~Loading(p)
  PROVE  IInv'
<1> DEFINE s == ServerOf[p]
<1>0. PICK d : d = documents[p]
  OBVIOUS
<1>1. /\ DocInv' /\ Calm /\ Orphanless'
      /\ after' = after /\ documents' = [documents EXCEPT ![p] = NoOne]
      /\ IF Writes(d) THEN d \in Sessions /\ Closing(d)' /\ ReleaseOf(p) = <<"doc", d>>
         ELSE ReleaseOf(p) = NoRef /\ UNCHANGED docVars
  BY <1>0, EndsAtOnce DEF Release
<1>2. /\ released' = released \cup {p} /\ failures' = failures \ {p}
      /\ holders' = IF holders[s] = p THEN [holders EXCEPT ![s] = NoOne] ELSE holders
      /\ releasing' = IF d # NoOne THEN [releasing EXCEPT ![s] = ReleaseOf(p)] ELSE releasing
      /\ UNCHANGED <<loading, loads>>
  BY <1>0 DEF Release, Holding
<1>3. s \in Servers /\ ~Pending(p) /\ after[p] = 0
  BY PlayersAssumption, SettledLoads
<1>4. ReleaseOf(p) = NoRef \/ (Writes(d) /\ ReleaseOf(p) = <<"doc", d>>)
  BY <1>1
<1>5. d # NoOne => holders[s] = p
  BY <1>0, <1>3 DEF IInv, MapInv
<1>6. /\ documents'[p] = NoOne
      /\ \A q \in Players : q # p => documents'[q] = documents[q]
      /\ \A t \in Servers : t # s => releasing'[t] = releasing[t] /\ holders'[t] = holders[t]
      /\ releasing'[s] = IF d # NoOne THEN ReleaseOf(p) ELSE releasing[s]
      /\ holders'[s] = IF holders[s] = p THEN NoOne ELSE holders[s]
  BY <1>1, <1>2, <1>3 DEF IInv, TypeOK
<1>7. \A q \in Players : (Loading(q)' <=> Loading(q)) /\ (Pending(q)' <=> Pending(q))
  BY <1>1, <1>2 DEF Loading, Pending
<1>8. TypeOK'
  <2>1. ReleaseOf(p) \in Refs
    BY <1>1, RefTypes
  <2> QED BY <1>1, <1>2, <2>1 DEF IInv, TypeOK
<1>9. ASSUME NEW t \in Servers PROVE SoundLine(t)'
  <2>1. LiveOn(t)' \subseteq LiveOn(t)
    BY <1>1, CalmLive
  <2>2. CASE t = s /\ holders[s] = p
    <3>1. PICK c \in Seq(Players) : Line(s, c) /\ Front(s, c)
      BY <1>3 DEF IInv, LineInv, SoundLine
    <3>2. c = << >>
      <4> SUFFICES ASSUME c # << >> PROVE FALSE
        OBVIOUS
      <4>1. LastIs(s, c[Len(c)]) /\ Pending(c[Len(c)])
        BY <1>3, <3>1, LastOfLine
      <4> QED BY <1>3, <2>2, <4>1, SessionFacts DEF LastIs
    <3>3. Line(s, << >>)'
      <4>1. \A q \in Players : ServerOf[q] = s => ~Pending(q)'
        BY <1>7, <3>1, <3>2 DEF Line
      <4>2. DOMAIN << >> = {}
        OBVIOUS
      <4> QED BY <4>1, <4>2 DEF Line
    <3>4. \A e \in LiveOn(s)' : releasing'[s] = <<"doc", e>>
      <4>1. \A e \in LiveOn(s) : e = d /\ e # NoOne /\ SD!Live(e)
        BY <1>0, <2>2, <3>1, <3>2, SessionFacts DEF Front, RestIs, LiveOn
      <4> QED BY <1>1, <1>6, <2>1, <2>2, <4>1 DEF Writes
    <3>5. holders'[s] = NoOne
      BY <1>6, <2>2
    <3>6. Front(s, << >>)'
      BY <3>4, <3>5 DEF Front, RestIs
    <3>7. << >> \in Seq(Players)
      OBVIOUS
    <3> QED BY <2>2, <3>3, <3>6, <3>7 DEF SoundLine
  <2>3. CASE t # s \/ holders[s] # p
    <3>1. d # NoOne => t # s
      BY <1>5, <2>3
    <3>2. releasing'[t] = releasing[t] /\ holders'[t] = holders[t]
      BY <1>6, <2>3, <3>1
    <3>3. \A q \in Players : ServerOf[q] = t => documents'[q] = documents[q]
      BY <1>0, <1>6, <3>1
    <3> QED BY <1>1, <1>2, <2>1, <3>2, <3>3, LineFrame DEF IInv, LineInv, RefInv, TypeOK
  <2> QED BY <2>2, <2>3
<1>10. RefInv'
  <2>1. \A t \in Servers : holders'[t] # NoOne => ServerOf[holders'[t]] = t
    BY <1>6 DEF IInv, RefInv
  <2>2. ASSUME NEW t \in Servers, NEW q \in Players, NEW k \in 1 .. 2,
               releasing'[t] = <<"load", q, k>>
        PROVE  ServerOf[q] = t /\ after'[q] > 0
    <3>1. releasing[t] = <<"load", q, k>>
      BY <1>4, <1>6, <2>2, RefFacts
    <3> QED BY <1>1, <3>1 DEF IInv, RefInv
  <2>3. \A e \in Sessions : Awaited(e)' => Awaited(e) \/ (Writes(d) /\ e = d)
    <3>1. \A t \in Servers, e \in Sessions : releasing'[t] = <<"doc", e>> =>
            releasing[t] = <<"doc", e>> \/ (Writes(d) /\ e = d)
      BY <1>4, <1>6, RefFacts
    <3> QED BY <1>2, <3>1 DEF Awaited
  <2>4. \A e \in Sessions : Awaited(e)' => Closing(e)'
    BY <1>1, <2>3 DEF IInv, RefInv, Calm
  <2> QED BY <2>1, <2>2, <2>4 DEF RefInv
<1>11. MapInv'
  <2> SUFFICES ASSUME NEW q \in Players
      PROVE  /\ Loading(q)' => loads'[q] > 0
             /\ documents'[q] # NoOne =>
                  /\ documents'[q][1] = q /\ phase'[documents'[q]] \in {"open", "closed"}
                  /\ (Loading(q) => ~SD!Live(documents[q]))'
                  /\ ~Pending(q)' => holders'[ServerOf[q]] = q
    BY DEF MapInv
  <2>1. Loading(q)' => loads'[q] > 0
    BY <1>2, <1>7 DEF IInv, MapInv
  <2>2. ASSUME documents'[q] # NoOne
        PROVE  /\ documents'[q][1] = q /\ phase'[documents'[q]] \in {"open", "closed"}
               /\ (Loading(q) => ~SD!Live(documents[q]))'
    <3>1. documents'[q] = documents[q] /\ documents[q] # NoOne
      BY <1>6, <2>2
    <3>2. Loading(q)' => ~SD!Live(documents[q])
      BY <1>7, <3>1 DEF IInv, MapInv
    <3> QED BY <1>1, <3>1, <3>2, EntriesStay
  <2>3. documents'[q] # NoOne /\ ~Pending(q)' => holders'[ServerOf[q]] = q
    <3>1. documents'[q] # NoOne /\ ~Pending(q)' => holders[ServerOf[q]] = q /\ q # p
      BY <1>6, <1>7 DEF IInv, MapInv
    <3>2. ServerOf[q] \in Servers
      BY PlayersAssumption
    <3> QED BY <1>6, <3>1, <3>2
  <2> QED BY <2>1, <2>2, <2>3
<1> QED BY <1>1, <1>8, <1>9, <1>10, <1>11 DEF IInv, LineInv

(* A load joins the end of its server's line, behind `ref'.                *)
LEMMA LineGrows ==
  ASSUME NEW s \in Servers, NEW c \in Seq(Players), Line(s, c),
         NEW p \in Players, ServerOf[p] = s, ~Pending(p), Pending(p)',
         \A q \in Players : q # p =>
           /\ loading'[q] = loading[q] /\ (Pending(q)' <=> Pending(q))
           /\ after[q] > 0 => after'[q] > 0,
         c # << >> => Waits(p, <<"load", c[Len(c)], 1>>)' /\ after'[c[Len(c)]] > 0,
         holders'[s] = p, after'[p] = 0
  PROVE  Line(s, Append(c, p))' /\ Append(c, p) \in Seq(Players) /\ Append(c, p) # << >>
         /\ Append(c, p)[1] = IF c = << >> THEN p ELSE c[1]
<1>1. PICK b : b = Append(c, p)
  OBVIOUS
<1>2. /\ DOMAIN c = 1 .. Len(c) /\ Len(c) \in Nat /\ (c = << >> <=> Len(c) = 0)
      /\ \A i \in DOMAIN c : c[i] \in Players /\ c[i] # p
  <2>1. \A i \in DOMAIN c : c[i] # p
    BY DEF Line
  <2> QED BY <2>1, LenProperties, EmptySeq
<1>3. /\ b \in Seq(Players) /\ Len(b) = Len(c) + 1 /\ b[Len(b)] = p
      /\ \A i \in 1 .. Len(c) : b[i] = c[i]
  BY <1>1, AppendProperties
<1>4. DOMAIN b = 1 .. Len(b) /\ Len(b) \in Nat \ {0} /\ b # << >>
  BY <1>2, <1>3, LenProperties, EmptySeq
<1>5. \A i \in DOMAIN b : \/ i \in DOMAIN c /\ b[i] = c[i] /\ i < Len(b) /\ i # Len(b)
                          \/ i = Len(b) /\ b[i] = p /\ i \notin DOMAIN c
  BY <1>2, <1>3, <1>4
<1>6. \A i \in DOMAIN c : i \in DOMAIN b /\ b[i] = c[i]
  BY <1>2, <1>3, <1>4
<1>7. Line(s, b)'
  <2>1. ASSUME NEW q \in Players PROVE (\E i \in DOMAIN b : b[i] = q) <=> Pending(q)' /\ ServerOf[q] = s
    <3>1. CASE q = p
      BY <1>3, <1>4, <3>1
    <3>2. CASE q # p
      <4>1. (\E i \in DOMAIN c : c[i] = q) <=> Pending(q)' /\ ServerOf[q] = s
        BY <3>2 DEF Line
      <4> QED BY <1>5, <1>6, <3>2, <4>1
    <3> QED BY <3>1, <3>2
  <2>2. \A i, j \in DOMAIN b : b[i] = b[j] => i = j
    <3>1. \A i, j \in DOMAIN c : c[i] = c[j] => i = j
      BY DEF Line
    <3> QED BY <1>2, <1>5, <3>1
  <2>3. ASSUME NEW i \in DOMAIN b, i > 1 PROVE Waits(b[i], <<"load", b[i - 1], 1>>)'
    <3>1. i - 1 \in DOMAIN c /\ b[i - 1] = c[i - 1]
      BY <1>2, <1>3, <1>4, <2>3
    <3>2. CASE i = Len(b)
      <4>1. i - 1 = Len(c) /\ c # << >> /\ b[i] = p
        BY <1>2, <1>3, <1>4, <2>3, <3>2
      <4> QED BY <3>1, <4>1
    <3>3. CASE i # Len(b)
      <4>1. i \in DOMAIN c /\ b[i] = c[i] /\ c[i] \in Players /\ c[i] # p
        BY <1>2, <1>5, <3>3
      <4>2. Waits(c[i], <<"load", c[i - 1], 1>>)
        BY <2>3, <4>1 DEF Line
      <4>3. loading'[c[i]] = loading[c[i]]
        BY <4>1
      <4> QED BY <3>1, <4>1, <4>2, <4>3 DEF Waits
    <3> QED BY <3>2, <3>3
  <2>4. ASSUME NEW i \in DOMAIN b, i < Len(b) PROVE after'[b[i]] > 0
    <3>1. i \in DOMAIN c /\ b[i] = c[i] /\ i \in 1 .. Len(c) /\ c[i] \in Players /\ c[i] # p
      BY <1>2, <1>5, <2>4
    <3>2. CASE i = Len(c)
      <4>1. c # << >>
        BY <1>2, <3>1
      <4> QED BY <3>1, <3>2, <4>1
    <3>3. CASE i # Len(c)
      <4>1. after[c[i]] > 0
        BY <1>2, <3>1, <3>3 DEF Line
      <4> QED BY <3>1, <4>1
    <3> QED BY <3>2, <3>3
  <2>5. LastIs(s, b[Len(b)])'
    <3>1. p # NoOne
      BY SessionFacts
    <3>2. LastIs(s, p)'
      BY <3>1 DEF LastIs
    <3> QED BY <1>3, <3>2
  <2> QED BY <2>1, <2>2, <2>3, <2>4, <2>5 DEF Line
<1>8. b[1] = IF c = << >> THEN p ELSE c[1]
  BY <1>2, <1>3, <1>4
<1> QED BY <1>1, <1>3, <1>4, <1>7, <1>8

(* load(p) joins s's line c and waits for ref: the release that follows    *)
(* the last load of c, or what may still write.                            *)
Joins(p, s, ref) ==
  /\ ServerOf[p] = s /\ ~Loading(p) /\ ~Pending(p)
  /\ documents[p] # NoOne => ~SD!Live(documents[p])
  /\ loading' = [loading EXCEPT ![p] = [state |-> "waiting", on |-> ref, tries |-> 1]]
  /\ loads' = [loads EXCEPT ![p] = @ + 1]
  /\ holders' = [holders EXCEPT ![s] = p]
  /\ releasing'[s] \in {releasing[s], ref}
  /\ \A t \in Servers : t # s => releasing'[t] = releasing[t]
  /\ after'[p] = 0
  /\ \A e \in Sessions : ref = <<"doc", e>> => Closing(e)'
OthersEnd(p, s, ref) ==
  \A q \in Players :
    /\ documents'[q] \in {documents[q], NoOne}
    /\ ServerOf[q] # s => documents'[q] = documents[q] /\ after'[q] = after[q]
    /\ after[q] > 0 => after'[q] > 0
    /\ q # p => (Pending(q)' <=> Pending(q))
    /\ ServerOf[q] = s /\ q # p /\ ~Pending(q) => documents'[q] = NoOne
    /\ \A k \in 1 .. 2 : ref = <<"load", q, k>> => ServerOf[q] = s /\ after'[q] > 0
Behind(s, c, ref) ==
  /\ Line(s, c) /\ Front(s, c)
  /\ c # << >> => /\ ref = <<"load", c[Len(c)], 1>> /\ after'[c[Len(c)]] > 0
                  /\ documents'[c[1]] = documents[c[1]]
  /\ c = << >> => ref[1] # "load" /\ \A e \in LiveOn(s)' : ref = <<"doc", e>>

LEMMA LoadJoins ==
  ASSUME IInv, DocInv', Calm, Orphanless', TypeOK', NEW p \in Players, NEW s \in Servers, NEW ref,
         Joins(p, s, ref), OthersEnd(p, s, ref), NEW c \in Seq(Players), Behind(s, c, ref)
  PROVE  IInv'
<1> USE DEF Joins, OthersEnd, Behind
<1>1. /\ loading'[p].state = "waiting" /\ loading'[p].on = ref
      /\ \A q \in Players : q # p => loading'[q] = loading[q] /\ loads'[q] = loads[q]
      /\ loads'[p] = loads[p] + 1 /\ loads[p] \in Nat
      /\ holders'[s] = p /\ \A t \in Servers : t # s => holders'[t] = holders[t]
  BY DEF IInv, TypeOK
<1>2. Loading(p)' /\ Pending(p)' /\ \A q \in Players : q # p => (Loading(q)' <=> Loading(q))
  BY <1>1 DEF Loading, Pending
<1>3. SoundLine(s)'
  <2>0. \A q \in Players : q # p => /\ loading'[q] = loading[q] /\ (Pending(q)' <=> Pending(q))
                                    /\ after[q] > 0 => after'[q] > 0
    BY <1>1
  <2>1. c # << >> => Waits(p, <<"load", c[Len(c)], 1>>)' /\ after'[c[Len(c)]] > 0
    BY <1>1 DEF Waits
  <2>2. Line(s, Append(c, p))' /\ Append(c, p) \in Seq(Players) /\ Append(c, p) # << >>
        /\ Append(c, p)[1] = IF c = << >> THEN p ELSE c[1]
    <3>1. /\ s \in Servers /\ c \in Seq(Players) /\ Line(s, c) /\ p \in Players /\ ServerOf[p] = s
          /\ ~Pending(p) /\ Pending(p)' /\ holders'[s] = p /\ after'[p] = 0
      BY <1>1, <1>2
    <3> QED BY ONLY <2>0, <2>1, <3>1, LineGrows
  <2>3. LiveOn(s)' \subseteq LiveOn(s)
    BY CalmLive
  <2>4. CASE c = << >>
    <3>1. FirstIs(s, p)'
      <4>1. ref[1] # "load" /\ \A e \in LiveOn(s)' : ref = <<"doc", e>>
        BY <2>4
      <4>2. loading'[p].state = "waiting" /\ loading'[p].on = ref /\ Loading(p)'
        BY <1>1, <1>2
      <4> QED BY <4>1, <4>2 DEF FirstIs
    <3> QED BY <2>2, <2>4, <3>1 DEF SoundLine, Front
  <2>5. CASE c # << >>
    <3>1. c[1] \in Players /\ FirstIs(s, c[1]) /\ c[1] # p
      <4>1. 1 \in DOMAIN c
        BY <2>5, LastOfLine
      <4> QED BY <2>5, <4>1, LastOfLine DEF Front, Line
    <3>2. FirstIs(s, c[1])'
      <4>1. PICK q \in Players : q = c[1] /\ FirstIs(s, q) /\ q # p /\ documents'[q] = documents[q]
        BY <2>5, <3>1
      <4>2. Session(q)' = Session(q)
        BY <1>1, <4>1 DEF Session
      <4>3. FirstIs(s, q)'
        BY <1>1, <1>2, <2>3, <4>1, <4>2 DEF FirstIs
      <4> QED BY <4>1, <4>3
    <3> QED BY <2>2, <2>5, <3>2 DEF SoundLine, Front
  <2> QED BY <2>4, <2>5
<1>4. ASSUME NEW t \in Servers \ {s} PROVE SoundLine(t)'
  <2>1. LiveOn(t)' \subseteq LiveOn(t)
    BY CalmLive
  <2> QED BY <1>1, <2>1, LineFrame, ZenonT(30) DEF IInv, LineInv, RefInv, TypeOK
<1>5. RefInv'
  <2>1. \A t \in Servers : holders'[t] # NoOne => ServerOf[holders'[t]] = t
    BY <1>1 DEF IInv, RefInv
  <2>2. \A t \in Servers : releasing'[t] = releasing[t] \/ (t = s /\ releasing'[t] = ref)
    OBVIOUS
  <2>3. ASSUME NEW t \in Servers, NEW q \in Players, NEW k \in 1 .. 2,
               releasing'[t] = <<"load", q, k>>
        PROVE  ServerOf[q] = t /\ after'[q] > 0
    <3>1. CASE releasing[t] = <<"load", q, k>>
      <4>1. ServerOf[q] = t /\ after[q] > 0
        BY <3>1 DEF IInv, RefInv
      <4> QED BY <4>1
    <3>2. CASE t = s /\ ref = <<"load", q, k>>
      BY <3>2
    <3> QED BY <2>2, <2>3, <3>1, <3>2
  <2>4. ASSUME NEW e \in Sessions, Awaited(e)' PROVE Closing(e)'
    <3>1. Awaited(e) \/ ref = <<"doc", e>>
      BY <1>1, <2>2, <2>4 DEF Awaited
    <3> QED BY <3>1 DEF IInv, RefInv, Calm
  <2> QED BY <2>1, <2>3, <2>4 DEF RefInv
<1>6. MapInv'
  <2> SUFFICES ASSUME NEW q \in Players
      PROVE  /\ Loading(q)' => loads'[q] > 0
             /\ documents'[q] # NoOne =>
                  /\ documents'[q][1] = q /\ phase'[documents'[q]] \in {"open", "closed"}
                  /\ (Loading(q) => ~SD!Live(documents[q]))'
                  /\ ~Pending(q)' => holders'[ServerOf[q]] = q
    BY DEF MapInv
  <2>1. Loading(q)' => loads'[q] > 0
    BY <1>1, <1>2 DEF IInv, MapInv
  <2>2. ASSUME documents'[q] # NoOne
        PROVE  /\ documents'[q][1] = q /\ phase'[documents'[q]] \in {"open", "closed"}
               /\ (Loading(q) => ~SD!Live(documents[q]))'
    <3>1. documents'[q] = documents[q] /\ documents[q] # NoOne
      BY <2>2
    <3>2. Loading(q)' => ~SD!Live(documents[q])
      BY <1>2, <3>1 DEF IInv, MapInv
    <3> QED BY <3>1, <3>2, EntriesStay
  <2>3. documents'[q] # NoOne /\ ~Pending(q)' => holders'[ServerOf[q]] = q
    <3> SUFFICES ASSUME documents'[q] # NoOne, ~Pending(q)' PROVE holders'[ServerOf[q]] = q
      OBVIOUS
    <3>1. q # p /\ ~Pending(q) /\ ServerOf[q] # s /\ documents[q] # NoOne
      BY <1>2
    <3>2. holders[ServerOf[q]] = q /\ ServerOf[q] \in Servers
      BY <3>1, PlayersAssumption DEF IInv, MapInv
    <3> QED BY <1>1, <3>1, <3>2
  <2> QED BY <2>1, <2>2, <2>3
<1> QED BY <1>3, <1>4, <1>5, <1>6 DEF IInv, LineInv

(* The start of a load, whatever it displaces.                             *)
LEMMA LoadFacts ==
  ASSUME IInv, Settled, NEW p \in Players, Patient(p), Load(p)
  PROVE  /\ ServerOf[p] \in Servers /\ ~Loading(p) /\ ~Pending(p) /\ after[p] = 0
         /\ documents[p] # NoOne => ~SD!Live(documents[p])
         /\ loading' = [loading EXCEPT ![p] = [state |-> "waiting", on |-> Handover(p), tries |-> 1]]
         /\ loads' = [loads EXCEPT ![p] = @ + 1] /\ loads[p] \in 0 .. MaxLoads - 1
         /\ holders' = [holders EXCEPT ![ServerOf[p]] = p]
         /\ released' \subseteq Players /\ failures' \subseteq Players
<1>1. ServerOf[p] \in Servers /\ ~Loading(p) /\ ~Pending(p) /\ after[p] = 0
  BY SettledLoads, PlayersAssumption DEF Load
<1>2. documents[p] # NoOne => ~SD!Live(documents[p])
  BY DEF Load, Active, Patient, IInv, MapInv
<1>3. loads[p] \in 0 .. MaxLoads - 1
  BY PlayersAssumption DEF Load, IInv, TypeOK
<1>4. released' \subseteq Players /\ failures' \subseteq Players
  BY <1>1 DEF Load, Displaces, IInv, TypeOK
<1> QED BY <1>1, <1>2, <1>3, <1>4 DEF Load

(* What a load waits for is a reference of the right type.                 *)
LEMMA LoadTypes ==
  ASSUME IInv, NEW p \in Players, NEW ref \in Refs, NEW s \in Servers,
         loading' = [loading EXCEPT ![p] = [state |-> "waiting", on |-> ref, tries |-> 1]],
         loads' = [loads EXCEPT ![p] = @ + 1], loads[p] \in 0 .. MaxLoads - 1,
         holders' = [holders EXCEPT ![s] = p],
         released' \subseteq Players, failures' \subseteq Players,
         releasing' \in [Servers -> Refs], after' \in [Players -> 0 .. 2],
         documents' \in [Players -> Sessions \cup {NoOne}]
  PROVE  TypeOK'
<1>1. [state |-> "waiting", on |-> ref, tries |-> 1] \in
        [state: {"none", "waiting", "acquiring", "backoff"}, on: Refs, tries: 0 .. AcquireAttempts]
  BY PlayersAssumption
<1>2. loading' \in [Players -> [state: {"none", "waiting", "acquiring", "backoff"},
                               on: Refs, tries: 0 .. AcquireAttempts]]
  BY <1>1 DEF IInv, TypeOK
<1>3. loads' \in [Players -> 0 .. MaxLoads]
  <2>1. loads[p] + 1 \in 0 .. MaxLoads
    BY PlayersAssumption
  <2> QED BY <2>1 DEF IInv, TypeOK
<1>4. holders' \in [Servers -> Players \cup {NoOne}]
  BY DEF IInv, TypeOK
<1> QED BY <1>2, <1>3, <1>4 DEF TypeOK

(* The key is p's already, or nobody's: p waits for the release that       *)
(* still writes, if there is one.                                          *)
LEMMA LoadUndisturbed ==
  ASSUME IInv, Settled, NEW p \in Players, Patient(p), Load(p), ~Displaces(p)
  PROVE  IInv'
<1>0. PICK s \in Servers : s = ServerOf[p]
  BY LoadFacts
<1>1. PICK ref : ref = releasing[s]
  OBVIOUS
<1>2. /\ ~Loading(p) /\ ~Pending(p) /\ after[p] = 0
      /\ documents[p] # NoOne => ~SD!Live(documents[p])
      /\ loading' = [loading EXCEPT ![p] = [state |-> "waiting", on |-> ref, tries |-> 1]]
      /\ loads' = [loads EXCEPT ![p] = @ + 1] /\ loads[p] \in 0 .. MaxLoads - 1
      /\ holders' = [holders EXCEPT ![s] = p]
      /\ released' \subseteq Players /\ failures' \subseteq Players
  BY <1>0, <1>1, LoadFacts DEF Handover
<1>3. UNCHANGED <<docVars, documents, releasing, after>>
  BY DEF Load
<1>4. DocInv' /\ Calm
  BY <1>3, SameDocuments DEF IInv, docVars
<1>5. Orphanless'
  BY <1>3, <1>4 DEF IInv, Orphanless, Calm, DocInv
<1>6. ref \in Refs /\ holders[s] \in {NoOne, p}
  BY <1>0, <1>1 DEF IInv, TypeOK, Displaces
<1>7. TypeOK'
  <2>1. releasing' \in [Servers -> Refs] /\ after' \in [Players -> 0 .. 2]
        /\ documents' \in [Players -> Sessions \cup {NoOne}]
    BY <1>3 DEF IInv, TypeOK
  <2> QED BY <1>2, <1>6, <2>1, LoadTypes
<1>8. PICK c \in Seq(Players) : Line(s, c) /\ Front(s, c)
  BY DEF IInv, LineInv, SoundLine
<1>9. c # << >> => ref = <<"load", c[Len(c)], 1>> /\ after[c[Len(c)]] > 0
  <2> SUFFICES ASSUME c # << >> PROVE ref = <<"load", c[Len(c)], 1>> /\ after[c[Len(c)]] > 0
    OBVIOUS
  <2>1. LastIs(s, c[Len(c)]) /\ Pending(c[Len(c)])
    BY <1>8, LastOfLine
  <2> QED BY <1>1, <1>2, <1>6, <2>1 DEF LastIs
<1>10. ASSUME c = << >> PROVE ref[1] # "load" /\ \A e \in LiveOn(s)' : ref = <<"doc", e>>
  <2>1. \A q \in Players : ServerOf[q] = s => ~Pending(q)
    BY <1>8, <1>10 DEF Line
  <2>2. ref[1] # "load"
    <3>1. \A q \in Players, k \in 1 .. 2 : ref # <<"load", q, k>>
      BY <1>1, <2>1 DEF IInv, RefInv, Pending
    <3> QED BY <1>6, <3>1, RefTypes, RefFacts
  <2>3. LiveOn(s)' \subseteq LiveOn(s)
    BY <1>4, CalmLive
  <2>4. \A e \in LiveOn(s) : ref = <<"doc", e>>
    <3>1. RestIs(s)
      BY <1>8, <1>10 DEF Front
    <3>2. \A e \in LiveOn(s) : e # NoOne /\ SD!Live(e)
      BY SessionFacts DEF LiveOn
    <3> QED BY <1>1, <1>2, <1>6, <3>1, <3>2 DEF RestIs
  <2> QED BY <2>2, <2>3, <2>4
<1>11. \A e \in Sessions : ref = <<"doc", e>> => Closing(e)'
  BY <1>1, <1>4 DEF IInv, RefInv, Awaited, Calm
<1>12. \A q \in Players, k \in 1 .. 2 : ref = <<"load", q, k>> => ServerOf[q] = s /\ after[q] > 0
  BY <1>1 DEF IInv, RefInv
<1>13. \A q \in Players : q # p /\ ServerOf[q] = s /\ ~Pending(q) => documents[q] = NoOne
  BY <1>6, SessionFacts DEF IInv, MapInv
<1>14. \A q \in Players : q # p => (Pending(q)' <=> Pending(q))
  BY <1>2, <1>3 DEF Pending, Loading, IInv, TypeOK
<1>15. Joins(p, s, ref)
  BY <1>0, <1>2, <1>3, <1>11 DEF Joins
<1>16. OthersEnd(p, s, ref)
  BY <1>3, <1>12, <1>13, <1>14 DEF OthersEnd
<1>17. Behind(s, c, ref)
  BY <1>3, <1>8, <1>9, <1>10 DEF Behind
<1> QED BY <1>4, <1>5, <1>7, <1>15, <1>16, <1>17, LoadJoins

(* The key is another player's, whose load still runs: p waits for the     *)
(* release that follows it.                                                *)
LEMMA LoadBehindLoad ==
  ASSUME IInv, Settled, NEW p \in Players, Patient(p), Load(p), Displaces(p),
         Loading(holders[ServerOf[p]])
  PROVE  IInv'
<1>0. PICK s \in Servers, h \in Players : s = ServerOf[p] /\ h = holders[s] /\ h # p /\ ServerOf[h] = s
  BY LoadFacts DEF Displaces, IInv, RefInv, TypeOK
<1>1. PICK c \in Seq(Players) : Line(s, c) /\ Front(s, c)
  BY DEF IInv, LineInv, SoundLine
<1>2. c # << >> /\ c[Len(c)] = h /\ after[h] = 0
  <2>1. Pending(h) /\ h # NoOne
    BY <1>0, SessionFacts DEF Pending
  <2>2. c # << >>
    BY <1>0, <1>1, <2>1 DEF Line
  <2> QED BY <1>0, <1>1, <2>1, <2>2, LastOfLine DEF LastIs
<1>3. PICK ref : ref = <<"load", h, 1>>
  OBVIOUS
<1>4. /\ DocInv' /\ Calm /\ Orphanless' /\ UNCHANGED docVars /\ documents' = documents
      /\ after' = [after EXCEPT ![h] = @ + 1] /\ ReleaseOf(h) = ref
  <2>1. EndSession(h)
    BY <1>0 DEF Load
  <2> QED BY <1>0, <1>2, <1>3, <2>1, EndsLater
<1>5. /\ ~Loading(p) /\ ~Pending(p) /\ after[p] = 0
      /\ documents[p] # NoOne => ~SD!Live(documents[p])
      /\ loading' = [loading EXCEPT ![p] = [state |-> "waiting", on |-> ref, tries |-> 1]]
      /\ loads' = [loads EXCEPT ![p] = @ + 1] /\ loads[p] \in 0 .. MaxLoads - 1
      /\ holders' = [holders EXCEPT ![s] = p]
      /\ released' \subseteq Players /\ failures' \subseteq Players
  BY <1>0, <1>4, LoadFacts DEF Handover
<1>6. releasing' = [releasing EXCEPT ![s] = ref]
  BY <1>0, <1>4 DEF Load, Holding
<1>7. ref \in Refs
  <2>1. h \in Players /\ 1 \in 1 .. 2
    OBVIOUS
  <2>2. <<"load", h, 1>> \in Refs
    BY <2>1, RefTypes
  <2> QED BY <1>3, <2>2
<1>8. TypeOK'
  <2>1. releasing' \in [Servers -> Refs] /\ documents' \in [Players -> Sessions \cup {NoOne}]
    BY <1>4, <1>6, <1>7 DEF IInv, TypeOK
  <2>2. after' \in [Players -> 0 .. 2]
    BY <1>2, <1>4 DEF IInv, TypeOK
  <2> QED BY <1>5, <1>7, <2>1, <2>2, LoadTypes
<1>9. after'[h] = 1 /\ after'[p] = 0 /\ \A q \in Players : q # h => after'[q] = after[q]
  BY <1>0, <1>2, <1>4, <1>5 DEF IInv, TypeOK
<1>10. \A q \in Players : q # p => loading'[q] = loading[q]
  BY <1>5 DEF IInv, TypeOK
<1>11. Joins(p, s, ref)
  <2>1. releasing'[s] = ref /\ \A t \in Servers : t # s => releasing'[t] = releasing[t]
    BY <1>6 DEF IInv, TypeOK
  <2>2. \A e : ref # <<"doc", e>>
    BY <1>3, RefFacts
  <2> QED BY <1>0, <1>5, <1>9, <2>1, <2>2 DEF Joins
<1>12. OthersEnd(p, s, ref)
  <2> SUFFICES ASSUME NEW q \in Players
      PROVE  /\ documents'[q] \in {documents[q], NoOne}
             /\ ServerOf[q] # s => documents'[q] = documents[q] /\ after'[q] = after[q]
             /\ after[q] > 0 => after'[q] > 0
             /\ q # p => (Pending(q)' <=> Pending(q))
             /\ ServerOf[q] = s /\ q # p /\ ~Pending(q) => documents'[q] = NoOne
             /\ \A k \in 1 .. 2 : ref = <<"load", q, k>> => ServerOf[q] = s /\ after'[q] > 0
    BY DEF OthersEnd
  <2>1. q # p => (Pending(q)' <=> Pending(q))
    BY <1>0, <1>9, <1>10 DEF Pending, Loading
  <2>2. ServerOf[q] = s /\ q # p /\ ~Pending(q) => documents[q] = NoOne
    <3>1. Pending(h)
      BY <1>0 DEF Pending
    <3> QED BY <1>0, <3>1 DEF IInv, MapInv
  <2>3. \A k \in 1 .. 2 : ref = <<"load", q, k>> => q = h
    BY <1>3, RefFacts
  <2> QED BY <1>0, <1>2, <1>4, <1>9, <2>1, <2>2, <2>3
<1>13. Behind(s, c, ref)
  BY <1>1, <1>2, <1>3, <1>4, <1>9 DEF Behind
<1> QED BY <1>4, <1>8, <1>11, <1>12, <1>13, LoadJoins

(* The key is another player's, whose load is over: their document closes, *)
(* and p waits for it.                                                     *)
LEMMA LoadBehindDocument ==
  ASSUME IInv, Settled, NEW p \in Players, Patient(p), Load(p), Displaces(p),
         ~Loading(holders[ServerOf[p]])
  PROVE  IInv'
<1>0. PICK s \in Servers, h \in Players : s = ServerOf[p] /\ h = holders[s] /\ h # p /\ ServerOf[h] = s
  BY LoadFacts DEF Displaces, IInv, RefInv, TypeOK
<1>1. PICK c \in Seq(Players) : Line(s, c) /\ Front(s, c)
  BY DEF IInv, LineInv, SoundLine
<1>2. ~Pending(h) /\ h # NoOne /\ c = << >>
  <2>1. ~Pending(h) /\ h # NoOne
    BY <1>0, SettledLoads, SessionFacts
  <2> QED BY <1>0, <1>1, <2>1, LastOfLine DEF LastIs
<1>3. PICK d, ref : d = documents[h] /\ ref = ReleaseOf(h)
  OBVIOUS
<1>4. /\ DocInv' /\ Calm /\ Orphanless'
      /\ after' = after /\ documents' = [documents EXCEPT ![h] = NoOne]
      /\ IF Writes(d) THEN d \in Sessions /\ Closing(d)' /\ ref = <<"doc", d>>
         ELSE ref = NoRef /\ UNCHANGED docVars
  <2>1. EndSession(h) /\ ~Loading(h)
    BY <1>0 DEF Load
  <2> QED BY <1>3, <2>1, EndsAtOnce
<1>5. /\ ~Loading(p) /\ ~Pending(p) /\ after[p] = 0
      /\ documents[p] # NoOne => ~SD!Live(documents[p])
      /\ loading' = [loading EXCEPT ![p] = [state |-> "waiting", on |-> ref, tries |-> 1]]
      /\ loads' = [loads EXCEPT ![p] = @ + 1] /\ loads[p] \in 0 .. MaxLoads - 1
      /\ holders' = [holders EXCEPT ![s] = p]
      /\ released' \subseteq Players /\ failures' \subseteq Players
  BY <1>0, <1>3, LoadFacts DEF Handover
<1>6. releasing' = releasing \/ releasing' = [releasing EXCEPT ![s] = ref]
  BY <1>0, <1>3 DEF Load
<1>7. ref \in Refs /\ ref[1] # "load"
  BY <1>4, RefTypes, RefFacts
<1>8. TypeOK'
  <2>1. releasing' \in [Servers -> Refs] /\ documents' \in [Players -> Sessions \cup {NoOne}]
    BY <1>4, <1>6, <1>7 DEF IInv, TypeOK
  <2>2. after' \in [Players -> 0 .. 2]
    BY <1>4 DEF IInv, TypeOK
  <2> QED BY <1>5, <1>7, <2>1, <2>2, LoadTypes
<1>9. documents'[h] = NoOne /\ \A q \in Players : q # h => documents'[q] = documents[q]
  BY <1>4 DEF IInv, TypeOK
<1>10. \A q \in Players : q # p => (Pending(q)' <=> Pending(q))
  BY <1>4, <1>5 DEF IInv, TypeOK, Pending, Loading
<1>11. Joins(p, s, ref)
  <2>1. releasing'[s] \in {releasing[s], ref} /\ \A t \in Servers : t # s => releasing'[t] = releasing[t]
    BY <1>6 DEF IInv, TypeOK
  <2>2. \A e : ref = <<"doc", e>> => Writes(d) /\ e = d
    BY <1>4, RefFacts
  <2> QED BY <1>0, <1>4, <1>5, <2>1, <2>2 DEF Joins
<1>12. OthersEnd(p, s, ref)
  <2> SUFFICES ASSUME NEW q \in Players
      PROVE  /\ documents'[q] \in {documents[q], NoOne}
             /\ ServerOf[q] # s => documents'[q] = documents[q] /\ after'[q] = after[q]
             /\ after[q] > 0 => after'[q] > 0
             /\ q # p => (Pending(q)' <=> Pending(q))
             /\ ServerOf[q] = s /\ q # p /\ ~Pending(q) => documents'[q] = NoOne
             /\ \A k \in 1 .. 2 : ref = <<"load", q, k>> => ServerOf[q] = s /\ after'[q] > 0
    BY DEF OthersEnd
  <2>1. ServerOf[q] = s /\ q # p /\ ~Pending(q) => documents'[q] = NoOne
    <3>1. q # h /\ ServerOf[q] = s /\ ~Pending(q) => documents[q] = NoOne
      BY <1>0 DEF IInv, MapInv
    <3> QED BY <1>9, <3>1
  <2>2. \A k \in 1 .. 2 : ref # <<"load", q, k>>
    BY <1>4, RefFacts
  <2> QED BY <1>0, <1>4, <1>9, <1>10, <2>1, <2>2
<1>13. Behind(s, c, ref)
  <2>1. \A e \in LiveOn(s) : e = d /\ Writes(d)
    <3>1. \A e \in LiveOn(s) : e = d
      BY <1>0, <1>1, <1>2, <1>3 DEF Front, RestIs
    <3>2. \A e \in LiveOn(s) : e # NoOne /\ SD!Live(e)
      BY SessionFacts DEF LiveOn
    <3> QED BY <3>1, <3>2 DEF Writes
  <2>2. LiveOn(s)' \subseteq LiveOn(s)
    BY <1>4, CalmLive
  <2> QED BY <1>1, <1>2, <1>4, <1>7, <2>1, <2>2 DEF Behind
<1> QED BY <1>4, <1>8, <1>11, <1>12, <1>13, LoadJoins
LEMMA LoadKeeps ==
  ASSUME IInv, Settled, NEW p \in Players, Patient(p), Load(p)
  PROVE  IInv'
BY LoadUndisturbed, LoadBehindLoad, LoadBehindDocument

-----------------------------------------------------------------------------
(* A server dies, and its line with it.                                    *)

LEMMA CrashKeeps ==
  ASSUME IInv, NEW s \in Servers, Crash(s)
  PROVE  IInv'
<1>1. /\ SD!Crash(s)
      /\ documents' = [p \in Players |-> IF ServerOf[p] = s THEN NoOne ELSE documents[p]]
      /\ loading' = [p \in Players |-> IF ServerOf[p] = s THEN NotLoading ELSE loading[p]]
      /\ failures' \subseteq failures /\ released' \subseteq released
      /\ holders' = [holders EXCEPT ![s] = NoOne]
      /\ releasing' = [releasing EXCEPT ![s] = NoRef]
      /\ after' = [p \in Players |-> IF ServerOf[p] = s THEN 0 ELSE after[p]]
      /\ loads' = [p \in Players |-> IF ServerOf[p] = s THEN MaxLoads ELSE loads[p]]
  BY DEF Crash
<1>2. /\ DocInv'
      /\ \A d \in Sessions :
           IF Home[d] = s THEN phase'[d] = "closed" /\ ~SD!Live(d)'
           ELSE phase'[d] = phase[d] /\ (SD!Live(d)' <=> SD!Live(d)) /\ (Closing(d) => Closing(d)')
  BY <1>1, CrashEnds DEF IInv
<1>3. \A d \in Sessions : /\ SD!Live(d)' => SD!Live(d) /\ Home[d] # s
                          /\ Closing(d) => Closing(d)'
  BY <1>2 DEF Closing
<1>4. /\ \A t \in Servers : LiveOn(t)' \subseteq LiveOn(t)
      /\ LiveOn(s)' = {}
  BY <1>3 DEF LiveOn
<1>5. \A p \in Players :
        IF ServerOf[p] = s
        THEN documents'[p] = NoOne /\ ~Loading(p)' /\ ~Pending(p)' /\ loading'[p].on = NoRef
        ELSE /\ documents'[p] = documents[p] /\ loading'[p] = loading[p] /\ after'[p] = after[p]
             /\ loads'[p] = loads[p] /\ (Loading(p)' <=> Loading(p)) /\ (Pending(p)' <=> Pending(p))
  BY <1>1 DEF Loading, Pending, NotLoading
<1>6. /\ holders'[s] = NoOne /\ releasing'[s] = NoRef
      /\ \A t \in Servers : t # s => holders'[t] = holders[t] /\ releasing'[t] = releasing[t]
  BY <1>1 DEF IInv, TypeOK
<1>7. TypeOK'
  <2>1. NotLoading \in [state: {"none", "waiting", "acquiring", "backoff"},
                        on: Refs, tries: 0 .. AcquireAttempts]
    BY RefTypes, PlayersAssumption DEF NotLoading
  <2>2. loading' \in [Players -> [state: {"none", "waiting", "acquiring", "backoff"},
                                  on: Refs, tries: 0 .. AcquireAttempts]]
    BY <1>1, <2>1 DEF IInv, TypeOK
  <2>3. releasing' \in [Servers -> Refs]
    BY <1>1, RefTypes DEF IInv, TypeOK
  <2>4. after' \in [Players -> 0 .. 2] /\ loads' \in [Players -> 0 .. MaxLoads]
    BY <1>1, PlayersAssumption DEF IInv, TypeOK
  <2> QED BY <1>1, <2>2, <2>3, <2>4 DEF IInv, TypeOK
<1>8. SoundLine(s)'
  <2>1. << >> \in Seq(Players) /\ DOMAIN << >> = {}
    OBVIOUS
  <2>2. Line(s, << >>)'
    BY <1>5, <2>1 DEF Line
  <2>3. Front(s, << >>)'
    BY <1>4, <1>6 DEF Front, RestIs
  <2> QED BY <2>1, <2>2, <2>3 DEF SoundLine
<1>9. ASSUME NEW t \in Servers \ {s} PROVE SoundLine(t)'
  <2>1. \A q \in Players : ServerOf[q] = t =>
          /\ loading'[q] = loading[q] /\ after'[q] = after[q]
          /\ documents'[q] = documents[q] /\ loads'[q] = loads[q]
    BY <1>5
  <2> QED BY <1>4, <1>6, <2>1, LineFrame DEF IInv, LineInv, RefInv, TypeOK
<1>10. RefInv'
  <2>1. \A t \in Servers : holders'[t] # NoOne => ServerOf[holders'[t]] = t
    BY <1>6 DEF IInv, RefInv
  <2>2. ASSUME NEW t \in Servers, NEW q \in Players, NEW k \in 1 .. 2,
               releasing'[t] = <<"load", q, k>>
        PROVE  ServerOf[q] = t /\ after'[q] > 0
    <3>1. t # s /\ releasing[t] = <<"load", q, k>>
      BY <1>6, <2>2, RefFacts
    <3>2. ServerOf[q] = t /\ after[q] > 0
      BY <3>1 DEF IInv, RefInv
    <3> QED BY <1>5, <3>1, <3>2
  <2>3. ASSUME NEW e \in Sessions, Awaited(e)' PROVE Closing(e)'
    <3>1. \A t \in Servers : releasing'[t] = <<"doc", e>> => releasing[t] = <<"doc", e>>
      BY <1>6, RefFacts
    <3>2. \A q \in Players : loading'[q].on = <<"doc", e>> => loading[q].on = <<"doc", e>>
      BY <1>5, RefFacts
    <3>3. Awaited(e)
      BY <2>3, <3>1, <3>2 DEF Awaited
    <3> QED BY <1>3, <3>3 DEF IInv, RefInv
  <2> QED BY <2>1, <2>2, <2>3 DEF RefInv
<1>11. MapInv'
  <2>1. ASSUME NEW q \in Players, ServerOf[q] # s, documents'[q] # NoOne
        PROVE  /\ documents'[q][1] = q /\ phase'[documents'[q]] \in {"open", "closed"}
               /\ (Loading(q) => ~SD!Live(documents[q]))'
               /\ ~Pending(q)' => holders'[ServerOf[q]] = q
    <3>1. PICK e \in Sessions : e = documents[q] /\ e = documents'[q]
      BY <1>5, <2>1 DEF IInv, TypeOK
    <3>2. e[1] = q /\ phase[e] \in {"open", "closed"} /\ (Loading(q) => ~SD!Live(e))
          /\ (~Pending(q) => holders[ServerOf[q]] = q)
      BY <1>5, <2>1, <3>1 DEF IInv, MapInv
    <3>3. phase'[e] \in {"open", "closed"} /\ (SD!Live(e)' => SD!Live(e))
      BY <1>2, <1>3, <3>2
    <3>4. ServerOf[q] \in Servers
      BY PlayersAssumption
    <3> QED BY <1>5, <1>6, <2>1, <3>1, <3>2, <3>3, <3>4
  <2>2. \A q \in Players : Loading(q)' => loads'[q] > 0
    BY <1>5 DEF IInv, MapInv
  <2> QED BY <1>5, <2>1, <2>2 DEF MapInv
<1>12. Orphanless'
  <2> SUFFICES ASSUME NEW e \in Sessions, phase'[e] = "open"
               PROVE  documents'[e[1]] = e \/ Closing(e)'
    BY DEF Orphanless
  <2>1. phase[e] = "open" /\ ServerOf[e[1]] # s /\ e[1] \in Players
    BY <1>2, SessionFacts
  <2> QED BY <1>3, <1>5, <2>1 DEF IInv, Orphanless
<1> QED BY <1>2, <1>7, <1>8, <1>9, <1>10, <1>11, <1>12 DEF IInv, LineInv

-----------------------------------------------------------------------------
(* Every step.                                                             *)

LEMMA InitIInv == Init => IInv
<1> SUFFICES ASSUME Init PROVE IInv
  OBVIOUS
<1>1. /\ phase = [d \in Sessions |-> "idle"] /\ queue = [d \in Sessions |-> << >>]
      /\ request = [d \in Sessions |-> SD!NoRequest]
  BY DEF Init, SD!Init
<1>2. DocInv
  <2>1. \A d \in Sessions : Plain(request[d]) /\ request[d].op = "none" /\ phase[d] = "idle"
    BY <1>1, PlainNone
  <2>2. \A d \in Sessions : InPhase(d)
    BY <2>1 DEF InPhase, SD!Ops
  <2>3. << >> \in Seq(SD!Ops)
    OBVIOUS
  <2> QED BY <1>1, <2>1, <2>2, <2>3 DEF DocInv
<1>3. TypeOK
  <2>1. NotLoading \in [state: {"none", "waiting", "acquiring", "backoff"},
                        on: Refs, tries: 0 .. AcquireAttempts]
    BY RefTypes, PlayersAssumption DEF NotLoading
  <2> QED BY <2>1, RefTypes, PlayersAssumption DEF Init, TypeOK
<1>4. \A s \in Servers : LiveOn(s) = {}
  BY <1>1, PlainNone DEF LiveOn, SD!Live
<1>5. \A p \in Players : ~Loading(p) /\ ~Pending(p) /\ loading[p].on = NoRef
  BY DEF Init, Loading, Pending, NotLoading
<1>6. LineInv
  <2> SUFFICES ASSUME NEW s \in Servers PROVE SoundLine(s)
    BY DEF LineInv
  <2>1. << >> \in Seq(Players)
    OBVIOUS
  <2>2. Line(s, << >>)
    BY <1>5, NoLine
  <2>3. Front(s, << >>)
    BY <1>4 DEF Front, RestIs, Init
  <2> QED BY <2>1, <2>2, <2>3 DEF SoundLine
<1>7. RefInv
  <2>1. \A s \in Servers : holders[s] = NoOne /\ releasing[s] = NoRef
    BY DEF Init
  <2>2. \A d \in Sessions : ~Awaited(d)
    BY <1>5, <2>1, RefFacts DEF Awaited
  <2> QED BY <2>1, <2>2, RefFacts DEF RefInv
<1>8. MapInv
  BY <1>5 DEF MapInv, Init
<1>9. Orphanless
  BY <1>1 DEF Orphanless
<1> QED BY <1>2, <1>3, <1>6, <1>7, <1>8, <1>9 DEF IInv

LEMMA FrameKeeps ==
  ASSUME IInv, NEW d \in Sessions,
         \/ SD!RunWork(d) \/ RecordStep(d) \/ SD!HeartbeatFires(d)
         \/ SD!Save(d) \/ SD!Release(d) \/ \E v \in Values : SD!Stage(d, v),
         UNCHANGED mapVars
  PROVE  IInv'
<1>1. DocInv' /\ Calm
  BY QuietSteps DEF IInv
<1> QED BY <1>1, StillMaps, MapFrame

(* A claim that ends without the lock settles its load.                    *)
LEMMA LoadFailsKeeps ==
  ASSUME IInv, NEW d \in Sessions, SD!GiveUp(d), queue' = queue, phase[d] = "acquiring",
         LoadFails(d[1])
  PROVE  IInv'
<1>1. PICK p \in Players : p = d[1] /\ loading[p].state = "acquiring" /\ d = Session(p)
  BY ClaimsAreLoads, SessionFacts
<1>2. DocInv' /\ OthersStay(d) /\ phase'[d] = "idle" /\ ~SD!Live(d)'
  BY ClaimEnds DEF IInv
<1>3. /\ loading' = [loading EXCEPT ![p] = NotLoading] /\ documents' = documents
      /\ failures' \subseteq Players
      /\ UNCHANGED <<released, holders, releasing, after, loads>>
  BY <1>1 DEF LoadFails, IInv, TypeOK
<1> QED BY <1>1, <1>2, <1>3, SettlingKeeps

LEMMA RequestFailsKeeps ==
  ASSUME IInv, NEW d \in Sessions, RequestFails(d)
  PROVE  IInv'
<1>1. queue' = queue /\ (SD!GiveUp(d) \/ (SD!AttemptFails(d) /\ ~SD!GiveUp(d)))
  BY DEF RequestFails, SD!AttemptFails, SD!RequestUnavailable
<1>2. CASE SD!GiveUp(d) /\ phase[d] = "acquiring"
  <2>1. phase'[d] = "idle"
    BY <1>1, <1>2, ClaimEnds DEF IInv
  <2> QED BY <1>1, <1>2, <2>1, LoadFailsKeeps DEF RequestFails
<1>3. CASE SD!GiveUp(d) /\ phase[d] # "acquiring"
  <2>1. DocInv' /\ Calm
    BY <1>1, <1>3, EndsAreCalm DEF IInv
  <2>2. UNCHANGED mapVars
    BY <1>3 DEF RequestFails
  <2> QED BY <2>1, <2>2, StillMaps, MapFrame
<1>4. CASE SD!AttemptFails(d) /\ ~SD!GiveUp(d)
  <2>1. DocInv' /\ Calm
    BY <1>4, RetryIsCalm DEF IInv
  <2>2. phase[d] = "acquiring" => phase'[d] # "idle"
    BY <2>1 DEF Calm
  <2>3. UNCHANGED mapVars
    BY <2>2 DEF RequestFails
  <2> QED BY <2>1, <2>3, StillMaps, MapFrame
<1> QED BY <1>1, <1>2, <1>3, <1>4

LEMMA LoadStepKeeps ==
  ASSUME IInv, NEW p \in Players, LoadStep(p)
  PROVE  IInv'
<1>1. ASSUME loading[p].state = "acquiring" PROVE Session(p) \in Sessions /\ Session(p)[1] = p
  BY <1>1, ClaimantIsFirst
<1>2. CASE LoadOpens(p)
  <2>1. PICK d : d = Session(p) /\ d \in Sessions
    BY <1>1, <1>2 DEF LoadOpens
  <2>2. DocInv' /\ OthersStay(d) /\ phase[d] = "acquiring" /\ phase'[d] = "open"
    BY <1>2, <2>1, ClaimOpens DEF LoadOpens, IInv
  <2>3. /\ loading[p].state = "acquiring"
        /\ loading' = [loading EXCEPT ![p] = NotLoading]
        /\ documents' = [documents EXCEPT ![p] = d]
        /\ failures' \subseteq Players
        /\ UNCHANGED <<released, holders, releasing, after, loads>>
    BY <1>2, <2>1 DEF LoadOpens, IInv, TypeOK
  <2> QED BY <2>1, <2>2, <2>3, SettlingKeeps
<1>3. CASE LoadRefused(p)
  <2>1. PICK d : d = Session(p) /\ d \in Sessions /\ d[1] = p
    BY <1>1, <1>3 DEF LoadRefused
  <2>2. SD!GiveUp(d) /\ queue' = queue /\ phase[d] = "acquiring"
    <3>1. SD!ClaimRefused(d)
      BY <1>3, <2>1 DEF LoadRefused
    <3>2. request[d].op = "acquire"
      BY <3>1 DEF SD!ClaimRefused, SD!Sent
    <3> QED BY <2>1, <3>1, <3>2 DEF SD!ClaimRefused, IInv, DocInv, InPhase
  <2>3. DocInv' /\ OthersStay(d) /\ phase'[d] = "idle" /\ ~SD!Live(d)'
    BY <2>1, <2>2, ClaimEnds DEF IInv
  <2>4. CASE LoadFails(p)
    BY <2>1, <2>2, <2>4, LoadFailsKeeps
  <2>5. CASE ~LoadFails(p)
    <3>1. /\ loading[p].state = "acquiring" /\ loading[p].tries < AcquireAttempts
          /\ loading' = [loading EXCEPT ![p].state = "backoff", ![p].tries = @ + 1]
          /\ UNCHANGED <<documents, failures, released, holders, releasing, after, loads>>
      BY <1>3, <2>5 DEF LoadRefused, TriesAgain
    <3> QED BY <2>1, <2>2, <2>3, <3>1, BackoffKeeps
  <2> QED BY <2>4, <2>5
<1>4. CASE LoadRetries(p)
  BY <1>4, ClaimKeeps DEF LoadRetries
<1> QED BY <1>2, <1>3, <1>4 DEF LoadStep

LEMMA ReleaseKeeps ==
  ASSUME IInv, Settled, NEW p \in Players, Once(p), Release(p)
  PROVE  IInv'
BY ReleaseLoadingKeeps, ReleaseIdleKeeps

LEMMA NextIInv == IInv /\ [Next]_vars => IInv'
<1> SUFFICES ASSUME IInv, [Next]_vars PROVE IInv'
  OBVIOUS
<1>1. CASE UNCHANGED vars
  <2>1. UNCHANGED mapVars /\ UNCHANGED <<phase, queue, request>>
    BY <1>1 DEF vars, docVars
  <2>2. DocInv' /\ Calm
    BY <2>1, SameDocuments DEF IInv
  <2> QED BY <2>1, <2>2, StillMaps, MapFrame
<1>2. CASE Continue
  <2>1. ASSUME NEW d \in Sessions, SD!RunWork(d), UNCHANGED mapVars PROVE IInv'
    BY <2>1, FrameKeeps
  <2>2. ASSUME NEW p \in Players, Begin(p) PROVE IInv'
    BY <2>2, ClaimKeeps DEF Begin
  <2>3. ASSUME NEW p \in Players, ReleaseAfterLoad(p) PROVE IInv'
    BY <2>3, ReleaseAfterLoadKeeps
  <2>4. ASSUME NEW d \in Sessions, ReleaseDone(d) PROVE IInv'
    BY <2>4, ReleaseDoneKeeps
  <2> QED BY <1>2, <2>1, <2>2, <2>3, <2>4 DEF Continue
<1>3. CASE Settled /\ Progress
  <2>1. ASSUME NEW p \in Players, LoadStep(p) PROVE IInv'
    BY <2>1, LoadStepKeeps
  <2>2. ASSUME NEW p \in Players, ForgetReleased(p) PROVE IInv'
    <3>1. /\ UNCHANGED docVars /\ failures' \subseteq Players /\ released' \subseteq Players
          /\ UNCHANGED <<documents, loading, holders, releasing, after, loads>>
      BY <2>2 DEF ForgetReleased, IInv, TypeOK
    <3>2. DocInv' /\ Calm
      BY <3>1, SameDocuments DEF IInv, docVars
    <3> QED BY <3>1, <3>2, MapFrame
  <2>3. ASSUME NEW d \in Sessions, DocumentStep(d) PROVE IInv'
    BY <2>3, FrameKeeps DEF DocumentStep
  <2> QED BY <1>3, <2>1, <2>2, <2>3 DEF Progress
<1>4. ASSUME Settled, NEW p \in Players, Patient(p), Load(p) \/ WaitFor(p) PROVE IInv'
  BY <1>4, LoadKeeps DEF WaitFor
<1>5. ASSUME Settled, NEW p \in Players, Once(p), Release(p) PROVE IInv'
  BY <1>5, ReleaseKeeps
<1>6. CASE Calls
  BY <1>6, FrameKeeps DEF Calls, DocumentCall, ReleaseDocument
<1>7. CASE Fault
  <2>1. ASSUME NEW d \in Sessions, RequestFails(d) PROVE IInv'
    BY <2>1, RequestFailsKeeps
  <2>2. ASSUME NEW s \in Servers, Crash(s) PROVE IInv'
    BY <2>2, CrashKeeps
  <2>3. CASE (SD!Remove \/ \E shape \in ForeignShapes : SD!ClaimByOutsider(shape)) /\ UNCHANGED mapVars
    <3>1. UNCHANGED <<phase, queue, request>>
      BY <2>3 DEF SD!Remove, SD!ClaimByOutsider
    <3>2. DocInv' /\ Calm
      BY <3>1, SameDocuments DEF IInv
    <3> QED BY <2>3, <3>2, StillMaps, MapFrame
  <2> QED BY <1>7, <2>1, <2>2, <2>3 DEF Fault
<1>8. CASE Tick
  <2>1. DocInv' /\ Calm
    BY <1>8, TickIsCalm DEF Tick, IInv
  <2> QED BY <1>8, <2>1, StillMaps, MapFrame DEF Tick
<1> QED BY <1>1, <1>2, <1>3, <1>4, <1>5, <1>6, <1>7, <1>8 DEF Next

-----------------------------------------------------------------------------
(* Theorems.                                                               *)

(* The maps hold what their declarations say.                              *)
THEOREM TypeCorrect == Spec => []TypeOK
<1>1. IInv => TypeOK
  BY DEF IInv
<1> QED BY <1>1, InitIInv, NextIInv, PTL DEF Spec

(* No document stays open that its server cannot end any more: it is its   *)
(* player's entry in `documents', or a release of it is queued.            *)
THEOREM NobodyIsOrphaned == Spec => []NoOrphan
<1>1. IInv => NoOrphan
  BY DEF IInv, Orphanless, NoOrphan, Closing
<1> QED BY <1>1, InitIInv, NextIInv, PTL DEF Spec

LEMMA StepIsDocuments ==
  ASSUME IInv, [Next]_vars
  PROVE  [SD!Next]_(SD!vars)
<1>1. UNCHANGED docVars => UNCHANGED SD!vars
  BY DEF docVars, SD!vars
<1>2. CASE UNCHANGED vars
  BY <1>1, <1>2 DEF vars
<1>3. CASE Continue
  <2>1. ASSUME NEW d \in Sessions, SD!RunWork(d) PROVE SD!Next
    BY <2>1 DEF SD!Next
  <2>2. ASSUME SD!Quiet, NEW p \in Players, Begin(p) PROVE SD!Next
    BY <2>2, ClaimIsAlone DEF Begin, SD!Next, SD!Acquire
  <2>3. ASSUME SD!Quiet, NEW p \in Players, ReleaseAfterLoad(p) PROVE SD!Next \/ UNCHANGED docVars
    <3>1. documents[p] # NoOne => documents[p] \in Sessions
      BY DEF IInv, TypeOK
    <3>2. UNCHANGED docVars \/ (documents[p] # NoOne /\ SD!Release(documents[p]))
      BY <2>3 DEF ReleaseAfterLoad
    <3> QED BY <2>3, <3>1, <3>2 DEF SD!Next, SD!Call
  <2>4. ASSUME NEW d \in Sessions, ReleaseDone(d) PROVE UNCHANGED docVars
    BY <2>4 DEF ReleaseDone
  <2> QED BY <1>1, <1>3, <2>1, <2>2, <2>3, <2>4 DEF Continue
<1>4. ASSUME NEW p \in Players, EndSession(p), SD!Quiet PROVE SD!Next \/ UNCHANGED docVars
  <2>1. documents[p] # NoOne => documents[p] \in Sessions
    BY DEF IInv, TypeOK
  <2>2. UNCHANGED docVars \/ (documents[p] # NoOne /\ SD!Release(documents[p]))
    BY <1>4 DEF EndSession
  <2> QED BY <1>4, <2>1, <2>2 DEF SD!Next, SD!Call
<1>5. CASE Settled /\ Progress
  <2>0. SD!Quiet
    BY <1>5 DEF Settled
  <2>1. ASSUME NEW p \in Players, LoadStep(p) PROVE SD!Next
    <3>1. CASE LoadRetries(p)
      BY <2>0, <3>1, ClaimIsAlone DEF LoadRetries, SD!Next, SD!Acquire
    <3>2. CASE LoadOpens(p) \/ LoadRefused(p)
      <4>1. Session(p) \in Sessions
        BY <3>2, ClaimantIsFirst DEF LoadOpens, LoadRefused
      <4>2. SD!Open(Session(p)) \/ SD!ClaimRefused(Session(p))
        BY <3>2 DEF LoadOpens, LoadRefused
      <4> QED BY <2>0, <4>1, <4>2 DEF SD!Next, SD!Step
    <3> QED BY <2>1, <3>1, <3>2 DEF LoadStep
  <2>2. ASSUME NEW p \in Players, ForgetReleased(p) PROVE UNCHANGED docVars
    BY <2>2 DEF ForgetReleased
  <2>3. ASSUME NEW d \in Sessions, DocumentStep(d) PROVE SD!Next
    BY <2>0, <2>3 DEF DocumentStep, RecordStep, SD!Next, SD!Step
  <2> QED BY <1>1, <1>5, <2>1, <2>2, <2>3 DEF Progress
<1>6. ASSUME Settled, NEW p \in Players, Load(p) \/ WaitFor(p) PROVE SD!Next \/ UNCHANGED docVars
  <2>1. SD!Quiet /\ Load(p)
    BY <1>6 DEF Settled, WaitFor
  <2>2. CASE ~Displaces(p)
    BY <2>1, <2>2 DEF Load
  <2>3. CASE Displaces(p)
    <3>1. EndSession(holders[ServerOf[p]]) /\ holders[ServerOf[p]] \in Players
      BY <2>1, <2>3, PlayersAssumption DEF Load, Displaces, IInv, TypeOK
    <3> QED BY <1>4, <2>1, <3>1
  <2> QED BY <2>2, <2>3
<1>7. ASSUME Settled, NEW p \in Players, Release(p) PROVE SD!Next \/ UNCHANGED docVars
  BY <1>4, <1>7 DEF Release, Settled
<1>8. CASE Settled /\ Calls
  BY <1>8 DEF Settled, Calls, DocumentCall, ReleaseDocument, SD!Next, SD!Call
<1>9. CASE Settled /\ (Fault \/ Tick)
  BY <1>9 DEF Settled, Fault, RequestFails, Crash, Tick, SD!Next, SD!Fault
<1> QED BY <1>1, <1>2, <1>3, <1>5, <1>6, <1>7, <1>8, <1>9 DEF Next

(* player-store.ts:356-363: the maps see to it that no server claims the   *)
(* key while a session of its own can still write it, so the documents of  *)
(* a player store are documents as StoreDocument describes them.           *)
THEOREM DocumentsAreSound == Spec => DocumentSpec
<1>1. Init => SD!Init
  BY DEF Init
<1>2. IInv /\ [Next]_vars => [SD!Next]_(SD!vars)
  BY StepIsDocuments
<1> QED BY <1>1, <1>2, InitIInv, NextIInv, PTL DEF Spec, DocumentSpec, SD!Spec

-----------------------------------------------------------------------------
(* What is proved of documents holds of a player store's.                  *)

(* `SD' and `DP' name the same text twice.                                *)
LEMMA SameInit == SD!Init <=> DP!Init
BY DEF
     SD!Init, SD!Absent, SD!NoRequest, SD!NotArmed, DP!Init, DP!Absent,
     DP!NoRequest, DP!NotArmed

LEMMA SameStep == SD!Next <=> DP!Next
BY DEF
     SD!recordVars, SD!docVars, SD!NotArmed, SD!Shapes, SD!Ops, SD!NoRequest,
     SD!HalfTtl, SD!WrittenAge, SD!Older, SD!Clean, SD!InFlight, SD!Writing,
     SD!Sent, SD!Replied, SD!GiveUp, SD!CanRetry, SD!AttemptFails,
     SD!RequestUnavailable, SD!Blocking, SD!Decodes, SD!Claimable,
     SD!StartAcquire, SD!Acquire, SD!ClaimLands, SD!ClaimRefused, SD!Open,
     SD!Stage, SD!Enqueue, SD!Save, SD!Release, SD!HeartbeatFires,
     SD!LockDue, SD!Ready, SD!Dequeue, SD!Send, SD!RunClosed,
     SD!FlushNothing, SD!Flush, SD!Forget, SD!RunRelease, SD!Refused,
     SD!AlreadyThere, SD!Written, SD!WriteLands, SD!WriteCancelled,
     SD!Confirmed, SD!WriteAnswered, SD!WriteRefused, SD!Crash, SD!Remove,
     SD!ClaimByOutsider, SD!Tick, SD!Idle, SD!Quiet, SD!RunWork, SD!Step,
     SD!Call, SD!Fault, SD!Next, SD!Live, SD!SoleOnServer, SD!Absent,
     DP!recordVars, DP!docVars, DP!NotArmed, DP!Shapes, DP!Ops, DP!NoRequest,
     DP!HalfTtl, DP!WrittenAge, DP!Older, DP!Clean, DP!InFlight, DP!Writing,
     DP!Sent, DP!Replied, DP!GiveUp, DP!CanRetry, DP!AttemptFails,
     DP!RequestUnavailable, DP!Blocking, DP!Decodes, DP!Claimable,
     DP!StartAcquire, DP!Acquire, DP!ClaimLands, DP!ClaimRefused, DP!Open,
     DP!Stage, DP!Enqueue, DP!Save, DP!Release, DP!HeartbeatFires,
     DP!LockDue, DP!Ready, DP!Dequeue, DP!Send, DP!RunClosed,
     DP!FlushNothing, DP!Flush, DP!Forget, DP!RunRelease, DP!Refused,
     DP!AlreadyThere, DP!Written, DP!WriteLands, DP!WriteCancelled,
     DP!Confirmed, DP!WriteAnswered, DP!WriteRefused, DP!Crash, DP!Remove,
     DP!ClaimByOutsider, DP!Tick, DP!Idle, DP!Quiet, DP!RunWork, DP!Step,
     DP!Call, DP!Fault, DP!Next, DP!Live, DP!SoleOnServer, DP!Absent

LEMMA DocumentsOfProofs == Spec => DP!Spec
<1>1. [SD!Next]_(SD!vars) => [DP!Next]_(DP!vars)
  BY SameStep DEF SD!vars, DP!vars
<1>2. SD!Spec => DP!Spec
  BY <1>1, SameInit, PTL DEF SD!Spec, DP!Spec
<1> QED BY <1>2, DocumentsAreSound DEF DocumentSpec

LEMMA DocumentFacts == Home \in [Sessions -> Servers]
BY PlayersAssumption DEF Home, Sessions

(* However players join, leave and rejoin: the lock in the record names    *)
(* the server of the session that claimed last, and no server has two      *)
(* sessions that can still write the key.                                  *)
THEOREM LockHolds ==
  ASSUME DP!OnlyLegible
  PROVE  Spec => []DocumentInv
<1>1. DP!Spec => []DP!LockInv
  BY DocumentFacts, DocumentsAssumption, DP!LockCorrect
<1>2. DP!LockInv => DocumentInv
  BY DEF DocumentInv,
     SD!LockInv, SD!LockNamesHolder, SD!OneWriterPerServer, SD!OwnLockIsMine,
     SD!Live, SD!Writing, SD!Ops, DP!LockInv, DP!LockNamesHolder,
     DP!OneWriterPerServer, DP!OwnLockIsMine, DP!Live, DP!Writing, DP!Ops
<1> QED BY <1>1, <1>2, DocumentsOfProofs, PTL

(* docs/stores.md:168: what an open session that holds the lock was told   *)
(* is saved is in the record, whichever player of whichever server saved,  *)
(* left or came back meanwhile.                                            *)
THEOREM SavesAreKept ==
  ASSUME DP!OnlyLegible
  PROVE  Spec => []SavesStay
<1>1. DP!Spec => []DP!AckedIsStored
  BY DocumentFacts, DocumentsAssumption, DP!SavesAreStored
<1>2. DP!AckedIsStored => SavesStay
  BY DEF SavesStay, SD!AckedIsStored, DP!AckedIsStored
<1> QED BY <1>1, <1>2, DocumentsOfProofs, PTL
=============================================================================
