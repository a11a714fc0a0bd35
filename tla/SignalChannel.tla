---------------------------- MODULE SignalChannel ----------------------------
(***************************************************************************)
(* The ordered reliable channel from a server to its players (wire.ts),    *)
(* with what produces items for it: the signal publisher                   *)
(* (signal-runtime.ts), responses (roblox.ts) and resource states; and the *)
(* clients that read it, one frame after the other.                        *)
(***************************************************************************)
EXTENDS WireOutbox

CONSTANTS
  Signals, Loose,   \* ids of signals, and of the unreliable ones
  Groups,           \* whom `to` and `toMany` publish to: sequences of players
  Batches,          \* BatchOf[b]: the recipient, the signal and the size of a `toBatched`
  BatchOf, ChunkSize,
  MaxMade           \* bound: items produced, the rest of a batch apart

ASSUME ChannelAssumption ==
  /\ Loose \subseteq Signals /\ Other \notin Signals
  /\ Groups \subseteq Seq(Players)
  /\ BatchOf \in [Batches -> [to: Players, signal: Signals, size: Nat]]
  /\ ChunkSize \in Nat \ {0}

VARIABLES
  batching,  \* whether the channel queues, or fires each item at once
  yields,    \* whether a handler may yield before it returns
  queue,     \* the outbox
  wire,      \* wire[p]: frames on their way to p
  rest,      \* rest[p]: of frames whose reading a handler suspended, the items left
  read,      \* read[p]: the items p took out of its frames, in order
  skipped,   \* skipped[p]: places in it of those no handler was given
  threw,     \* threw[p]: how often a handler of p's dropped the rest of a frame
  gone,      \* players who left
  batch,     \* batch[b]: payloads sent, and how it ended
  counts,    \* the metrics
  made,      \* history: items produced
  owed,      \* history: owed[p], what was entrusted to the channel for p, in order
  pushed     \* history: how many pushes of each kind

wireVars == <<queue, wire, counts>>
reading == <<rest, read, skipped, threw>>
history == <<made, owed, pushed>>
modes == <<batching, yields>>
channelVars == <<modes, wireVars, reading, gone, batch, history>>

Item(kind, id) == [kind |-> kind, id |-> id, n |-> made + 1, holds |-> {made + 1}]

ChannelInit ==
  /\ batching \in BOOLEAN /\ yields \in IF batching THEN BOOLEAN ELSE {FALSE}
  /\ queue = <<>> /\ wire = [p \in Players |-> <<>>]
  /\ rest = [p \in Players |-> <<>>] /\ read = [p \in Players |-> <<>>]
  /\ skipped = [p \in Players |-> {}] /\ threw = [p \in Players |-> 0]
  /\ gone = {}
  /\ batch = [b \in Batches |-> [sent |-> 0, end |-> "none"]]
  /\ counts = NoCounts
  /\ made = 0 /\ owed = [p \in Players |-> <<>>]
  /\ pushed = [response |-> 0, signal |-> 0, state |-> 0]

-----------------------------------------------------------------------------
(* To fire at a player who left fails; a flush warns of it, and goes on.   *)
Arriving(p, frames) == At(frames, {i \in DOMAIN frames : frames[i].to \in {p, Everyone}})
Deliver(frames) ==
  wire' = [p \in Players |-> IF p \in gone THEN wire[p] ELSE wire[p] \o Arriving(p, frames)]

(* Unbatched, the caller fails with the first recipient that does, and so  *)
(* never gets to those after it.                                           *)
UpToFailing(group) ==
  LET failing == {i \in DOMAIN group : group[i] \in gone} IN
  IF failing = {} THEN group
  ELSE SubSeq(group, 1, CHOOSE i \in failing : \A j \in failing : i <= j)
Alone(group, item) == [i \in DOMAIN group |-> Frame(group[i], <<item>>)]

Count(n, item) ==
  made' = made + 1 /\ pushed' = [pushed EXCEPT ![item.kind] = @ + n]
Owe(group, item) ==
  owed' = [p \in Players |->
    owed[p] \o At([i \in DOMAIN group |-> item], {i \in DOMAIN group : group[i] \in {p, Everyone}})]

(* `push`, once per recipient, or `pushAll`.                               *)
Push(group, item) ==
  \/ /\ batching
     /\ queue' = queue \o [i \in DOMAIN group |-> Queued(group[i], item)]
     /\ Count(Len(group), item) /\ Owe(group, item)
     /\ UNCHANGED <<wire, counts>>
  \/ /\ ~batching
     /\ LET reached == UpToFailing(group)  frames == Alone(reached, item) IN
        /\ Deliver(frames) /\ counts' = ObserveAll(counts, frames)
        /\ Count(Len(reached), item) /\ Owe(reached, item)
     /\ UNCHANGED queue

(* An unreliable signal goes out at once, in one frame for all it is for;  *)
(* it may arrive or not, in any order, and so it is not followed.          *)
FireLoose(item) ==
  /\ counts' = ObserveAll(counts, <<Frame(Everyone, <<item>>)>>)
  /\ Count(1, item)
  /\ UNCHANGED <<queue, wire, owed>>

Emit(group, s) ==
  LET item == Item("signal", s) IN IF s \in Loose THEN FireLoose(item) ELSE Push(group, item)

(* `to`, `toMany`; `toAll` for the group of Everyone.                      *)
Publish(group, s) ==
  /\ made < MaxMade
  /\ Emit(group, s)
  /\ UNCHANGED <<modes, reading, gone, batch>>

(* The response of a call.                                                 *)
Respond(p) ==
  /\ made < MaxMade
  /\ Push(<<p>>, Item("response", "none"))
  /\ UNCHANGED <<modes, reading, gone, batch>>

(* A resource's newest state.                                              *)
SendState(p) ==
  /\ made < MaxMade
  /\ LET item == Item("state", "none") IN
     \/ /\ batching
        /\ queue' = Replaced(queue, p, item)
        /\ Count(1, item) /\ Owe(<<p>>, item)
        /\ UNCHANGED <<wire, counts>>
     \/ ~batching /\ Push(<<p>>, item)
  /\ UNCHANGED <<modes, reading, gone, batch>>

(* `toBatched`: a chunk of payloads, and then a yield.  A payload that is  *)
(* invalid, or a fire that fails, rejects.                                 *)
NextOfBatch(b) ==
  LET to == BatchOf[b].to  s == BatchOf[b].signal  sent == batch[b].sent + 1
      failed == (~batching \/ s \in Loose) /\ to \in gone IN
  /\ batch[b].end = "none" /\ batch[b].sent < BatchOf[b].size
  /\ \/ /\ Emit(<<to>>, s)
        /\ batch' = [batch EXCEPT ![b].sent = sent,
             ![b].end = IF failed THEN "rejected"
                        ELSE IF sent = BatchOf[b].size THEN "resolved"
                        ELSE IF sent % ChunkSize = 0 THEN "waits" ELSE "none"]
     \/ batch' = [batch EXCEPT ![b].end = "rejected"] /\ UNCHANGED <<wireVars, history>>
  /\ UNCHANGED <<modes, reading, gone>>

(* A chunk goes out in one go.                                             *)
Busy == \E b \in Batches : batch[b].end = "none" /\ batch[b].sent > 0
Begins(b) == made < MaxMade /\ NextOfBatch(b) /\ batch[b].sent = 0
Continues(b) == NextOfBatch(b) /\ batch[b].sent > 0
Resumes(b) ==
  /\ batch[b].end = "waits"
  /\ batch' = [batch EXCEPT ![b].end = "none"]
  /\ UNCHANGED <<modes, wireVars, reading, gone, history>>

(* RunService.Heartbeat.                                                   *)
Flush ==
  /\ queue # <<>>
  /\ LET frames == Frames(queue) IN
     /\ Deliver(frames) /\ counts' = ObserveAll(counts, frames)
  /\ queue' = <<>>
  /\ UNCHANGED <<modes, reading, gone, batch, history>>

-----------------------------------------------------------------------------
(* createClientChannel: the items of a frame are handed to their handlers  *)
(* one after the other.  The first k are taken; a yield suspends the rest. *)
Take(p, items, k, others) ==
  /\ read' = [read EXCEPT ![p] = @ \o SubSeq(items, 1, k)]
  /\ rest' = [rest EXCEPT ![p] =
       IF k = Len(items) THEN others ELSE Append(others, SubSeq(items, k + 1, Len(items)))]
Handle(p, items, others) ==
  /\ \E k \in 1 .. Len(items) : (k = Len(items) \/ yields) /\ Take(p, items, k, others)
  /\ UNCHANGED <<skipped, threw>>

ThrowAway(p, items, k, others) ==  \* mutant: with the frame goes what other handlers suspended
  /\ k < Len(items)
  /\ Take(p, items, Len(items), <<>>)
  /\ skipped' = [skipped EXCEPT ![p] = @ \cup (Len(read[p]) + k + 1 .. Len(read[p]) + Len(items))]
  /\ threw' = [threw EXCEPT ![p] = @ + 1]
(* Handlers are not protected: one that throws ends the frame's callback,  *)
(* and no handler is given the items behind its own, the k-th.             *)
Throw(p, items, k, others) ==
  /\ k < Len(items)
  /\ Take(p, items, Len(items), others)
  /\ skipped' = [skipped EXCEPT ![p] = @ \cup (Len(read[p]) + k + 1 .. Len(read[p]) + Len(items))]
  /\ threw' = [threw EXCEPT ![p] = @ + 1]

Receive(p) ==
  /\ wire[p] # <<>>
  /\ LET items == ItemsOf(Head(wire[p])) IN
     IF items = <<>> THEN UNCHANGED reading
     ELSE Handle(p, items, rest[p]) \/ \E k \in 1 .. Len(items) : Throw(p, items, k, rest[p])
  /\ wire' = [wire EXCEPT ![p] = Tail(@)]
  /\ UNCHANGED <<modes, queue, gone, batch, counts, history>>

(* A handler that had yielded returns, or throws.                          *)
HandlerEnds(p) ==
  /\ \E i \in DOMAIN rest[p] :
       LET items == rest[p][i]  others == RemoveAt(rest[p], i) IN
       Handle(p, items, others) \/ \E k \in 0 .. Len(items) : Throw(p, items, k, others)
  /\ UNCHANGED <<modes, wireVars, gone, batch, history>>

Leave(p) ==
  /\ p \notin gone
  /\ gone' = gone \cup {p}
  /\ wire' = [wire EXCEPT ![p] = <<>>] /\ rest' = [rest EXCEPT ![p] = <<>>]
  /\ UNCHANGED <<modes, queue, read, skipped, threw, batch, counts, history>>

Producers ==
  \/ \E group \in Groups \cup {<<Everyone>>}, s \in Signals : Publish(group, s)
  \/ \E p \in Players : Respond(p) \/ SendState(p)
  \/ \E b \in Batches : Begins(b) \/ Resumes(b)

ChannelNext ==
  \/ ~Busy /\ Producers
  \/ \E b \in Batches : Continues(b)
  \/ ~Busy /\ (Flush \/ \E p \in Players : Leave(p))
  \/ \E p \in Players : Receive(p) \/ HandlerEnds(p)

ChannelSpec == ChannelInit /\ [][ChannelNext]_channelVars

-----------------------------------------------------------------------------
Items ==
  [kind: {"signal"}, id: Signals, n: Nat, holds: SUBSET Nat]
    \cup [kind: {"response", "state"}, id: {"none"}, n: Nat, holds: SUBSET Nat]
ChannelTypeOK ==
  /\ batching \in BOOLEAN /\ yields \in BOOLEAN /\ (yields => batching)
  /\ queue \in Seq([to: Players \cup {Everyone}, item: Items]) /\ (~batching => queue = <<>>)
  /\ wire \in [Players -> Seq([to: Players \cup {Everyone}, items: Seq(Items)])]
  /\ rest \in [Players -> Seq(Seq(Items))] /\ (~yields => rest = [p \in Players |-> <<>>])
  /\ read \in [Players -> Seq(Items)] /\ owed \in [Players -> Seq(Items)]
  /\ skipped \in [Players -> SUBSET Nat] /\ threw \in [Players -> Nat]
  /\ gone \subseteq Players
  /\ batch \in [Batches -> [sent: Nat, end: {"none", "waits", "resolved", "rejected"}]]
  /\ counts \in [frames: Nat, response: Nat, signal: Nat, state: Nat, signals: {counts.signals}]
  /\ DOMAIN counts.signals \subseteq Signals \cup {Other}
  /\ counts.signals \in [DOMAIN counts.signals -> Nat]
  /\ made \in Nat /\ pushed \in [response: Nat, signal: Nat, state: Nat]

OfKind(items, kinds) == At(items, {i \in DOMAIN items : items[i].kind \in kinds})
Flat(frames) == FlattenSeq([i \in DOMAIN frames |-> frames[i].items])
Waiting == [i \in DOMAIN queue |-> queue[i].item]
InQueue(p) == At(Waiting, {i \in DOMAIN queue : queue[i].to \in {p, Everyone}})
Coming(p) == FlattenSeq(rest[p]) \o Flat(wire[p]) \o InQueue(p)
Plain(items) == OfKind(items, {"signal", "response"})
States(items) == OfKind(items, {"state"})
Held(items) == UNION {items[i].holds : i \in DOMAIN items}
Times(x, items) == Len(At(items, {i \in DOMAIN items : items[i] = x}))
SameItems(s, t) == \A x \in Range(s) \cup Range(t) : Times(x, s) = Times(x, t)

(* What was produced for a player who stays reaches its handlers, signals, *)
(* broadcasts and responses together, nothing lost and nothing twice; of   *)
(* states, what the replaced ones carried too; and as long as no handler   *)
(* yields, all in the order it was produced (wire.ts:17-26, 492-507;       *)
(* docs/wire-protocol.md:25-36).  Only a handler that throws loses items,  *)
(* the rest of its frame and none of another.                              *)
ReadInOrder ==
  \A p \in Players \ gone :
    LET all == read[p] \o Coming(p) IN
    /\ SameItems(Plain(all), Plain(owed[p])) /\ Held(all) = Held(owed[p])
    /\ ~yields =>
         /\ Plain(all) = Plain(owed[p])
         /\ \A i, j \in DOMAIN States(all) : i < j => States(all)[i].n < States(all)[j].n
    /\ Cardinality(skipped[p]) <= threw[p] * (MaxFrameItems - 1)

(* What the metrics counted is what was entrusted to the channel and is not*)
(* queued any more; a state that took a queued one's place counts once; and*)
(* ids beyond the limit are counted together (network-metrics.ts:11-20).   *)
CountsMatch ==
  LET waiting(kind) == Len(OfKind(Waiting, {kind}))
      sum == FoldFunction(+, 0, counts.signals) IN
  /\ counts.response + waiting("response") = pushed.response
  /\ counts.signal + waiting("signal") = pushed.signal /\ sum = counts.signal
  /\ counts.state + waiting("state") <= pushed.state
  /\ Cardinality(DOMAIN counts.signals) <= MaxKeys + 1
=============================================================================
