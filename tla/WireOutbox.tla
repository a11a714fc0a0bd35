----------------------------- MODULE WireOutbox -----------------------------
(***************************************************************************)
(* The outbox of a wire channel (wire.ts, `createWireOutbox`): the items a *)
(* side produced, one after the other, and the frames they leave in.  And  *)
(* what `createNetworkMetrics` counts of frames (network-metrics.ts).      *)
(***************************************************************************)
EXTENDS Naturals, Sequences, FiniteSets, SequencesExt

CONSTANTS
  Players, Everyone,
  MaxFrameItems,   \* WIRE_MAX_FRAME_ITEMS
  MaxKeys, Other   \* ids a map of the metrics keeps, and the entry of the rest

ASSUME OutboxAssumption ==
  Everyone \notin Players /\ MaxFrameItems \in Nat \ {0} /\ MaxKeys \in Nat \ {0}

Queued(to, item) == [to |-> to, item |-> item]
Frame(to, items) == [to |-> to, items |-> items]

(* `replace`: a later item with the same key takes the queued one's place. *)
(* What is merged is remembered in `holds`.                                *)
SameKey(q, to, item) == q.to = to /\ q.item.kind = "state" /\ q.item.id = item.id
Replaced(queue, to, item) ==
  IF \E i \in DOMAIN queue : SameKey(queue[i], to, item)
  THEN [i \in DOMAIN queue |->
          IF SameKey(queue[i], to, item)
          THEN Queued(to, [item EXCEPT !.holds = @ \cup queue[i].item.holds])
          ELSE queue[i]]
  ELSE Append(queue, Queued(to, item))

(* The elements of s at some places, in order.                             *)
At(s, places) == FlattenSeq([i \in DOMAIN s |-> IF i \in places THEN <<s[i]>> ELSE <<>>])

-----------------------------------------------------------------------------
(* `flush` groups the queue: a run of targeted items makes one fire per    *)
(* recipient, in the order they first appear; a broadcast closes the run   *)
(* before it, and the other way round.                                     *)
JoinsAny(fires, q, k) == fires[k].to = q.to  \* mutant: a broadcast does not close the run
Joins(fires, q, k) ==
  /\ fires[k].to = q.to
  /\ \A m \in k + 1 .. Len(fires) : q.to # Everyone /\ fires[m].to \notin {q.to, Everyone}

Joined(fires, q) ==
  IF \E k \in DOMAIN fires : Joins(fires, q, k)
  THEN [fires EXCEPT ![CHOOSE k \in DOMAIN fires : Joins(fires, q, k)].items = Append(@, q.item)]
  ELSE Append(fires, Frame(q.to, <<q.item>>))
Fires(queue) ==
  LET upTo[n \in 0 .. Len(queue)] == IF n = 0 THEN <<>> ELSE Joined(upTo[n - 1], queue[n])
  IN  upTo[Len(queue)]

(* A fire of many items is split over frames.                              *)
Split(fire) ==
  LET n == Len(fire.items)  count == (n + MaxFrameItems - 1) \div MaxFrameItems
      last(i) == IF i = count THEN n ELSE i * MaxFrameItems
  IN  [i \in 1 .. count |->
         Frame(fire.to, SubSeq(fire.items, (i - 1) * MaxFrameItems + 1, last(i)))]
Frames(queue) == LET fires == Fires(queue) IN FlattenSeq([i \in DOMAIN fires |-> Split(fires[i])])

(* readWireFrame: a frame with too many items is dropped whole.            *)
ItemsOf(frame) == IF Len(frame.items) \in 1 .. MaxFrameItems THEN frame.items ELSE <<>>

-----------------------------------------------------------------------------
(* The metrics of frames: items by kind, and signals by id.                *)
NoCounts == [frames |-> 0, response |-> 0, signal |-> 0, state |-> 0, signals |-> <<>>]

(* entryOf: a map keeps MaxKeys ids, and counts the rest under one.        *)
Slot(map, id) == IF id \in DOMAIN map \/ Cardinality(DOMAIN map) < MaxKeys THEN id ELSE Other
BumpedKept(map, slot) ==  \* mutant: the rest are not counted
  [k \in (DOMAIN map \cup {slot}) \ {Other} |->
     (IF k \in DOMAIN map THEN map[k] ELSE 0) + (IF k = slot THEN 1 ELSE 0)]
Bumped(map, slot) ==
  [k \in DOMAIN map \cup {slot} |->
     (IF k \in DOMAIN map THEN map[k] ELSE 0) + (IF k = slot THEN 1 ELSE 0)]

Observed(m, item) ==
  [m EXCEPT ![item.kind] = @ + 1,
            !.signals = IF item.kind = "signal" THEN Bumped(@, Slot(@, item.id)) ELSE @]

(* observeFrame, for all frames that are built in a step.                  *)
ObserveAll(m, frames) ==
  LET items == FlattenSeq([i \in DOMAIN frames |-> ItemsOf(frames[i])])
      upTo[n \in 0 .. Len(items)] == IF n = 0 THEN m ELSE Observed(upTo[n - 1], items[n])
  IN  [upTo[Len(items)] EXCEPT !.frames = @ + Len(frames)]
=============================================================================
