--------------------------- MODULE ResourceItems ---------------------------
(***************************************************************************)
(* What a resource host and its clients share: who there is, what may be   *)
(* written, and the items on the wire (wire.ts, resource.ts).  There is one*)
(* resource, of either scope.                                              *)
(*                                                                         *)
(* A value is the set of writes it contains: an action call writes itself, *)
(* and a push is a write of the server's own.  Nothing is ever overwritten,*)
(* so a value tells which writes a load saw.                               *)
(***************************************************************************)
EXTENDS Integers, Sequences, FiniteSets

CONSTANTS
  Players,
  Calls,    \* optimistic calls, by idempotency key
  Caller,   \* Caller[c]: the player who makes call c
  Pushes,   \* writes of the server that no call asked for
  NoValue   \* no value yet, or none in an error item

ASSUME ItemsAssumption ==
  /\ Caller \in [Calls -> Players]
  /\ Calls \cap Pushes = {}
  /\ IsFiniteSet(Calls)

Values == SUBSET (Calls \cup Pushes)

(* A state item: its revision, its value or its error, and the calls of its*)
(* recipient that it delivers.                                             *)
StateItem(at, value, error) ==
  [t |-> "state", v |-> at, d |-> value, e |-> error, k |-> {}]
StateItems ==
  [t: {"state"}, v: Nat \ {0}, d: Values \cup {NoValue},
   e: {"none", "load", "forbidden"}, k: SUBSET Calls]

(* A response, and whether the item that delivers its call is still to be  *)
(* queued.                                                                 *)
Response(c, pending) == [t |-> "response", i |-> c, p |-> pending]
Responses == [t: {"response"}, i: Calls, p: BOOLEAN]

Items == StateItems \cup Responses

MergedForgetful(queued, incoming) == incoming  \* mutant: the queued item's keys are lost
(* What replaces a state item still in the outbox carries its keys too.    *)
Merged(queued, incoming) == [incoming EXCEPT !.k = @ \cup queued.k]

(* The outbox keeps one state item per frame, in the place of the first.   *)
Replace(outbox, item) ==
  IF \E i \in DOMAIN outbox : outbox[i].t = "state"
  THEN [i \in DOMAIN outbox |->
          IF outbox[i].t = "state" THEN Merged(outbox[i], item) ELSE outbox[i]]
  ELSE Append(outbox, item)
=============================================================================
