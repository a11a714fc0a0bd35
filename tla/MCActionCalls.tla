--------------------------- MODULE MCActionCalls ----------------------------
(* One player and four calls: an idempotent one and one that is not, both  *)
(* retried, and either a third that shares a key with the first (a second  *)
(* click) or a one-way one.  The budget refills when a call is there to be *)
(* charged.  The game's, the player's and the clock's decisions in a       *)
(* behaviour are bounded; everything that follows from them is not.        *)
EXTENDS ActionCalls, TLC
CONSTANTS player, safe, buy, again, fire, ka, kb,
  MaxEvents   \* bound: timeouts, cancellations, lapses, refusals, failures, a leave
VARIABLE events    \* how many there were

OnePlayer == {player}
MCCalls == {safe, buy, again, fire}
MCKeys == {ka, kb}
MCCaller == [c \in MCCalls |-> player]
MCRetries == safe :> 1 @@ buy :> 1 @@ again :> 0 @@ fire :> 0
MCKeyFor == safe :> ka @@ buy :> kb @@ again :> ka @@ fire :> NoKey

Third(c) == c \in {again, fire} => status[again] = "idle" /\ status[fire] = "idle"

Event ==
  \/ \E c \in Calls : TimeOut(c) \/ Cancel(c)
  \/ /\ UNCHANGED clientVars
     /\ \/ \E r \in Requests : \/ Server!Lapse(r) \/ Server!Finish(r, "failed")
                               \/ \E why \in {"limited", "invalid", "forbidden"} : Server!Refuse(r, why)
        \/ \E q \in Players : Server!Leave(q)
Step ==
  \/ \E c \in Calls : Wake(c) \/ (Invoke(c) /\ Third(c))
  \/ \E q \in Players : Hear(q)
  \/ /\ UNCHANGED clientVars
     /\ \/ \E q \in Players : Server!Receive(q) \/ (up[q] # <<>> /\ Server!Refill(q))
        \/ \E r \in Requests : Server!Run(r) \/ Server!Finish(r, "ok")

MCInit == Init /\ events = 0
MCNext ==
  \/ Step /\ UNCHANGED events
  \/ events < MaxEvents /\ Event /\ events' = events + 1
MCSpec == MCInit /\ [][MCNext]_<<vars, events>>
MCFairSpec == MCSpec /\ ClientFairness /\ Server!ServerFairness
=============================================================================
