--------------------------- MODULE MCPlayerStore ---------------------------
(* One server, on which p1 leaves and p2 is the same user rejoining; other *)
(* servers are the Outsider, who takes the lock when it is free.           *)
EXTENDS PlayerStore, TLC
CONSTANTS A, p1, p2,
  MaxEvents   \* bound: calls of the game on documents, and as many faults
VARIABLE events    \* how many there were of each

OneServer == {A}
Rejoiners == {p1, p2}
RejoinOnA == p1 :> A @@ p2 :> A

(* The key is absent, or holds the value an absent one reads as.          *)
MCInit == Init /\ record.value = Default /\ events = [calls |-> 0, faults |-> 0]
Counted(sort) == events[sort] < MaxEvents /\ events' = [events EXCEPT ![sort] = @ + 1]
MCNext ==
  \/ /\ \/ Continue
        \/ /\ Settled
           /\ \/ Progress
              \/ \E p \in Players : Patient(p) /\ (Load(p) \/ WaitFor(p))
              \/ \E p \in Players : Once(p) /\ Release(p)
              \/ Tick
     /\ UNCHANGED events
  \/ Settled /\ Calls /\ Counted("calls")
  \/ Settled /\ Fault /\ Counted("faults")
MCSpec == MCInit /\ [][MCNext]_<<vars, events>>
MCFairness ==
  FairNext /\ \A d \in Sessions : SF_vars(Settled /\
    (RequestStep(d) \/ (events.faults < MaxEvents /\ RequestFails(d))))
MCFairSpec == MCSpec /\ MCFairness

(* The game reloads a player while document.release() is still writing.    *)
HastyNext == MCNext \/ (Settled /\ (\E p \in Players : Load(p)) /\ UNCHANGED events)
HastySpec == MCInit /\ [][HastyNext]_<<vars, events>>
=============================================================================
