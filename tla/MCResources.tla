---------------------------- MODULE MCResources ----------------------------
(* The game's and the players' own decisions in one behaviour are bounded, *)
(* everything that follows from them is not.  Where loads read late, one   *)
(* player makes two calls; where they do not, two players meet pushes.     *)
EXTENDS Resources, TLC
CONSTANTS p1, p2, c1, c2,
  MaxEvents,      \* bound: subscriptions, refreshes, refusals, failures, ...
  MaxLateEvents   \* the same where loads read late
VARIABLE events    \* how many there were

MCPlayers == {p1, p2}
MCCalls == {c1, c2}
MCCaller == [c \in Calls |-> p1]
MaxHere == IF late THEN MaxLateEvents ELSE MaxEvents

(* p1 makes the calls and meets every difficulty; another player only      *)
(* subscribes to what is global, and refreshes, and goes.                  *)
Event ==
  \/ Leave(p1)
  \/ ClientStep(p1) /\ (called'[c2] = "new" \/ late)
  \/ ~late /\ scope = "global" /\ \E p \in Players \ {p1} : ClientStep(p)
  \/ ~late /\ \E k \in Keys, w \in Pushes : Push(k, w) /\ UNCHANGED <<clientVars, down>>
  \/ \E k \in Keys : LateRead(k) /\ UNCHANGED <<clientVars, down>>
  \/ Authorize(p1) /\ UNCHANGED <<clientVars, down>>
  \/ \E c \in Calls : CallStep(c)

MCInit == Init /\ events = 0
MCNext ==
  \/ Step /\ UNCHANGED events
  \/ /\ events < MaxHere /\ events' = events + 1
     /\ \/ \E k \in Keys : LoadEnds(k, FALSE)
        \/ ~Urgent /\ Event
MCSpec == MCInit /\ [][MCNext]_<<vars, events>>
MCFairSpec == MCSpec /\ Fairness
=============================================================================
