-------------------------- MODULE MCStoreDocument --------------------------
(* Two servers, with sessions on the key.  In one world requests take what *)
(* time they like, sessions come back, and every fault happens; the game's *)
(* calls and the faults are bounded, time is not.  In the other, requests  *)
(* take no time and the heartbeat is on its own: the game stages and       *)
(* releases as it likes and never saves, and only failures are bounded.    *)
EXTENDS StoreDocument, TLC
CONSTANTS A, B, a1, a2, b1,
  MaxEvents   \* bound: calls of the game on documents, and faults
VARIABLES
  events,     \* how many there were
  prompt,     \* whether requests take no time
  waiting     \* waiting[d]: ticks that d's last edit has been unsaved

MCServers == {A, B}
MCSessions == {a1, a2, b1}
MCHome == [d \in Sessions |-> IF d = b1 THEN B ELSE A]

Counted == events < MaxEvents /\ events' = events + 1
FaultyNext ==
  \/ /\ \/ \E d \in Sessions : RunWork(d)
        \/ Quiet /\ \E d \in Sessions : Acquire(d) \/ Step(d)
        \/ Quiet /\ Tick
     /\ UNCHANGED <<events, waiting>>
  \/ Counted /\ Quiet /\ (Fault \/ \E d \in Sessions : Call(d)) /\ UNCHANGED waiting

(* An edit that replaces another, or is saved, starts the wait anew.       *)
Waits(ticks) ==
  waiting' = [d \in Sessions |->
    IF Unsaved(d)' /\ value'[d] = value[d] THEN waiting[d] + ticks ELSE 0]
PromptNext ==
  \/ /\ \/ \E d \in Sessions : RunWork(d)
        \/ Quiet /\ \E d \in Sessions \ {a2} : Acquire(d) \/ Step(d) \/ Release(d)
        \/ Quiet /\ \E d \in Sessions, v \in Values : Stage(d, v)
     /\ Waits(0) /\ UNCHANGED events
  \/ Quiet /\ Timely /\ Tick /\ Waits(1) /\ UNCHANGED events
  \/ Counted /\ Quiet /\ (\E d \in Sessions : AttemptFails(d)) /\ Waits(0)

MCInit ==
  /\ Init
  /\ events = 0
  /\ prompt \in BOOLEAN
  /\ waiting = [d \in Sessions |-> 0]
MCNext == ((prompt /\ PromptNext) \/ (~prompt /\ FaultyNext)) /\ UNCHANGED prompt
MCSpec == MCInit /\ [][MCNext]_<<vars, events, prompt, waiting>>

(* Without failures the heartbeat alone keeps the lock of an open document.*)
LockKeptUnlessFailing == prompt /\ events = 0 => LockKept

(* docs/stores.md: an edit is autosaved: the heartbeat comes back after    *)
(* every flush, failed ones too, so an edit is written, replaced or its    *)
(* document closed within one heartbeat, and one more for every flush that *)
(* failed in all its attempts.                                             *)
EditsAreSaved ==
  prompt => \A d \in Sessions :
    waiting[d] <= Heartbeat * (1 + events \div RetryAttempts)

(* The heartbeat does both on its own.                                     *)
HeartbeatSuffices == LockKeptUnlessFailing /\ EditsAreSaved
=============================================================================
