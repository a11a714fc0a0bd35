---------------------------- MODULE ActionState ----------------------------
(***************************************************************************)
(* The state of the calls one component makes: `observeAction` of          *)
(* ui-core.ts.  The latest call wins; with `exclusive' a call is not made  *)
(* while one is pending; once the component is gone nothing is written.    *)
(***************************************************************************)
CONSTANTS
  Started,    \* the calls the component makes
  Exclusive,  \* ActionStateOptions.exclusive
  NoCall

ASSUME StateAssumption == NoCall \notin Started /\ Exclusive \in BOOLEAN

VARIABLES
  shows,     \* ActionSnapshot.status
  latest,    \* the latest call, NoCall after a reset
  awaited,   \* the call whose promise `exclusive' waits for
  disposed,
  promised   \* promised[c]: the promise of call c

stateVars == <<shows, latest, awaited, disposed, promised>>

Outcomes == {"success", "error"}

StateInit ==
  /\ shows = "idle"
  /\ latest = NoCall
  /\ awaited = NoCall
  /\ disposed = FALSE
  /\ promised = [c \in Started |-> "none"]

(* invoke, invokeAsync: nothing is called while one is pending, or when    *)
(* the component is gone.                                                  *)
Start(c) ==
  /\ ~disposed
  /\ ~(Exclusive /\ awaited # NoCall)
  /\ shows' = "pending"
  /\ latest' = c
  /\ awaited' = c
  /\ promised' = [promised EXCEPT ![c] = "pending"]
  /\ UNCHANGED disposed

SettleAny(c, outcome) ==  \* mutant: an older call writes as well
  /\ promised[c] = "pending"
  /\ promised' = [promised EXCEPT ![c] = outcome]
  /\ awaited' = IF awaited = c THEN NoCall ELSE awaited
  /\ shows' = IF disposed THEN shows ELSE outcome
  /\ UNCHANGED <<latest, disposed>>

(* The promise of call c settles.                                          *)
Settle(c, outcome) ==
  /\ promised[c] = "pending"
  /\ promised' = [promised EXCEPT ![c] = outcome]
  /\ awaited' = IF awaited = c THEN NoCall ELSE awaited
  /\ shows' = IF disposed \/ latest # c THEN shows ELSE outcome
  /\ UNCHANGED <<latest, disposed>>

Reset ==
  /\ latest' = NoCall
  /\ awaited' = NoCall
  /\ shows' = IF disposed THEN shows ELSE "idle"
  /\ UNCHANGED <<disposed, promised>>

Dispose ==
  /\ disposed' = TRUE
  /\ UNCHANGED <<shows, latest, awaited, promised>>

-----------------------------------------------------------------------------
StateTypeOK ==
  /\ shows \in {"idle", "pending"} \cup Outcomes
  /\ latest \in Started \cup {NoCall}
  /\ awaited \in Started \cup {NoCall}
  /\ disposed \in BOOLEAN
  /\ promised \in [Started -> {"none", "pending"} \cup Outcomes]

(* ui-core.ts:12-14: a living component shows the state of its latest call,*)
(* however its calls overlap and in whichever order they settle, and waits *)
(* for that one exactly while it shows it pending.                         *)
LatestWins ==
  ~disposed =>
    /\ shows = IF latest = NoCall THEN "idle" ELSE promised[latest]
    /\ awaited = IF shows = "pending" THEN latest ELSE NoCall
=============================================================================
