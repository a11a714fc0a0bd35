---------------------------- MODULE SessionLock ----------------------------
(***************************************************************************)
(* What a player store promises about one DataStore key: a single-writer   *)
(* register.  A session claims the key, and from then on only it changes   *)
(* the data, until it releases the key or another session claims it.  A    *)
(* claim hands the data over untouched, and it displaces another holder    *)
(* only once that holder's lock has lapsed or when the holder's own server *)
(* opens its next session.                                                 *)
(*                                                                         *)
(* StoreDocument implements this specification (docs/stores.md, "Player    *)
(* stores and the session lock").                                          *)
(***************************************************************************)

CONSTANTS
  Sessions,  \* sessions of the servers that run this code
  Home,      \* Home[d]: the server session d runs on
  Values,    \* the values a record can hold
  Default,   \* the value an absent record reads as
  Nobody,    \* the holder of a key no session owns
  Outsider   \* a holder that is not one of Sessions (a newer deployment)

VARIABLES
  holder,    \* the session that owns the key
  data,      \* what the key holds
  lapsed     \* TRUE once the holder's lock may be taken over

lockVars == <<holder, data, lapsed>>

Init ==
  /\ holder = Nobody
  /\ data \in Values
  /\ lapsed = TRUE

(* A session becomes the holder and reads what the last one left.          *)
Claim(d) ==
  /\ \/ lapsed
     \/ holder \in Sessions /\ Home[holder] = Home[d]
  /\ holder' = d
  /\ data' = data
  /\ lapsed' = FALSE

(* A deployment this code does not know takes a free or lapsed key, or its *)
(* own.                                                                    *)
ClaimByOutsider ==
  /\ lapsed \/ holder = Outsider
  /\ holder' = Outsider
  /\ data' = data
  /\ lapsed' = FALSE

(* Only the holder changes the data.  The lock it writes carries the time  *)
(* the write was started, so a slow write may store a lock already lapsed. *)
Write(d) ==
  /\ holder = d
  /\ holder' = d
  /\ data' \in Values
  /\ lapsed' \in BOOLEAN

Release(d) ==
  /\ holder = d
  /\ holder' = Nobody
  /\ data' \in Values
  /\ lapsed' = TRUE

Lapse ==
  /\ lapsed' = TRUE
  /\ UNCHANGED <<holder, data>>

(* The record is deleted under whoever holds it.                           *)
Erase ==
  /\ holder' = Nobody
  /\ data' = Default
  /\ lapsed' = TRUE

Next ==
  \/ \E d \in Sessions : Claim(d) \/ Write(d) \/ Release(d)
  \/ ClaimByOutsider
  \/ Lapse
  \/ Erase

Spec == Init /\ [][Next]_lockVars
=============================================================================
