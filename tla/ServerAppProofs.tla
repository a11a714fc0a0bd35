--------------------------- MODULE ServerAppProofs ---------------------------
(***************************************************************************)
(* What a server app guarantees for any players and stores, whatever the   *)
(* game's hooks do and whenever the server shuts down.                     *)
(***************************************************************************)
EXTENDS ServerApp, TLAPS

-----------------------------------------------------------------------------
(* The inductive invariant, in named parts.                                *)

(* The handlers of a player are run by what the engine fires; one who left *)
(* without a leave handler left before the app was connected.              *)
HandlersInv ==
  /\ boot = "no" => close = "no" /\ \A p \in Players : joining[p] = "no" /\ leaving[p] = "no"
  /\ boot \in {"no", "ready"} => backfill = {}
  /\ close # "no" => boot = "ready"
  /\ \A p \in Players :
       /\ there[p] = "away" => joining[p] = "no"
       /\ leaving[p] # "no" => there[p] = "left"
       /\ p \in backfill => there[p] # "away"
       /\ there[p] = "left" /\ leaving[p] = "no" => joining[p] = "no" /\ p \notin backfill

(* Documents come of joins; a release waits only for a load, and writes    *)
(* only what was open; a load not settled is not reported.                 *)
UntouchedInv(p) ==
  joining[p] = "no" =>
    /\ p \notin sessions /\ reports[p] = 0
    /\ \A s \in Stores : doc[s][p] = "none" /\ waiting[s][p] = 0 /\ ~writing[s][p]
DocumentInv(s, p) ==
  /\ waiting[s][p] > 0 => doc[s][p] = "loading"
  /\ writing[s][p] => doc[s][p] = "none"
  /\ doc[s][p] = "loading" => reports[p] = 0
DocumentsInv == \A p \in Players : UntouchedInv(p) /\ \A s \in Stores : DocumentInv(s, p)

Inv == TypeOK /\ HandlersInv /\ DocumentsInv

(* Who is in the server is handled, or in the snapshot and about to be.    *)
ReachedInv ==
  /\ boot = "backfill" => \A p \in Players : there[p] = "here" => joining[p] # "no" \/ p \in backfill
  /\ NobodyMissed

(* A document held when the server closed is on its way to be written, and *)
(* waited for until it is, or is gone.                                     *)
Flushing(s, p) ==
  \/ awaited[s][p] = "write" /\ doc[s][p] = "loading" /\ waiting[s][p] > 0
  \/ awaited[s][p] = "write" /\ doc[s][p] = "none" /\ writing[s][p]
  \/ doc[s][p] = "none" /\ ~writing[s][p]
CloseInv ==
  /\ close = "over" => \A s \in Stores, p \in Players : awaited[s][p] = "no"
  /\ close # "no" => \A s \in Stores, p \in Players :
       held[s][p] = "held" => joining[p] # "no" /\ Flushing(s, p)

(* Until the server closes, nobody's writes start before their leave.      *)
HooksInv ==
  close = "no" => \A p \in Players : leaving[p] # "done" =>
    \A s \in Stores : ~writing[s][p] /\ waiting[s][p] = 0

-----------------------------------------------------------------------------
(* What the operations do to each document.                                *)

LEMMA LoadAllAt ==
  ASSUME TypeOK, NEW p \in Players, NEW throwing, LoadAll(p, throwing)
  PROVE  /\ doc' \in [Stores -> [Players -> {"none", "loading", "open"}]]
         /\ \A s \in Stores, q \in Players :
              doc'[s][q] = IF q = p /\ doc[s][q] = "none" /\ s \notin throwing THEN "loading"
                           ELSE doc[s][q]
BY DEF TypeOK, LoadAll

LEMMA ReleaseAt ==
  ASSUME TypeOK, NEW S \in SUBSET (Stores \X Players), ReleaseThe(S)
  PROVE  /\ doc' \in [Stores -> [Players -> {"none", "loading", "open"}]]
         /\ waiting' \in [Stores -> [Players -> Nat]]
         /\ writing' \in [Stores -> [Players -> BOOLEAN]]
         /\ \A s \in Stores, p \in Players :
              /\ doc'[s][p] = IF <<s, p>> \in S /\ doc[s][p] = "open" THEN "none" ELSE doc[s][p]
              /\ waiting'[s][p] = IF <<s, p>> \in S /\ doc[s][p] = "loading"
                                  THEN waiting[s][p] + 1 ELSE waiting[s][p]
              /\ writing'[s][p] = (writing[s][p] \/ (<<s, p>> \in S /\ doc[s][p] = "open"))
BY DEF TypeOK, ReleaseThe

LEMMA RemovedAt ==
  ASSUME TypeOK, NEW p \in Players, Removed(p)
  PROVE  \A s \in Stores, q \in Players :
           /\ doc'[s][q] = IF q = p /\ doc[s][q] = "open" THEN "none" ELSE doc[s][q]
           /\ waiting'[s][q] = IF q = p /\ doc[s][q] = "loading"
                               THEN waiting[s][q] + 1 ELSE waiting[s][q]
           /\ writing'[s][q] = (writing[s][q] \/ (q = p /\ doc[s][q] = "open"))
<1> DEFINE S == {<<s, p>> : s \in Stores}
<1>1. S \in SUBSET (Stores \X Players) /\ ReleaseThe(S)
  BY DEF Removed
<1>2. \A s \in Stores, q \in Players : <<s, q>> \in S <=> q = p
  OBVIOUS
<1> HIDE DEF S
<1>3. \A s \in Stores, q \in Players :
        /\ doc'[s][q] = IF <<s, q>> \in S /\ doc[s][q] = "open" THEN "none" ELSE doc[s][q]
        /\ waiting'[s][q] = IF <<s, q>> \in S /\ doc[s][q] = "loading"
                            THEN waiting[s][q] + 1 ELSE waiting[s][q]
        /\ writing'[s][q] = (writing[s][q] \/ (<<s, q>> \in S /\ doc[s][q] = "open"))
  BY <1>1, ReleaseAt
<1> QED BY <1>2, <1>3

LEMMA LoadEndsAt ==
  ASSUME TypeOK, NEW s \in Stores, NEW p \in Players, NEW ok \in BOOLEAN, LoadEnds(s, p, ok)
  PROVE  /\ doc' \in [Stores -> [Players -> {"none", "loading", "open"}]]
         /\ waiting' \in [Stores -> [Players -> Nat]]
         /\ writing' \in [Stores -> [Players -> BOOLEAN]]
         /\ awaited' \in [Stores -> [Players -> {"no", "load", "write"}]]
         /\ \A t \in Stores, q \in Players : t # s \/ q # p =>
              /\ doc'[t][q] = doc[t][q] /\ waiting'[t][q] = waiting[t][q]
              /\ writing'[t][q] = writing[t][q] /\ awaited'[t][q] = awaited[t][q]
         /\ doc[s][p] = "loading"
         /\ doc'[s][p] = IF ok /\ waiting[s][p] = 0 THEN "open" ELSE "none"
         /\ waiting'[s][p] = 0 /\ writing'[s][p] = (ok /\ waiting[s][p] > 0)
         /\ awaited'[s][p] = IF awaited[s][p] = "load" \/ (~ok /\ waiting[s][p] > 0) THEN "no"
                             ELSE awaited[s][p]
BY DEF TypeOK, LoadEnds

LEMMA WriteEndsAt ==
  ASSUME TypeOK, NEW s \in Stores, NEW p \in Players, WriteEnds(s, p)
  PROVE  /\ writing' \in [Stores -> [Players -> BOOLEAN]]
         /\ awaited' \in [Stores -> [Players -> {"no", "load", "write"}]]
         /\ \A t \in Stores, q \in Players :
              /\ t # s \/ q # p => writing'[t][q] = writing[t][q] /\ awaited'[t][q] = awaited[t][q]
         /\ writing[s][p] /\ ~writing'[s][p]
         /\ awaited'[s][p] = IF awaited[s][p] = "write" THEN "no" ELSE awaited[s][p]
<1>1. /\ writing \in [Stores -> [Players -> BOOLEAN]]
      /\ awaited \in [Stores -> [Players -> {"no", "load", "write"}]]
  BY DEF TypeOK
<1>2. /\ writing[s][p] /\ writing' = [writing EXCEPT ![s][p] = FALSE]
      /\ awaited' = [awaited EXCEPT ![s][p] = IF @ = "write" THEN "no" ELSE @]
  BY DEF WriteEnds
<1> QED BY <1>1, <1>2

LEMMA CloseAt ==
  ASSUME TypeOK, Close
  PROVE  LET found == Documents({"open", "loading"}) IN
         /\ awaited' \in [Stores -> [Players -> {"no", "load", "write"}]]
         /\ held' \in [Stores -> [Players -> {"no", "released", "held"}]]
         /\ found \in SUBSET (Stores \X Players) /\ ReleaseThe(found)
         /\ \A s \in Stores, p \in Players :
              /\ <<s, p>> \in found <=> doc[s][p] \in {"open", "loading"}
              /\ awaited'[s][p] = IF <<s, p>> \notin found THEN "no"
                                  ELSE IF waiting[s][p] > 0 THEN "load" ELSE "write"
              /\ held'[s][p] = IF writing[s][p] \/ waiting[s][p] > 0 THEN "released"
                               ELSE IF doc[s][p] # "none" THEN "held" ELSE "no"
BY DEF TypeOK, Close, CloseWith, Documents

-----------------------------------------------------------------------------
(* The invariant holds.                                                    *)

LEMMA InitInv == Init => Inv
BY DEF Init, Inv, TypeOK, HandlersInv, DocumentsInv, UntouchedInv, DocumentInv, Everywhere

(* A player is handled who was not before.                                 *)
LEMMA AddedInv ==
  ASSUME Inv, NEW p \in Players, joining[p] = "no", NEW throwing \in SUBSET Stores,
         Added(p, throwing), UNCHANGED <<sessions, waiting, writing>>
  PROVE  /\ departed' \subseteq Players /\ late' \in [Players -> {"no", "session", "join"}]
         /\ doc' \in [Stores -> [Players -> {"none", "loading", "open"}]]
         /\ joining' \in [Players -> {"no", "factory", "hook", "over"}]
         /\ reports' \in [Players -> 0 .. 1]
         /\ joining'[p] # "no" /\ \A q \in Players \ {p} : joining'[q] = joining[q]
         /\ DocumentsInv'
<1> USE DEF Inv
<1>1. /\ doc' \in [Stores -> [Players -> {"none", "loading", "open"}]]
      /\ \A s \in Stores, q \in Players :
           doc'[s][q] = IF q = p /\ doc[s][q] = "none" /\ s \notin throwing THEN "loading"
                        ELSE doc[s][q]
  BY LoadAllAt DEF Added
<1>2. reports[p] = 0 /\ \A s \in Stores : doc[s][p] = "none"
  BY DEF DocumentsInv, UntouchedInv
<1>3. /\ joining' \in [Players -> {"no", "factory", "hook", "over"}]
      /\ joining'[p] # "no" /\ \A q \in Players \ {p} : joining'[q] = joining[q]
      /\ departed' \subseteq departed /\ late' \in [Players -> {"no", "session", "join"}]
  BY DEF Added, TypeOK
<1>4. /\ reports' \in [Players -> 0 .. 1]
      /\ \A q \in Players \ {p} : reports'[q] = reports[q]
      /\ (\E s \in Stores : s \notin throwing) => reports'[p] = 0
  BY <1>2 DEF Added, TypeOK
<1>5. DocumentsInv'
  <2>1. ASSUME NEW q \in Players, joining'[q] = "no"
        PROVE  /\ q \notin sessions' /\ reports'[q] = 0
               /\ \A t \in Stores : doc'[t][q] = "none" /\ waiting'[t][q] = 0 /\ ~writing'[t][q]
    <3>1. joining[q] = "no" /\ q # p
      BY <2>1, <1>3, <1>1, <1>4
    <3>2. /\ q \notin sessions /\ reports[q] = 0
          /\ \A t \in Stores : doc[t][q] = "none" /\ waiting[t][q] = 0 /\ ~writing[t][q]
      BY <3>1 DEF DocumentsInv, UntouchedInv
    <3> QED BY <3>1, <3>2, <1>3, <1>1, <1>4
  <2>2. ASSUME NEW q \in Players, NEW s \in Stores
        PROVE  DocumentInv(s, q)'
    <3>1. DocumentInv(s, q) /\ waiting[s][q] \in Nat /\ waiting'[s][q] = waiting[s][q]
                            /\ writing'[s][q] = writing[s][q]
      BY DEF DocumentsInv, TypeOK
    <3>2. CASE q = p
      <4>1. doc[s][p] = "none" /\ waiting[s][p] = 0 /\ ~writing[s][p]
        BY DEF DocumentsInv, UntouchedInv
      <4>2. doc'[s][p] = "loading" => s \notin throwing
        BY <1>1, <4>1
      <4> QED BY <1>4, <3>1, <3>2, <4>1, <4>2 DEF DocumentInv
    <3>3. CASE q # p
      BY <1>1, <1>4, <3>1, <3>3 DEF DocumentInv
    <3> QED BY <3>2, <3>3
  <2> QED BY <2>1, <2>2 DEF DocumentsInv, UntouchedInv
<1> QED BY <1>1, <1>3, <1>4, <1>5 DEF TypeOK

LEMMA JoinInv ==
  ASSUME Inv, NEW p \in Players, NEW throwing \in SUBSET Stores,
         Join(p, throwing)
  PROVE  Inv'
<1>1. joining[p] = "no" /\ leaving[p] = "no"
  BY DEF Inv, HandlersInv, Join, TypeOK
<1>2. CASE Connected
  <2>1. Added(p, throwing)
    BY <1>2 DEF Join
  <2>2. UNCHANGED <<boot, backfill, leaving, sessions, waiting, writing, close, awaited, held>>
    BY DEF Join, closeVars
  <2>3. /\ departed' \subseteq Players /\ late' \in [Players -> {"no", "session", "join"}]
        /\ doc' \in [Stores -> [Players -> {"none", "loading", "open"}]]
        /\ joining' \in [Players -> {"no", "factory", "hook", "over"}]
        /\ reports' \in [Players -> 0 .. 1]
        /\ joining'[p] # "no" /\ \A q \in Players \ {p} : joining'[q] = joining[q]
        /\ DocumentsInv'
    BY <1>1, <2>1, <2>2, AddedInv
  <2>4. TypeOK'
    BY <2>2, <2>3 DEF Inv, TypeOK, Join
  <2>5. HandlersInv'
    BY <1>1, <1>2, <2>2, <2>3 DEF Inv, TypeOK, HandlersInv, Join, Connected
  <2> QED BY <2>3, <2>4, <2>5 DEF Inv
<1>3. CASE ~Connected
  BY <1>1, <1>3 DEF Inv, TypeOK, HandlersInv, DocumentsInv, UntouchedInv, DocumentInv, Join, closeVars
<1> QED BY <1>2, <1>3

LEMMA BackfillInv ==
  ASSUME Inv, NEW p \in Players, NEW throwing \in SUBSET Stores,
         BackfillNext(p, throwing)
  PROVE  Inv'
<1>1. joining[p] = "no" /\ boot = "backfill" /\ close = "no"
  BY DEF Inv, HandlersInv, BackfillNext, Backfilling, TypeOK
<1>2. UNCHANGED <<there, boot, backfill, leaving, sessions, waiting, writing, close, awaited, held>>
  BY DEF BackfillNext, closeVars
<1>3. Added(p, throwing)
  BY DEF BackfillNext
<1>4. /\ departed' \subseteq Players /\ late' \in [Players -> {"no", "session", "join"}]
      /\ doc' \in [Stores -> [Players -> {"none", "loading", "open"}]]
      /\ joining' \in [Players -> {"no", "factory", "hook", "over"}]
      /\ reports' \in [Players -> 0 .. 1]
      /\ joining'[p] # "no" /\ \A q \in Players \ {p} : joining'[q] = joining[q]
      /\ DocumentsInv'
  BY <1>1, <1>2, <1>3, AddedInv
<1>5. TypeOK'
  BY <1>1, <1>2, <1>4 DEF Inv, TypeOK, BackfillNext
<1>6. HandlersInv'
  BY <1>1, <1>2, <1>4 DEF Inv, TypeOK, HandlersInv, BackfillNext
<1> QED BY <1>4, <1>5, <1>6 DEF Inv

LEMMA SessionMadeInv ==
  ASSUME Inv, NEW p \in Players, NEW threw \in BOOLEAN, SessionMade(p, threw)
  PROVE  Inv'
<1> USE DEF Inv
<1>1. /\ joining[p] = "factory" /\ joining' = [joining EXCEPT ![p] = IF threw THEN "over" ELSE "hook"]
      /\ UNCHANGED <<there, backfill, leaving, departed, doc, waiting, writing, reports, close, awaited, held>>
      /\ sessions' \subseteq sessions \cup {p}
      /\ boot' = boot \/ (boot' = "failed" /\ p \in backfill)
  BY DEF SessionMade, storeVars, closeVars
<1>2. joining' \in [Players -> {"no", "factory", "hook", "over"}] /\ joining'[p] # "no"
      /\ \A q \in Players \ {p} : joining'[q] = joining[q]
  BY <1>1 DEF TypeOK
<1>3. late' \in [Players -> {"no", "session", "join"}]
  BY DEF SessionMade, TypeOK
<1>4. TypeOK'
  BY <1>1, <1>2, <1>3 DEF TypeOK
<1>5. boot # "no" /\ (boot' # boot => close = "no")
  BY <1>1 DEF HandlersInv
<1>6. HandlersInv'
  <2>1. boot' # "no" /\ (boot' \in {"no", "ready"} => backfill' = {}) /\ (close' # "no" => boot' = "ready")
    BY <1>1, <1>5 DEF HandlersInv
  <2>2. ASSUME NEW q \in Players
        PROVE  /\ there'[q] = "away" => joining'[q] = "no"
               /\ leaving'[q] # "no" => there'[q] = "left"
               /\ q \in backfill' => there'[q] # "away"
               /\ there'[q] = "left" /\ leaving'[q] = "no" => joining'[q] = "no" /\ q \notin backfill'
    BY <1>1, <1>2 DEF HandlersInv
  <2> QED BY <2>1, <2>2 DEF HandlersInv
<1>7. DocumentsInv'
  <2>1. ASSUME NEW q \in Players PROVE UntouchedInv(q)'
    BY <1>1, <1>2 DEF DocumentsInv, UntouchedInv
  <2>2. ASSUME NEW q \in Players, NEW s \in Stores PROVE DocumentInv(s, q)'
    BY <1>1 DEF DocumentsInv, DocumentInv
  <2> QED BY <2>1, <2>2 DEF DocumentsInv
<1> QED BY <1>4, <1>6, <1>7

LEMMA RemovedInv ==
  ASSUME Inv, NEW p \in Players, Removed(p)
  PROVE  Inv'
<1> USE DEF Inv
<1>2. PICK S \in SUBSET (Stores \X Players) : S = {<<s, p>> : s \in Stores} /\ ReleaseThe(S)
  BY DEF Removed
<1>3. /\ doc' \in [Stores -> [Players -> {"none", "loading", "open"}]]
      /\ waiting' \in [Stores -> [Players -> Nat]]
      /\ writing' \in [Stores -> [Players -> BOOLEAN]]
      /\ \A s \in Stores, q \in Players :
           /\ doc'[s][q] = IF <<s, q>> \in S /\ doc[s][q] = "open" THEN "none" ELSE doc[s][q]
           /\ waiting'[s][q] = IF <<s, q>> \in S /\ doc[s][q] = "loading"
                               THEN waiting[s][q] + 1 ELSE waiting[s][q]
           /\ writing'[s][q] = (writing[s][q] \/ (<<s, q>> \in S /\ doc[s][q] = "open"))
  BY <1>2, ReleaseAt
<1>4. UNCHANGED <<there, boot, backfill, joining, reports, close, awaited, held>>
  BY DEF Removed, closeVars
<1>5. TypeOK'
  BY <1>3, <1>4 DEF TypeOK, Removed
<1>6. HandlersInv'
  BY <1>4 DEF TypeOK, HandlersInv, Removed
<1>7. sessions' \subseteq sessions
  BY DEF Removed
<1>8. DocumentsInv'
  <2>1. ASSUME NEW q \in Players, joining'[q] = "no"
        PROVE  /\ q \notin sessions' /\ reports'[q] = 0
               /\ \A t \in Stores : doc'[t][q] = "none" /\ waiting'[t][q] = 0 /\ ~writing'[t][q]
    <3>1. joining[q] = "no"
      BY <2>1, <1>3, <1>4, <1>7
    <3>2. /\ q \notin sessions /\ reports[q] = 0
          /\ \A t \in Stores : doc[t][q] = "none" /\ waiting[t][q] = 0 /\ ~writing[t][q]
      BY <3>1 DEF DocumentsInv, UntouchedInv
    <3> QED BY <3>1, <3>2, <1>3, <1>4, <1>7
  <2>2. ASSUME NEW q \in Players, NEW t \in Stores
        PROVE  DocumentInv(t, q)'
    <3>1. DocumentInv(t, q) /\ waiting[t][q] \in Nat /\ UntouchedInv(q)
      BY DEF DocumentsInv, TypeOK
    <3> QED BY <3>1, <1>3, <1>4, <1>7 DEF DocumentInv, UntouchedInv
  <2> QED BY <2>1, <2>2 DEF DocumentsInv, UntouchedInv
<1> QED BY <1>5, <1>6, <1>8

LEMMA CloseIsInv ==
  ASSUME Inv, Close
  PROVE  Inv'
<1> USE DEF Inv
<1>1. PICK S \in SUBSET (Stores \X Players) : ReleaseThe(S)
  BY CloseAt
<1>2. /\ doc' \in [Stores -> [Players -> {"none", "loading", "open"}]]
      /\ waiting' \in [Stores -> [Players -> Nat]]
      /\ writing' \in [Stores -> [Players -> BOOLEAN]]
      /\ \A s \in Stores, q \in Players :
           /\ doc'[s][q] = IF <<s, q>> \in S /\ doc[s][q] = "open" THEN "none" ELSE doc[s][q]
           /\ waiting'[s][q] = IF <<s, q>> \in S /\ doc[s][q] = "loading"
                               THEN waiting[s][q] + 1 ELSE waiting[s][q]
           /\ writing'[s][q] = (writing[s][q] \/ (<<s, q>> \in S /\ doc[s][q] = "open"))
  BY <1>1, ReleaseAt
<1>3. UNCHANGED <<there, boot, backfill, joining, leaving, sessions, departed, late, reports>> /\ boot = "ready"
  BY DEF Close, CloseWith
<1>4. TypeOK'
  BY <1>2, <1>3, CloseAt DEF TypeOK, Close, CloseWith
<1>5. HandlersInv'
  BY <1>3 DEF TypeOK, HandlersInv
<1>6. DocumentsInv'
  <2>1. ASSUME NEW q \in Players, joining'[q] = "no"
        PROVE  /\ q \notin sessions' /\ reports'[q] = 0
               /\ \A t \in Stores : doc'[t][q] = "none" /\ waiting'[t][q] = 0 /\ ~writing'[t][q]
    <3>1. joining[q] = "no"
      BY <2>1, <1>2, <1>3
    <3>2. /\ q \notin sessions /\ reports[q] = 0
          /\ \A t \in Stores : doc[t][q] = "none" /\ waiting[t][q] = 0 /\ ~writing[t][q]
      BY <3>1 DEF DocumentsInv, UntouchedInv
    <3> QED BY <3>1, <3>2, <1>2, <1>3
  <2>2. ASSUME NEW q \in Players, NEW t \in Stores
        PROVE  DocumentInv(t, q)'
    <3>1. DocumentInv(t, q) /\ waiting[t][q] \in Nat /\ UntouchedInv(q)
      BY DEF DocumentsInv, TypeOK
    <3> QED BY <3>1, <1>2, <1>3 DEF DocumentInv, UntouchedInv
  <2> QED BY <2>1, <2>2 DEF DocumentsInv, UntouchedInv
<1> QED BY <1>4, <1>5, <1>6

LEMMA LoadEndsInv ==
  ASSUME Inv, NEW s \in Stores, NEW p \in Players, NEW ok \in BOOLEAN, LoadEnds(s, p, ok)
  PROVE  Inv'
<1> USE DEF Inv
<1>0. /\ doc' \in [Stores -> [Players -> {"none", "loading", "open"}]]
      /\ waiting' \in [Stores -> [Players -> Nat]]
      /\ writing' \in [Stores -> [Players -> BOOLEAN]]
      /\ awaited' \in [Stores -> [Players -> {"no", "load", "write"}]]
      /\ \A t \in Stores, q \in Players : t # s \/ q # p =>
           /\ doc'[t][q] = doc[t][q] /\ waiting'[t][q] = waiting[t][q]
           /\ writing'[t][q] = writing[t][q] /\ awaited'[t][q] = awaited[t][q]
      /\ doc[s][p] = "loading"
      /\ doc'[s][p] = IF ok /\ waiting[s][p] = 0 THEN "open" ELSE "none"
      /\ waiting'[s][p] = 0 /\ writing'[s][p] = (ok /\ waiting[s][p] > 0)
      /\ awaited'[s][p] = IF awaited[s][p] = "load" \/ (~ok /\ waiting[s][p] > 0) THEN "no"
                          ELSE awaited[s][p]
  BY LoadEndsAt
<1>1. UNCHANGED <<there, boot, backfill, joining, leaving, sessions, departed, late, close, held>>
  BY DEF LoadEnds
<1>2. joining[p] # "no" /\ reports[p] = 0
  BY <1>0 DEF DocumentsInv, UntouchedInv, DocumentInv
<1>3. /\ reports' \in [Players -> 0 .. 1]
      /\ \A q \in Players \ {p} : reports'[q] = reports[q]
      /\ (\E t \in Stores \ {s} : doc[t][p] = "loading") => reports'[p] = 0
  <2>1. Report(p, s) /\ reports \in [Players -> 0 .. 1]
    BY DEF LoadEnds, TypeOK
  <2>2. CASE AllSettled(p, s)
    <3>1. reports' = [reports EXCEPT ![p] = 1]
      BY <1>2, <2>1, <2>2 DEF Report
    <3> QED BY <2>1, <2>2, <3>1 DEF AllSettled
  <2>3. CASE ~AllSettled(p, s)
    BY <1>2, <2>1, <2>3 DEF Report
  <2> QED BY <2>2, <2>3
<1>4. TypeOK'
  BY <1>1, <1>3, <1>0 DEF TypeOK
<1>5. HandlersInv'
  BY <1>1 DEF HandlersInv
<1>6. DocumentsInv'
  <2>1. ASSUME NEW q \in Players, joining'[q] = "no"
        PROVE  /\ q \notin sessions' /\ reports'[q] = 0
               /\ \A t \in Stores : doc'[t][q] = "none" /\ waiting'[t][q] = 0 /\ ~writing'[t][q]
    <3>1. joining[q] = "no"
      BY <2>1, <1>1, <1>2, <1>3, <1>0
    <3>2. /\ q \notin sessions /\ reports[q] = 0
          /\ \A t \in Stores : doc[t][q] = "none" /\ waiting[t][q] = 0 /\ ~writing[t][q]
      BY <3>1 DEF DocumentsInv, UntouchedInv
    <3>3. q # p
      BY <1>2, <3>1
    <3>4. reports'[q] = 0 /\ \A t \in Stores : doc'[t][q] = doc[t][q] /\ waiting'[t][q] = waiting[t][q]
                                              /\ writing'[t][q] = writing[t][q]
      BY <1>0, <1>3, <3>2, <3>3
    <3> QED BY <1>1, <3>2, <3>4
  <2>2. ASSUME NEW q \in Players, NEW t \in Stores
        PROVE  DocumentInv(t, q)'
    <3>1. DocumentInv(t, q) /\ waiting[t][q] \in Nat /\ UntouchedInv(q)
      BY DEF DocumentsInv, TypeOK
    <3>2. CASE t = s /\ q = p
      <4>1. waiting'[t][q] = 0 /\ doc'[t][q] # "loading"
        BY <1>0, <3>2
      <4>2. writing'[t][q] => doc'[t][q] = "none"
        BY <1>0, <3>1, <3>2
      <4> QED BY <4>1, <4>2 DEF DocumentInv
    <3>3. CASE ~(t = s /\ q = p)
      <4>1. doc'[t][q] = doc[t][q] /\ waiting'[t][q] = waiting[t][q] /\ writing'[t][q] = writing[t][q]
        BY <1>0, <3>3
      <4>2. doc[t][q] = "loading" => reports'[q] = 0
        <5>1. CASE q = p
          BY <1>3, <3>3, <5>1
        <5>2. CASE q # p
          BY <1>3, <3>1, <5>2 DEF DocumentInv
        <5> QED BY <5>1, <5>2
      <4> QED BY <3>1, <4>1, <4>2 DEF DocumentInv
    <3> QED BY <3>2, <3>3
  <2> QED BY <2>1, <2>2 DEF DocumentsInv, UntouchedInv
<1> QED BY <1>4, <1>5, <1>6

LEMMA WriteEndsInv ==
  ASSUME Inv, NEW s \in Stores, NEW p \in Players, WriteEnds(s, p)
  PROVE  Inv'
<1> USE DEF Inv
<1>0. /\ writing' \in [Stores -> [Players -> BOOLEAN]]
      /\ awaited' \in [Stores -> [Players -> {"no", "load", "write"}]]
      /\ \A t \in Stores, q \in Players :
           /\ t # s \/ q # p => writing'[t][q] = writing[t][q] /\ awaited'[t][q] = awaited[t][q]
      /\ writing[s][p] /\ ~writing'[s][p]
      /\ awaited'[s][p] = IF awaited[s][p] = "write" THEN "no" ELSE awaited[s][p]
  BY WriteEndsAt
<1>1. UNCHANGED <<there, boot, backfill, joining, leaving, sessions, departed, late, doc, waiting, reports, close, held>>
  BY DEF WriteEnds
<1>2. TypeOK' /\ HandlersInv'
  BY <1>1, <1>0 DEF TypeOK, HandlersInv
<1>3. DocumentsInv'
  <2>1. ASSUME NEW q \in Players, joining'[q] = "no"
        PROVE  /\ q \notin sessions' /\ reports'[q] = 0
               /\ \A t \in Stores : doc'[t][q] = "none" /\ waiting'[t][q] = 0 /\ ~writing'[t][q]
    <3>1. joining[q] = "no"
      BY <2>1, <1>1, <1>0
    <3>2. /\ q \notin sessions /\ reports[q] = 0
          /\ \A t \in Stores : doc[t][q] = "none" /\ waiting[t][q] = 0 /\ ~writing[t][q]
      BY <3>1 DEF DocumentsInv, UntouchedInv
    <3> QED BY <3>1, <3>2, <1>1, <1>0
  <2>2. ASSUME NEW q \in Players, NEW t \in Stores
        PROVE  DocumentInv(t, q)'
    <3>1. DocumentInv(t, q) /\ waiting[t][q] \in Nat /\ UntouchedInv(q)
      BY DEF DocumentsInv, TypeOK
    <3> QED BY <3>1, <1>1, <1>0 DEF DocumentInv, UntouchedInv
  <2> QED BY <2>1, <2>2 DEF DocumentsInv, UntouchedInv
<1> QED BY <1>2, <1>3

LEMMA NextInv == Inv /\ [Next]_vars => Inv'
<1> SUFFICES ASSUME Inv, [Next]_vars PROVE Inv'
  OBVIOUS
<1> USE DEF Inv
<1>1. ASSUME NEW p \in Players, NEW throwing \in SUBSET Stores,
             BackfillNext(p, throwing) \/ Join(p, throwing)
      PROVE  Inv'
  BY <1>1, BackfillInv, JoinInv
<1>11. ASSUME NEW p \in Players, NEW threw \in BOOLEAN, SessionMade(p, threw)
       PROVE  Inv'
  BY <1>11, SessionMadeInv
<1>2. CASE Booted
  BY <1>2 DEF Booted, Backfilling, Running, TypeOK, HandlersInv, DocumentsInv, UntouchedInv, DocumentInv, storeVars, closeVars
<1>3. ASSUME NEW p \in Players, JoinHookEnds(p)
      PROVE  Inv'
  BY <1>3 DEF JoinHookEnds, TypeOK, HandlersInv, DocumentsInv, UntouchedInv, DocumentInv, storeVars, closeVars
<1>4. ASSUME NEW p \in Players, Leave(p)
      PROVE  Inv'
  <2>1. TypeOK' /\ HandlersInv'
    BY <1>4 DEF Leave, Connected, TypeOK, HandlersInv, storeVars, closeVars
  <2>2. DocumentsInv'
    BY <1>4 DEF Leave, DocumentsInv, UntouchedInv, DocumentInv, storeVars
  <2> QED BY <2>1, <2>2
<1>5. ASSUME NEW p \in Players, Removed(p)
      PROVE  Inv'
  BY <1>5, RemovedInv
<1>6. ASSUME NEW s \in Stores, NEW p \in Players, NEW ok \in BOOLEAN,
             WriteEnds(s, p) \/ LoadEnds(s, p, ok)
      PROVE  Inv'
  BY <1>6, WriteEndsInv, LoadEndsInv
<1>7. CASE Boot
  BY <1>7 DEF Boot, TypeOK, HandlersInv, DocumentsInv, UntouchedInv, DocumentInv, storeVars, closeVars
<1>8. CASE Close
  BY <1>8, CloseIsInv
<1>9. CASE Closed \/ GiveUp
  BY <1>9 DEF Closed, GiveUp, Everywhere, TypeOK, HandlersInv, DocumentsInv, UntouchedInv, DocumentInv, storeVars
<1>10. CASE UNCHANGED vars
  BY <1>10 DEF vars, TypeOK, HandlersInv, DocumentsInv, UntouchedInv, DocumentInv, storeVars, closeVars
<1> QED BY <1>1, <1>2, <1>3, <1>4, <1>5, <1>6, <1>7, <1>8, <1>9, <1>10, <1>11 DEF Next, Step

(* Every variable keeps its type; a player is reported ready at most once *)
(* (server-app.ts:533-548).                                                *)
THEOREM TypeCorrect == Spec => []TypeOK
<1>1. Spec => []Inv
  BY InitInv, NextInv, PTL DEF Spec
<1> QED BY <1>1, PTL DEF Inv

-----------------------------------------------------------------------------
(* Nobody is missed, whether or not hooks yield during the backfill        *)
(* (server-app.ts:592-626).                                                *)
THEOREM NobodyIsMissed == Spec => []NobodyMissed
<1>1. Init => ReachedInv
  BY DEF Init, ReachedInv, NobodyMissed
<1>2. Inv /\ ReachedInv /\ [Next]_vars => ReachedInv'
  <2> SUFFICES ASSUME Inv, ReachedInv, [Next]_vars PROVE ReachedInv'
    OBVIOUS
  <2> USE DEF Inv, ReachedInv, NobodyMissed
  <2>1. ASSUME NEW p \in Players, NEW throwing \in SUBSET Stores,
               BackfillNext(p, throwing)
        PROVE  ReachedInv'
    BY <2>1 DEF BackfillNext, Added, Backfilling, TypeOK
  <2>2. ASSUME NEW p \in Players, NEW throwing \in SUBSET Stores,
               Join(p, throwing)
        PROVE  ReachedInv'
    BY <2>2 DEF Join, Added, Connected, TypeOK
  <2>3. CASE Booted
    BY <2>3 DEF Booted, Backfilling
  <2>10. ASSUME NEW p \in Players, NEW threw \in BOOLEAN, SessionMade(p, threw)
         PROVE  ReachedInv'
    BY <2>10 DEF SessionMade, TypeOK
  <2>4. ASSUME NEW p \in Players, JoinHookEnds(p)
        PROVE  ReachedInv'
    BY <2>4 DEF JoinHookEnds, TypeOK
  <2>5. ASSUME NEW p \in Players, Leave(p)
        PROVE  ReachedInv'
    BY <2>5 DEF Leave, TypeOK
  <2>6. ASSUME NEW p \in Players, Removed(p)
        PROVE  ReachedInv'
    BY <2>6 DEF Removed
  <2>7. ASSUME NEW s \in Stores, NEW p \in Players, NEW ok \in BOOLEAN,
               WriteEnds(s, p) \/ LoadEnds(s, p, ok)
        PROVE  ReachedInv'
    BY <2>7 DEF WriteEnds, LoadEnds
  <2>8. CASE Boot
    BY <2>8 DEF Boot
  <2>9. CASE Close \/ Closed \/ GiveUp \/ UNCHANGED vars
    BY <2>9 DEF Close, CloseWith, Closed, GiveUp, vars
  <2> QED BY <2>1, <2>2, <2>3, <2>4, <2>5, <2>6, <2>7, <2>8, <2>9, <2>10 DEF Next, Step
<1>3. ReachedInv => NobodyMissed
  BY DEF ReachedInv
<1> QED BY <1>1, <1>2, <1>3, InitInv, NextInv, PTL DEF Spec

(* A player who left is gone for good, but for what a yielding boot or      *)
(* session factory does after their leave (server-app.ts:253-255, 526-576).*)
THEOREM NothingIsLeft == Spec => []NothingLeftBehind
<1> DEFINE Clear(p) ==
             /\ \A s \in Stores : doc[s][p] # "open" /\ (doc[s][p] = "loading" => waiting[s][p] > 0)
             /\ leaving[p] = "done" => p \in departed
           Gone(p) ==
             there[p] = "left" /\ leaving[p] # "hook" =>
               /\ late[p] # "join" => Clear(p)
               /\ late[p] = "no" => p \notin sessions
<1>0. NothingLeftBehind <=> \A p \in Players : Gone(p)
  BY DEF NothingLeftBehind
<1>1. Init => NothingLeftBehind
  BY DEF Init, Everywhere, NothingLeftBehind
<1>2. Inv /\ NothingLeftBehind /\ [Next]_vars => NothingLeftBehind'
  <2> SUFFICES ASSUME Inv, \A p \in Players : Gone(p), [Next]_vars
               PROVE  \A p \in Players : Gone(p)'
    BY <1>0 DEF NothingLeftBehind
  <2> USE DEF Inv
  <2>1. ASSUME NEW p \in Players, NEW throwing \in SUBSET Stores,
               BackfillNext(p, throwing) \/ (Join(p, throwing) /\ Connected)
        PROVE  \A q \in Players : Gone(q)'
    <3>1. /\ UNCHANGED <<leaving, sessions, waiting>> /\ LoadAll(p, throwing)
          /\ departed' = departed \ {p}
          /\ late' = [late EXCEPT ![p] = IF leaving[p] = "done" THEN "join" ELSE @]
      BY <2>1 DEF BackfillNext, Join, Added
    <3>2. there'[p] = "left" => leaving[p] # "no"
      BY <2>1 DEF BackfillNext, Join, HandlersInv, TypeOK
    <3>3. \A q \in Players \ {p} : there'[q] = there[q]
      BY <2>1 DEF BackfillNext, Join, TypeOK
    <3>4. ASSUME NEW q \in Players PROVE Gone(q)'
      <4>1. CASE q = p
        <5>1. leaving[p] \in {"no", "hook", "done"} /\ (leaving[p] = "done" => late'[p] = "join")
          BY <3>1 DEF TypeOK
        <5> QED BY <3>1, <3>2, <4>1, <5>1
      <4>2. CASE q # p
        <5>1. \A s \in Stores : doc'[s][q] = doc[s][q]
          BY <3>1, <4>2, LoadAllAt
        <5>2. (q \in departed' <=> q \in departed) /\ late'[q] = late[q]
          BY <3>1, <4>2 DEF TypeOK
        <5> QED BY <3>1, <3>3, <4>2, <5>1, <5>2
      <4> QED BY <4>1, <4>2
    <3> QED BY <3>4
  <2>2. ASSUME NEW p \in Players, NEW throwing \in SUBSET Stores, Join(p, throwing), ~Connected
        PROVE  \A q \in Players : Gone(q)'
    BY <2>2 DEF Join, TypeOK
  <2>12. ASSUME NEW p \in Players, NEW threw \in BOOLEAN, SessionMade(p, threw)
         PROVE  \A q \in Players : Gone(q)'
    <3>1. /\ UNCHANGED <<there, leaving, departed, doc, waiting>>
          /\ late' = [late EXCEPT ![p] = IF leaving[p] = "done" /\ @ = "no" THEN "session" ELSE @]
          /\ sessions' \subseteq sessions \cup {p}
      BY <2>12 DEF SessionMade, storeVars
    <3>2. there[p] = "left" => leaving[p] # "no"
      BY <2>12 DEF SessionMade, HandlersInv
    <3>3. ASSUME NEW q \in Players PROVE Gone(q)'
      <4>1. late'[q] = "join" <=> late[q] = "join"
        BY <3>1 DEF TypeOK
      <4>2. q = p /\ leaving[q] = "done" => late'[q] # "no"
        BY <3>1 DEF TypeOK
      <4>3. q # p => late'[q] = late[q] /\ (q \in sessions' => q \in sessions)
        BY <3>1 DEF TypeOK
      <4>4. leaving[q] \in {"no", "hook", "done"}
        BY DEF TypeOK
      <4> QED BY <3>1, <3>2, <4>1, <4>2, <4>3, <4>4
    <3> QED BY <3>3
  <2>3. CASE Booted
    BY <2>3 DEF Booted, storeVars
  <2>4. ASSUME NEW p \in Players, JoinHookEnds(p)
        PROVE  \A q \in Players : Gone(q)'
    BY <2>4 DEF JoinHookEnds, storeVars
  <2>5. ASSUME NEW p \in Players, Leave(p)
        PROVE  \A q \in Players : Gone(q)'
    <3>2. ASSUME NEW q \in Players PROVE Gone(q)'
      <4>1. CASE q = p /\ Connected
        BY <2>5, <4>1 DEF Leave, TypeOK
      <4>2. CASE q = p /\ ~Connected
        <5>1. boot = "no" /\ leaving[p] = "no" /\ UNCHANGED <<leaving, sessions, doc>>
          BY <2>5, <4>2 DEF Leave, Connected, HandlersInv, TypeOK, storeVars
        <5>2. p \notin sessions /\ \A s \in Stores : doc[s][p] = "none"
          BY <5>1 DEF HandlersInv, DocumentsInv, UntouchedInv
        <5> QED BY <4>2, <5>1, <5>2
      <4>3. CASE q # p
        BY <2>5, <4>3 DEF Leave, TypeOK, storeVars
      <4> QED BY <4>1, <4>2, <4>3
    <3> QED BY <3>2
  <2>6. ASSUME NEW p \in Players, Removed(p)
        PROVE  \A q \in Players : Gone(q)'
    <3>1. \A s \in Stores, q \in Players :
           /\ doc'[s][q] = IF q = p /\ doc[s][q] = "open" THEN "none" ELSE doc[s][q]
           /\ waiting'[s][q] = IF q = p /\ doc[s][q] = "loading"
                               THEN waiting[s][q] + 1 ELSE waiting[s][q]
      BY <2>6, RemovedAt
    <3>2. UNCHANGED <<there, late>> /\ leaving[p] = "hook"
      BY <2>6 DEF Removed
    <3>3. ASSUME NEW q \in Players PROVE Gone(q)'
      <4>1. CASE q = p
        <5>1. q \notin sessions' /\ q \in departed'
          BY <2>6, <4>1 DEF Removed
        <5>2. ASSUME NEW s \in Stores
              PROVE  doc'[s][q] # "open" /\ (doc'[s][q] = "loading" => waiting'[s][q] > 0)
          <6>1. waiting[s][q] \in Nat
            BY DEF TypeOK
          <6> QED BY <3>1, <4>1, <6>1
        <5> QED BY <5>1, <5>2
      <4>2. CASE q # p
        <5>1. \A s \in Stores : doc'[s][q] = doc[s][q] /\ waiting'[s][q] = waiting[s][q]
          BY <3>1, <4>2
        <5>2. /\ leaving'[q] = leaving[q]
              /\ (q \in sessions' <=> q \in sessions) /\ (q \in departed' <=> q \in departed)
          BY <2>6, <4>2 DEF Removed, TypeOK
        <5> QED BY <3>2, <5>1, <5>2
      <4> QED BY <4>1, <4>2
    <3> QED BY <3>3
  <2>7. ASSUME NEW s \in Stores, NEW p \in Players, NEW ok \in BOOLEAN, LoadEnds(s, p, ok)
        PROVE  \A q \in Players : Gone(q)'
    <3>1. UNCHANGED <<there, leaving, sessions, departed, late>>
      BY <2>7 DEF LoadEnds
    <3>a. /\ \A t \in Stores, q \in Players :
               t # s \/ q # p => doc'[t][q] = doc[t][q] /\ waiting'[t][q] = waiting[t][q]
          /\ doc[s][p] = "loading"
          /\ doc'[s][p] = IF ok /\ waiting[s][p] = 0 THEN "open" ELSE "none"
      BY <2>7, LoadEndsAt
    <3>2. ASSUME NEW q \in Players PROVE Gone(q)'
      <4>1. ASSUME NEW t \in Stores, there[q] = "left", leaving[q] # "hook", late[q] # "join"
            PROVE  doc'[t][q] # "open" /\ (doc'[t][q] = "loading" => waiting'[t][q] > 0)
        <5>1. doc[t][q] # "open" /\ (doc[t][q] = "loading" => waiting[t][q] > 0)
          BY <4>1
        <5> QED BY <3>a, <5>1
      <4> QED BY <3>1, <4>1
    <3> QED BY <3>2
  <2>8. ASSUME NEW s \in Stores, NEW p \in Players, WriteEnds(s, p)
        PROVE  \A q \in Players : Gone(q)'
    BY <2>8 DEF WriteEnds
  <2>9. CASE Boot
    BY <2>9 DEF Boot, storeVars
  <2>10. CASE Close
    <3>1. PICK S \in SUBSET (Stores \X Players) : ReleaseThe(S)
      BY <2>10, CloseAt
    <3>2. UNCHANGED <<there, leaving, sessions, departed, late>>
      BY <2>10 DEF Close, CloseWith
    <3>a. \A s \in Stores, q \in Players :
           /\ doc'[s][q] = IF <<s, q>> \in S /\ doc[s][q] = "open" THEN "none" ELSE doc[s][q]
           /\ waiting'[s][q] = IF <<s, q>> \in S /\ doc[s][q] = "loading"
                               THEN waiting[s][q] + 1 ELSE waiting[s][q]
      BY <3>1, ReleaseAt, ZenonT(30)
    <3>3. ASSUME NEW q \in Players PROVE Gone(q)'
      <4>1. ASSUME NEW t \in Stores, there[q] = "left", leaving[q] # "hook", late[q] # "join"
            PROVE  doc'[t][q] # "open" /\ (doc'[t][q] = "loading" => waiting'[t][q] > 0)
        <5>1. doc[t][q] # "open" /\ (doc[t][q] = "loading" => waiting[t][q] > 0) /\ waiting[t][q] \in Nat
          BY <4>1 DEF TypeOK
        <5>2. doc'[t][q] = doc[t][q] \/ doc'[t][q] = "none"
          BY <3>a
        <5>3. doc[t][q] = "loading" => waiting'[t][q] = waiting[t][q] \/ waiting'[t][q] = waiting[t][q] + 1
          BY <3>a
        <5> QED BY <5>1, <5>2, <5>3
      <4> QED BY <3>2, <4>1
    <3> QED BY <3>3
  <2>11. CASE Closed \/ GiveUp \/ UNCHANGED vars
    BY <2>11 DEF Closed, GiveUp, vars, storeVars
  <2> QED BY <2>1, <2>2, <2>3, <2>4, <2>5, <2>6, <2>7, <2>8, <2>9, <2>10, <2>11, <2>12 DEF Next, Step
<1> QED BY <1>1, <1>2, InitInv, NextInv, PTL DEF Spec

(* What BindToClose found held is written, or is gone, when it returns     *)
(* before its deadline (server-app.ts:629-651; player-store.ts:892-908).   *)
THEOREM HeldIsFlushed == Spec => []FlushedAtClose
<1> DEFINE Fate(s, p) == close # "no" /\ held[s][p] = "held" => joining[p] # "no" /\ Flushing(s, p)
           Waited == close = "over" => \A s \in Stores, p \in Players : awaited[s][p] = "no"
<1>0. CloseInv <=> Waited /\ \A s \in Stores, p \in Players : Fate(s, p)
  BY DEF CloseInv
<1>1. Init => CloseInv
  BY DEF Init, CloseInv
<1>2. Inv /\ CloseInv /\ [Next]_vars => CloseInv'
  <2> SUFFICES ASSUME Inv, Waited, \A s \in Stores, p \in Players : Fate(s, p), [Next]_vars
               PROVE  Waited' /\ \A s \in Stores, p \in Players : Fate(s, p)'
    BY <1>0 DEF CloseInv
  <2> USE DEF Inv
  <2>1. ASSUME NEW p \in Players, NEW throwing \in SUBSET Stores,
               BackfillNext(p, throwing)
        PROVE  Waited' /\ \A s \in Stores, q \in Players : Fate(s, q)'
    <3>1. close = "no" /\ close' = close
      BY <2>1 DEF BackfillNext, Backfilling, HandlersInv, closeVars
    <3> QED BY <3>1
  <2>2. ASSUME NEW p \in Players, NEW throwing \in SUBSET Stores,
               Join(p, throwing)
        PROVE  Waited' /\ \A s \in Stores, q \in Players : Fate(s, q)'
    <3>1. joining[p] = "no" /\ UNCHANGED <<waiting, writing, close, awaited, held>>
      BY <2>2 DEF Join, HandlersInv, closeVars
    <3>2. \A q \in Players \ {p} : joining'[q] = joining[q] /\ \A s \in Stores : doc'[s][q] = doc[s][q]
      <4>1. CASE Connected
        BY <2>2, <4>1, LoadAllAt DEF Join, Added, TypeOK
      <4>2. CASE ~Connected
        BY <2>2, <4>2 DEF Join
      <4> QED BY <4>1, <4>2
    <3>3. ASSUME NEW s \in Stores, NEW q \in Players PROVE Fate(s, q)'
      <4>1. CASE q = p
        BY <3>1, <4>1
      <4>2. CASE q # p
        BY <3>1, <3>2, <4>2 DEF Flushing
      <4> QED BY <4>1, <4>2
    <3> QED BY <3>1, <3>3
  <2>3. CASE Booted
    BY <2>3 DEF Booted, Flushing, storeVars, closeVars
  <2>4. ASSUME NEW p \in Players, JoinHookEnds(p)
        PROVE  Waited' /\ \A s \in Stores, q \in Players : Fate(s, q)'
    BY <2>4 DEF JoinHookEnds, Flushing, TypeOK, storeVars, closeVars
  <2>13. ASSUME NEW p \in Players, NEW threw \in BOOLEAN, SessionMade(p, threw)
         PROVE  Waited' /\ \A s \in Stores, q \in Players : Fate(s, q)'
    BY <2>13 DEF SessionMade, Flushing, TypeOK, storeVars, closeVars
  <2>5. ASSUME NEW p \in Players, Leave(p)
        PROVE  Waited' /\ \A s \in Stores, q \in Players : Fate(s, q)'
    BY <2>5 DEF Leave, Flushing, storeVars, closeVars
  <2>6. ASSUME NEW p \in Players, Removed(p)
        PROVE  Waited' /\ \A s \in Stores, q \in Players : Fate(s, q)'
    <3>1. UNCHANGED <<joining, close, awaited, held>>
      BY <2>6 DEF Removed, closeVars
    <3>2. ASSUME NEW s \in Stores, NEW q \in Players PROVE Fate(s, q)'
      <4>1. /\ doc'[s][q] = IF q = p /\ doc[s][q] = "open" THEN "none" ELSE doc[s][q]
            /\ waiting'[s][q] = IF q = p /\ doc[s][q] = "loading"
                                THEN waiting[s][q] + 1 ELSE waiting[s][q]
            /\ writing'[s][q] = (writing[s][q] \/ (q = p /\ doc[s][q] = "open"))
            /\ waiting[s][q] \in Nat
        BY <2>6, RemovedAt DEF TypeOK
      <4>2. ASSUME Flushing(s, q) PROVE Flushing(s, q)'
        <5>1. doc[s][q] # "open"
          BY <4>2 DEF Flushing
        <5>2. doc'[s][q] = doc[s][q] /\ (writing'[s][q] <=> writing[s][q])
          BY <4>1, <5>1
        <5>3. waiting[s][q] > 0 => waiting'[s][q] > 0
          BY <4>1
        <5> QED BY <3>1, <4>2, <5>2, <5>3 DEF Flushing
      <4> QED BY <3>1, <4>2
    <3> QED BY <3>1, <3>2
  <2>7. ASSUME NEW s \in Stores, NEW p \in Players, NEW ok \in BOOLEAN, LoadEnds(s, p, ok)
        PROVE  Waited' /\ \A t \in Stores, q \in Players : Fate(t, q)'
    <3>1. UNCHANGED <<joining, close, held>> /\ close # "over"
      BY <2>7 DEF LoadEnds, Running
    <3>2. /\ \A t \in Stores, q \in Players : t # s \/ q # p =>
               /\ doc'[t][q] = doc[t][q] /\ waiting'[t][q] = waiting[t][q]
               /\ writing'[t][q] = writing[t][q] /\ awaited'[t][q] = awaited[t][q]
          /\ doc[s][p] = "loading" /\ waiting[s][p] \in Nat
          /\ doc'[s][p] = IF ok /\ waiting[s][p] = 0 THEN "open" ELSE "none"
          /\ writing'[s][p] = (ok /\ waiting[s][p] > 0)
          /\ awaited'[s][p] = IF awaited[s][p] = "load" \/ (~ok /\ waiting[s][p] > 0) THEN "no"
                              ELSE awaited[s][p]
      BY <2>7, LoadEndsAt DEF TypeOK
    <3>3. ASSUME NEW t \in Stores, NEW q \in Players, Flushing(t, q) PROVE Flushing(t, q)'
      <4>1. CASE t = s /\ q = p
        <5>1. awaited[s][p] = "write" /\ waiting[s][p] > 0
          BY <3>2, <3>3, <4>1 DEF Flushing
        <5>2. doc'[s][p] = "none" /\ (~ok => ~writing'[s][p])
          BY <3>2, <5>1
        <5>3. ok => writing'[s][p] /\ awaited'[s][p] = "write"
          BY <3>2, <5>1
        <5> QED BY <4>1, <5>2, <5>3 DEF Flushing
      <4>2. CASE ~(t = s /\ q = p)
        <5>1. /\ doc'[t][q] = doc[t][q] /\ waiting'[t][q] = waiting[t][q]
              /\ writing'[t][q] = writing[t][q] /\ awaited'[t][q] = awaited[t][q]
          BY <3>2, <4>2
        <5> QED BY <3>3, <5>1 DEF Flushing
      <4> QED BY <4>1, <4>2
    <3> QED BY <3>1, <3>3
  <2>8. ASSUME NEW s \in Stores, NEW p \in Players, WriteEnds(s, p)
        PROVE  Waited' /\ \A t \in Stores, q \in Players : Fate(t, q)'
    <3>1. UNCHANGED <<joining, doc, waiting, close, held>> /\ close # "over" /\ doc[s][p] = "none"
      BY <2>8 DEF WriteEnds, Running, DocumentsInv, DocumentInv
    <3>2. /\ \A t \in Stores, q \in Players : t # s \/ q # p =>
               writing'[t][q] = writing[t][q] /\ awaited'[t][q] = awaited[t][q]
          /\ ~writing'[s][p]
      BY <2>8, WriteEndsAt
    <3>3. ASSUME NEW t \in Stores, NEW q \in Players, Flushing(t, q) PROVE Flushing(t, q)'
      <4>1. CASE t = s /\ q = p
        BY <3>1, <3>2, <4>1 DEF Flushing
      <4>2. CASE ~(t = s /\ q = p)
        <5>1. writing'[t][q] = writing[t][q] /\ awaited'[t][q] = awaited[t][q]
          BY <3>2, <4>2
        <5> QED BY <3>1, <3>3, <5>1 DEF Flushing
      <4> QED BY <4>1, <4>2
    <3> QED BY <3>1, <3>3
  <2>9. CASE Boot
    BY <2>9 DEF Boot, HandlersInv, closeVars
  <2>10. CASE Close
    <3>1. close' = "waiting" /\ UNCHANGED joining
      BY <2>10 DEF Close, CloseWith
    <3>2. PICK S \in SUBSET (Stores \X Players) :
            /\ ReleaseThe(S)
            /\ \A s \in Stores, p \in Players :
                 /\ <<s, p>> \in S <=> doc[s][p] \in {"open", "loading"}
                 /\ awaited'[s][p] = IF <<s, p>> \notin S THEN "no"
                                     ELSE IF waiting[s][p] > 0 THEN "load" ELSE "write"
                 /\ held'[s][p] = IF writing[s][p] \/ waiting[s][p] > 0 THEN "released"
                                  ELSE IF doc[s][p] # "none" THEN "held" ELSE "no"
      BY <2>10, CloseAt
    <3>3. \A s \in Stores, q \in Players :
           /\ doc'[s][q] = IF <<s, q>> \in S /\ doc[s][q] = "open" THEN "none" ELSE doc[s][q]
           /\ waiting'[s][q] = IF <<s, q>> \in S /\ doc[s][q] = "loading"
                               THEN waiting[s][q] + 1 ELSE waiting[s][q]
           /\ writing'[s][q] = (writing[s][q] \/ (<<s, q>> \in S /\ doc[s][q] = "open"))
      BY <3>2, ReleaseAt, ZenonT(30)
    <3>4. ASSUME NEW s \in Stores, NEW p \in Players, held'[s][p] = "held"
          PROVE  joining'[p] # "no" /\ Flushing(s, p)'
      <4>1. /\ doc[s][p] # "none" /\ waiting[s][p] = 0 /\ ~writing[s][p]
            /\ doc[s][p] \in {"open", "loading"} /\ <<s, p>> \in S /\ awaited'[s][p] = "write"
        <5>1. doc[s][p] \in {"none", "open", "loading"} /\ waiting[s][p] \in Nat
          BY DEF TypeOK
        <5> QED BY <3>2, <3>4, <5>1
      <4>2. joining[p] # "no"
        BY <4>1 DEF DocumentsInv, UntouchedInv
      <4>3. doc[s][p] = "open" => doc'[s][p] = "none" /\ writing'[s][p]
        BY <3>3, <4>1
      <4>4. doc[s][p] = "loading" => doc'[s][p] = "loading" /\ waiting'[s][p] = 1
        BY <3>3, <4>1
      <4> QED BY <3>1, <4>1, <4>2, <4>3, <4>4 DEF Flushing
    <3> QED BY <3>1, <3>4
  <2>11. CASE Closed \/ GiveUp
    BY <2>11 DEF Closed, GiveUp, Everywhere, Flushing, storeVars
  <2>12. CASE UNCHANGED vars
    BY <2>12 DEF vars, Flushing, storeVars, closeVars
  <2> QED BY <2>1, <2>2, <2>3, <2>4, <2>5, <2>6, <2>7, <2>8, <2>9, <2>10, <2>11, <2>12, <2>13 DEF Next, Step
<1>3. CloseInv => FlushedAtClose
  BY DEF CloseInv, Flushing, FlushedAtClose
<1> QED BY <1>1, <1>2, <1>3, InitInv, NextInv, PTL DEF Spec

(* While onPlayerRemoving runs, its player's documents are there to be     *)
(* written, unless the server has closed (server-app.ts:559-570).          *)
THEOREM HookWritesCount == Spec => []HookWritesAreFlushed
<1> DEFINE Kept(s, p) == close = "no" /\ leaving[p] # "done" => ~writing[s][p] /\ waiting[s][p] = 0
           Spared == \A s \in Stores, p \in Players : Kept(s, p)
<1>0. HooksInv <=> Spared
  BY DEF HooksInv
<1>1. Init => HooksInv
  BY DEF Init, HooksInv, Everywhere
<1>2. Inv /\ HooksInv /\ [Next]_vars => HooksInv'
  <2> SUFFICES ASSUME Inv, Spared, [Next]_vars
               PROVE  Spared'
    BY <1>0 DEF HooksInv
  <2> USE DEF Inv
  <2>1. ASSUME NEW p \in Players, NEW throwing \in SUBSET Stores,
               BackfillNext(p, throwing) \/ Join(p, throwing)
        PROVE  Spared'
    BY <2>1 DEF BackfillNext, Join, closeVars
  <2>2. ASSUME NEW p \in Players, Leave(p)
        PROVE  Spared'
    <3>1. leaving[p] # "done" /\ UNCHANGED <<waiting, writing, close>>
      BY <2>2 DEF Leave, HandlersInv, storeVars, closeVars
    <3>2. \A q \in Players \ {p} : leaving'[q] = leaving[q]
      BY <2>2 DEF Leave, TypeOK
    <3> QED BY <3>1, <3>2
  <2>3. ASSUME NEW p \in Players, Removed(p)
        PROVE  Spared'
    <3>1. leaving'[p] = "done" /\ close' = close /\ \A q \in Players \ {p} : leaving'[q] = leaving[q]
      BY <2>3 DEF Removed, TypeOK, closeVars
    <3>2. \A s \in Stores, q \in Players \ {p} : (writing'[s][q] <=> writing[s][q]) /\ waiting'[s][q] = waiting[s][q]
      BY <2>3, RemovedAt
    <3> QED BY <3>1, <3>2
  <2>4. ASSUME NEW s \in Stores, NEW p \in Players, NEW ok \in BOOLEAN, LoadEnds(s, p, ok)
        PROVE  Spared'
    <3>1. UNCHANGED <<leaving, close>>
      BY <2>4 DEF LoadEnds
    <3>2. /\ \A t \in Stores, q \in Players : t # s \/ q # p =>
               waiting'[t][q] = waiting[t][q] /\ writing'[t][q] = writing[t][q]
          /\ waiting'[s][p] = 0 /\ (writing'[s][p] => waiting[s][p] # 0)
      BY <2>4, LoadEndsAt
    <3>3. ASSUME NEW t \in Stores, NEW q \in Players PROVE Kept(t, q)'
      <4>1. CASE t = s /\ q = p
        <5>1. Kept(s, p)
          OBVIOUS
        <5>2. waiting[s][p] = 0 => ~writing'[s][p]
          BY <3>2
        <5> QED BY <3>1, <3>2, <4>1, <5>1, <5>2
      <4>2. CASE ~(t = s /\ q = p)
        BY <3>1, <3>2, <4>2
      <4> QED BY <4>1, <4>2
    <3> QED BY <3>3
  <2>5. ASSUME NEW s \in Stores, NEW p \in Players, WriteEnds(s, p)
        PROVE  Spared'
    BY <2>5, WriteEndsAt DEF WriteEnds
  <2>6. CASE Close
    BY <2>6 DEF Close, CloseWith
  <2>7. CASE Booted \/ Boot \/ Closed \/ GiveUp \/ UNCHANGED vars
             \/ \E p \in Players : JoinHookEnds(p) \/ \E threw \in BOOLEAN : SessionMade(p, threw)
    BY <2>7 DEF Booted, Boot, Closed, GiveUp, JoinHookEnds, SessionMade, vars, storeVars, closeVars
  <2> QED BY <2>1, <2>2, <2>3, <2>4, <2>5, <2>6, <2>7 DEF Next, Step
<1>3. HooksInv => HookWritesAreFlushed
  BY DEF HooksInv, HookWritesAreFlushed
<1> QED BY <1>1, <1>2, <1>3, InitInv, NextInv, PTL DEF Spec
=============================================================================
