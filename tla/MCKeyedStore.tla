---------------------------- MODULE MCKeyedStore ----------------------------
(* A store at versions 1, 2 and 3 on servers that run side by side, any    *)
(* two of eleven calls of theirs, and the records other writers leave.      *)
EXTENDS KeyedStore, FiniteSets, TLC
CONSTANTS r1, r2, server,
  MaxForeign,  \* bound: writes by others in one behaviour
  MaxCalls     \* bound: calls in one behaviour
VARIABLE foreign   \* how many there were

Made(op, v, given) == [op |-> op, v |-> v, given |-> given]
MCCalls ==
  {Made("update", v, "sound") : v \in 1 .. 3} \cup
  {Made("save", 1, "sound"), Made("save", 2, "misfit"), Made("save", 3, "large"),
   Made("load", 2, "sound"), Made("overwrite", 1, "sound"), Made("overwrite", 2, "unstorable"),
   Made("remove", 1, "sound"), Made("remove", 2, "sound")}
MCOp == [c \in MCCalls |-> c.op]
MCVersion == [c \in MCCalls |-> c.v]
MCGiven == [c \in MCCalls |-> c.given]
MCBadKeys == {Made("remove", 1, "sound")}

Plain(v, is) ==
  [marker |-> "ours", misfit |-> "none", vital |-> FALSE, version |-> v,
   data |-> [at |-> v, is |-> is, bytes |-> 1],
   meta |-> [receipts |-> <<r1, r2>>, known |-> TRUE, extra |-> 1], lock |-> server]
MCForeign ==
  {Plain(v, is) : v \in 1 .. 3, is \in {"sound", "stuck"}} \cup
  {Plain(2, "misfit"), [Plain(1, "sound") EXCEPT !.vital = TRUE],
   [Plain(1, "sound") EXCEPT !.marker = "newer"], [Plain(1, "sound") EXCEPT !.misfit = "inner", !.vital = TRUE],
   [Plain(2, "sound") EXCEPT !.meta.extra = 3],
   [Plain(0, "sound") EXCEPT !.marker = "none", !.misfit = "top"]}

MCInit == Init /\ foreign = 0
MCNext ==
  \/ (\E c \in Calls : Begin(c) \/ Step(c)) /\ UNCHANGED foreign
     /\ Cardinality({c \in Calls : call'[c].stage # "new"}) <= MaxCalls
  \/ /\ foreign < MaxForeign /\ foreign' = foreign + 1
     /\ \E r \in Foreign : WrittenByOthers(r)
MCSpec == MCInit /\ [][MCNext]_<<vars, foreign>>
=============================================================================
