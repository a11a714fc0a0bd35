-------------------------- MODULE MCSignalChannel ---------------------------
(* Two players, a frame of two items, a signal of each sort, and a batch   *)
(* of three payloads in chunks of two for one of them.                     *)
EXTENDS SignalChannel, TLC
CONSTANTS p1, p2, b1, s1

MCGroups == {<<p1>>, <<p2, p1, p2>>}
MCBatchOf == b1 :> [to |-> p1, signal |-> s1, size |-> 3]
=============================================================================
