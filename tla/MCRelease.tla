----------------------------- MODULE MCRelease ------------------------------
(* A workflow of two targets on a Linux machine and a macOS machine that    *)
(* also serves a developer, and at most MaxCommands things asked of them.   *)
EXTENDS Release

CONSTANTS lin, mac, ci, dev,
  MaxCommands  \* bound: clones, switches, downloads and commands issued

VARIABLE commands

TwoTargets == {lin, mac}
TargetOs == [t \in TwoTargets |-> IF t = lin THEN "linux" ELSE "darwin"]
Machines == [c \in {ci, dev} |-> IF c = ci THEN lin ELSE mac]

(* A machine with every tool; one without the cross tools that may skip.    *)
SomeEnvironments ==
  {[tools |-> Tools, zig |-> "auto", allow |-> FALSE],
   [tools |-> {"cargo"}, zig |-> "auto", allow |-> TRUE]}

Issued ==
  \E c \in Checkouts :
    /\ run[c] = None
    /\ <<version[c], native[c], wrapper[c], run[c]>>' # <<version[c], native[c], wrapper[c], run[c]>>

(* The workflow's machine only ever runs the workflow's steps, on the       *)
(* version it was started for.                                              *)
WorkflowOnly ==
  /\ version[ci] = 1
  /\ \A t \in Targets : native[ci][t] # None => native[ci][t].profile = "release"
  /\ run[ci] # None => /\ run[ci].cmd # "prepare" /\ run[ci].env.tools = Tools
                       /\ run[ci].cmd = "publish" => run[ci].assemble

(* The natives of version 1 may have been built by the workflow already.   *)
MCInit ==
  /\ commands = 0
  /\ version = [c \in Checkouts |-> 1]
  /\ \E built \in BOOLEAN :
       uploads = [v \in Versions |-> [t \in Targets |-> IF built /\ v = 1 THEN ReleaseBuild(v)
                                                         ELSE None]]
  /\ native = [c \in Checkouts |-> [t \in Targets |-> None]]
  /\ wrapper = [c \in Checkouts |-> {}]
  /\ run = [c \in Checkouts |-> None]
  /\ registry = [p \in Packages |-> [v \in Versions |-> None]]
  /\ leftovers = {} /\ sets = [v \in Versions |-> {}] /\ shipped = {}

MCNext ==
  /\ ReleaseNext
  /\ commands' = IF Issued THEN commands + 1 ELSE commands
  /\ commands' <= MaxCommands
  /\ WorkflowOnly'

MCSpec == MCInit /\ [][MCNext]_<<releaseVars, commands>>
=============================================================================
