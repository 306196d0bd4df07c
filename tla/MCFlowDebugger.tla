---------------------------- MODULE MCFlowDebugger ----------------------------
(***************************************************************************)
(* Instances of FlowDebugger for TLC: there is a real run that waits for   *)
(* its subflow, and a run that somebody debugs.                            *)
(***************************************************************************)
EXTENDS FlowDebugger

MCInitial == << [parent |-> 0, debug |-> FALSE, state |-> "waiting"],
                [parent |-> 1, debug |-> FALSE, state |-> "executing"],
                [parent |-> 0, debug |-> TRUE, state |-> "executing"] >>
================================================================================
