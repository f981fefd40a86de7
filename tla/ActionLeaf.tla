----------------------------- MODULE ActionLeaf -----------------------------
(***************************************************************************)
(* What a leaf of the behavior tree that wraps a ROS action promises to    *)
(* the rest of the tree:                                                   *)
(*                                                                         *)
(*   - at most one of its goals is alive on the action server;             *)
(*   - no goal is alive unless the leaf is RUNNING, so that completing or  *)
(*     halting the leaf never leaves the robot moving;                     *)
(*   - the leaf reports SUCCESS only for a goal that succeeded;            *)
(*   - a completed leaf stays completed until its parent resets it.        *)
(***************************************************************************)
EXTENDS Naturals, FiniteSets

CONSTANT Goals                     \* goal identifiers, each used once

VARIABLES
  status,                          \* BT::NodeStatus of the leaf
  live,                            \* goals the server may still act upon
  succeeded                        \* did the last goal reach SUCCEEDED

vars == <<status, live, succeeded>>

Init == status = "IDLE" /\ live = {} /\ succeeded = FALSE

Begin ==
  /\ status = "IDLE" /\ status' = "RUNNING"
  /\ \E g \in Goals : live' = {g}
  /\ succeeded' = FALSE

(* The goal is not sent.                                                   *)
Refuse == status = "IDLE" /\ status' = "FAILURE" /\ UNCHANGED <<live, succeeded>>

(* The server is done with the goal.                                       *)
GoalEnds ==
  /\ status = "RUNNING"
  /\ live # {} /\ live' = {}
  /\ succeeded' \in BOOLEAN
  /\ UNCHANGED status

Complete ==
  /\ status = "RUNNING" /\ live = {}
  /\ \/ status' = "SUCCESS" /\ succeeded
     \/ status' = "FAILURE"
  /\ UNCHANGED <<live, succeeded>>

Halted ==
  /\ status = "RUNNING" /\ live = {} /\ status' = "IDLE"
  /\ UNCHANGED <<live, succeeded>>

Reset ==
  /\ status \in {"SUCCESS", "FAILURE"} /\ status' = "IDLE"
  /\ UNCHANGED <<live, succeeded>>

Next == Begin \/ Refuse \/ GoalEnds \/ Complete \/ Halted \/ Reset

Spec == Init /\ [][Next]_vars

=============================================================================
