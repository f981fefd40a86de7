----------------------------- MODULE ActionServer -----------------------------
(***************************************************************************)
(* What an action server that executes one goal after the other promises:  *)
(* it decides about goals in the order in which they come, ends accepted   *)
(* goals in that order, gives each one result, and reports a goal as       *)
(* canceled only if it accepted to cancel it.                              *)
(***************************************************************************)
EXTENDS Naturals

CONSTANT Goals          \* 1 .. n, in the order in which they are requested

VARIABLE goal           \* state of each goal

Active == {"executing", "canceling"}
Over == {"succeeded", "aborted", "canceled"}

Init == goal = [g \in Goals |-> "none"]

(* Decide about the goal requested next; at most one accepted goal may     *)
(* wait for another to end.                                                *)
Decide(g) ==
  /\ goal[g] = "none" /\ \A h \in Goals : h < g => goal[h] # "none"
  /\ \/ goal' = [goal EXCEPT ![g] = "rejected"]
     \/ /\ \A h, i \in Goals : goal[h] \in Active /\ goal[i] \in Active => h = i
        /\ goal' = [goal EXCEPT ![g] = "executing"]

Cancel(g) ==
  /\ goal[g] = "executing"
  /\ goal' = [goal EXCEPT ![g] = "canceling"]

End(g) ==
  /\ goal[g] \in Active
  /\ \A h \in Goals : h < g => goal[h] \notin Active
  /\ \E result \in Over :
       /\ result = "canceled" => goal[g] = "canceling"
       /\ goal' = [goal EXCEPT ![g] = result]

Next == \E g \in Goals : Decide(g) \/ Cancel(g) \/ End(g)

Spec == Init /\ [][Next]_goal
=============================================================================
