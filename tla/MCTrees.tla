------------------------------ MODULE MCTrees -------------------------------
(***************************************************************************)
(* The action leaf under a parent that ticks, halts and resets it as it    *)
(* likes, and in the tree of the engine, for TLC: a behaviour has one of   *)
(* the two parents.  Without an engine, its variables keep their initial   *)
(* values.                                                                 *)
(***************************************************************************)
EXTENDS BTEngine

VARIABLE parent

parentVars == <<parent, allVars>>

InEngine(A) == parent = "engine" /\ A /\ UNCHANGED parent

InTree(A) == parent = "any" /\ A /\ UNCHANGED <<parent, engineVars>>

ParentsInit == EngineInit /\ parent \in {"engine", "any"}

ParentsNext == InEngine(EngineNext) \/ InTree(Next)

(* The fairness of BTEngine and of RosActionNode, restated for the steps   *)
(* of this module.                                                         *)
ParentsSpec ==
  /\ ParentsInit /\ [][ParentsNext]_parentVars
  /\ WF_parentVars(InEngine(BuildTree)) /\ SF_parentVars(InEngine(StartCallback))
  /\ WF_parentVars(InEngine(RunTree)) /\ WF_parentVars(InEngine(TickInstruction))
  /\ WF_parentVars(InEngine(TickNavigate)) /\ WF_parentVars(InEngine(TreeCompletes))
  /\ \A what \in {"goal", "result"} : SF_parentVars(InEngine(TickNavigate /\ Answered(what)))
  /\ WF_parentVars(InTree(Tick)) /\ WF_parentVars(InTree(CancelStep))
  /\ WF_parentVars(InTree(Reset))
  /\ \A what \in {"goal", "cancel", "result"} :
       SF_parentVars(InTree((Tick \/ CancelStep) /\ Answered(what)))
  /\ \A g \in Goals :
       /\ WF_parentVars(AcceptGoal(g) /\ UNCHANGED <<parent, engineVars>>)
       /\ WF_parentVars(AcceptCancel(g) /\ UNCHANGED <<parent, engineVars>>)
       /\ WF_parentVars(FinishGoal(g) /\ UNCHANGED <<parent, engineVars>>)

(* A RUNNING leaf that its parent goes on ticking stops RUNNING: no reply  *)
(* is lost and no wait is for something that does not come.  (An engine    *)
(* that is interrupted ticks no more.)                                     *)
RunningEnds ==
  parent = "any" /\ status = "RUNNING" ~> status # "RUNNING" \/ phase = "crashed"

=============================================================================
