------------------------------ MODULE BTEngine ------------------------------
(***************************************************************************)
(* The bt_engine process: it builds the tree, waits for /start and ticks   *)
(* the tree until it completes.  The tree is a Sequence whose last child   *)
(* is NavigateToPose, a RosActionNode; semantic_tree.xml has a             *)
(* SetSemanticInstruction before it.  The engine never halts the tree.     *)
(*                                                                         *)
(* A Ctrl-C ends the loop between two ticks and leaves the leaf as it is.  *)
(***************************************************************************)
EXTENDS RosActionNode

CONSTANT WithInstruction       \* does the tree begin with SetSemanticInstruction

ASSUME TreeAssumption == WithInstruction \in BOOLEAN

VARIABLES
  engine,          \* where main() stands
  startPending,    \* a /start message waits in start_sub_, whose depth is 1
  startReceived,   \* start_received_
  child,           \* the child of the Sequence that is ticked next
  instructed,      \* has the instruction been published
  treeStatus       \* status in runTree: what the last tick of the tree returned

start == <<startPending, startReceived>>
tree == <<child, instructed, treeStatus>>
engineVars == <<engine, start, tree>>
allVars == <<vars, engineVars>>

EngineInit ==
  /\ Init
  /\ engine = "building"
  /\ startPending = FALSE /\ startReceived = FALSE
  /\ child = IF WithInstruction THEN "instruction" ELSE "navigate"
  /\ instructed = FALSE /\ treeStatus = "RUNNING"

(* buildTree: main returns at once if the XML does not load.               *)
BuildTree ==
  /\ engine = "building"
  /\ engine' \in {"waiting", "exited"}
  /\ UNCHANGED <<start, tree, vars>>

(* Somebody publishes on /start.                                           *)
PublishStart ==
  /\ engine \in {"building", "waiting", "running"}
  /\ startPending' = TRUE
  /\ UNCHANGED <<engine, startReceived, tree, vars>>

BetweenTicks == phase = "idle" /\ status \in {"IDLE", "RUNNING"}

(* Mutant: a second /start takes the first one back.                       *)
StartCallbackToggle ==
  /\ engine \in {"waiting", "running"} /\ BetweenTicks
  /\ startPending
  /\ startPending' = FALSE /\ startReceived' = ~startReceived
  /\ UNCHANGED <<engine, tree, vars>>

(* spin_some and startCallback, before the tree and between its ticks; when *)
(* the tree runs it only logs.                                             *)
StartCallback ==
  /\ engine \in {"waiting", "running"} /\ BetweenTicks
  /\ startPending
  /\ startPending' = FALSE /\ startReceived' = TRUE
  /\ UNCHANGED <<engine, tree, vars>>

RunTree ==
  /\ engine = "waiting" /\ startReceived
  /\ engine' = "running"
  /\ UNCHANGED <<start, tree, vars>>

(* SetSemanticInstruction publishes, or fails for want of an instruction.  *)
TickInstruction ==
  /\ engine = "running" /\ child = "instruction"
  /\ \/ instructed' = TRUE /\ child' = "navigate" /\ UNCHANGED <<engine, treeStatus>>
     \/ treeStatus' = "FAILURE" /\ engine' = "finished" /\ UNCHANGED <<instructed, child>>
  /\ UNCHANGED <<start, vars>>

(* A step of the leaf's tick.  Nothing catches an exception.               *)
TickNavigate ==
  /\ engine = "running" /\ child = "navigate"
  /\ Tick
  /\ engine' = IF phase' = "crashed" THEN "exited" ELSE "running"
  /\ UNCHANGED <<start, tree>>

(* Mutants: the loop runs on after the tree has completed, or after it has *)
(* failed; a failed child does not fail the tree.                          *)
RestartTree ==
  /\ engine = "running"
  /\ Reset
  /\ treeStatus' = status /\ UNCHANGED engine
  /\ UNCHANGED <<start, child, instructed>>

RetryTree ==
  /\ engine = "running"
  /\ Reset
  /\ treeStatus' = status
  /\ engine' = IF treeStatus' = "SUCCESS" THEN "finished" ELSE engine
  /\ UNCHANGED <<start, child, instructed>>

ForceSuccess ==
  /\ engine = "running"
  /\ Reset
  /\ treeStatus' = "SUCCESS" /\ engine' = "finished"
  /\ UNCHANGED <<start, child, instructed>>

(* The tick that completes the leaf completes the Sequence, which resets   *)
(* the leaf, and ends the loop.                                            *)
TreeCompletes ==
  /\ engine = "running"
  /\ Reset
  /\ treeStatus' = status /\ engine' = "finished"
  /\ UNCHANGED <<start, child, instructed>>

(* rclcpp::ok() is false.                                                  *)
Interrupt ==
  /\ engine \in {"waiting", "running"} /\ BetweenTicks
  /\ engine' = "exited"
  /\ UNCHANGED <<start, tree, vars>>

ServerActs == (\E g \in Goals : ServerStep(g)) /\ UNCHANGED engineVars

EngineNext ==
  \/ BuildTree \/ PublishStart \/ StartCallback \/ RunTree \/ TickInstruction \/ TickNavigate
  \/ TreeCompletes \/ Interrupt \/ ServerActs

EngineSpec == EngineInit /\ [][EngineNext]_allVars

(* The loops of main run on, and so does the action server.                *)
EngineFairSpec ==
  /\ EngineSpec
  /\ WF_allVars(BuildTree) /\ SF_allVars(StartCallback) /\ WF_allVars(RunTree)
  /\ WF_allVars(TickInstruction) /\ WF_allVars(TickNavigate)
  /\ WF_allVars(TreeCompletes)
  /\ \A kind \in {"goal", "result"} : SF_allVars(TickNavigate /\ Answered(kind))
  /\ \A g \in Goals : /\ WF_allVars(AcceptGoal(g) /\ UNCHANGED engineVars)
                     /\ WF_allVars(FinishGoal(g) /\ UNCHANGED engineVars)

-----------------------------------------------------------------------------
(* One process sends at most one goal, however many /start messages come.  *)
OneGoalPerProcess == engine # "building" => sent <= 1

(* A tree that ran to its end has left no goal on the server, and has      *)
(* succeeded only at its goal and after the instruction was published.     *)
FinishedTree ==
  engine = "finished" =>
    /\ \A g \in Goals : server[g] \notin Live
    /\ treeStatus = "SUCCESS" =>
         /\ sent # 0 /\ server[sent] = "succeeded"
         /\ WithInstruction => instructed

(* After a /start message a goal is sent, unless the tree is not loaded or *)
(* ends before, by itself or by a Ctrl-C.                                  *)
StartSendsGoal ==
  startPending ~> \/ sent # 0
                  \/ engine = "finished"
                  \/ engine = "exited" /\ phase # "crashed"

(* A running tree ends.                                                    *)
TreeEnds == engine = "running" ~> engine \in {"finished", "exited"}

=============================================================================
