------------------------------ MODULE MCLeaves ------------------------------
(***************************************************************************)
(* The wrappers of ROS interfaces by themselves, for TLC.  A behaviour is  *)
(* that of one of them, named by kind: the action client with a server     *)
(* that may be gone, the service client with one that may be gone, a set   *)
(* of leaves that read topics, or the action server that executes trees.   *)
(* The variables of the other kinds keep their initial values.             *)
(***************************************************************************)
EXTENDS RosActionNode, RosServiceNode, RosTopicSubNode, TreeExecutionServer

CONSTANTS l1, l2, l3

(* Two leaves of static names, and one that follows the blackboard and     *)
(* latches.                                                                *)
MCPorts == [l \in {l1, l2, l3} |-> IF l = l3 THEN Topic \cup {NoTopic}
                                   ELSE {CHOOSE t \in Topic : TRUE}]

VARIABLE kind

leafVars == <<kind, vars, serviceVars, subVars, serverVars>>

ActionStep(A) == kind = "action" /\ A /\ UNCHANGED <<kind, serviceVars, subVars, serverVars>>

ServiceStep(A) == kind = "service" /\ A /\ UNCHANGED <<kind, vars, subVars, serverVars>>

TopicStep(A) == kind = "topic" /\ A /\ UNCHANGED <<kind, vars, serviceVars, serverVars>>

TreesStep(A) == kind = "trees" /\ A /\ UNCHANGED <<kind, vars, serviceVars, subVars>>

LeavesInit ==
  /\ Init /\ ServiceInit /\ SubInit /\ ServerInit
  /\ kind \in {"action", "service", "topic", "trees"}
  /\ kind = "action" \/ client = (TRUE \in Clients)
  /\ kind = "service" \/ (serviceName = NoService /\ port = NoService /\ ~onBoard)
  /\ kind = "trees" \/ valid = {}

LeavesNext ==
  \/ ActionStep(Next)
  \/ ServiceStep(ServiceNext)
  \/ TopicStep(SubNext)
  \/ TreesStep(ServerNext)

(* The fairness of the modules, restated for the steps of this one: the    *)
(* deadlines of an action client's waits; the deadline of a service call,  *)
(* and a tree that goes on ticking it; the executor and the threads of the *)
(* tree server.  Servers of actions and of services are not fair.          *)
LeavesSpec ==
  /\ LeavesInit /\ [][LeavesNext]_leafVars
  /\ WF_leafVars(ActionStep(AcceptAwaited \/ AcceptTimedOut \/ CancelAwaited \/ ResultAwaited))
  /\ WF_leafVars(ServiceStep(TickRunning))
  /\ WF_leafVars(ServiceStep(Overdue))
  /\ WF_leafVars(TreesStep(Register)) /\ WF_leafVars(TreesStep(EndRegister))
  /\ WF_leafVars(TreesStep(HandleAccepted))
  /\ \A g \in TreeGoals :
       WF_leafVars(TreesStep(HandleCancel(g))) /\ WF_leafVars(TreesStep(ThreadStep(g)))

(* Each variable has its type, and the connections of the subscriber       *)
(* leaves are in order.                                                    *)
LeavesTypeOK == TypeOK /\ ServiceTypeOK /\ SubTypeOK /\ ServerTypeOK

=============================================================================
