------------------------- MODULE TreeExecutionServer -------------------------
(***************************************************************************)
(* TreeExecutionServer: an action server that executes a behavior tree per *)
(* goal.  The executor runs the callbacks (handle_goal and handle_accepted,*)
(* which rclcpp_action calls right after it; handle_cancel; the timer that *)
(* registers the trees; the parameter callback) one at a time; each goal is*)
(* executed in a thread of its own, in which the tree is ticked.           *)
(*                                                                         *)
(* Goals are numbered in the order in which their requests are taken.  An  *)
(* IDLE or SKIPPED tree is treated by the code as one that failed.  The    *)
(* text of results and feedback, Groot and the tick rate are left out.     *)
(*                                                                         *)
(* Methods that a derived server overrides may throw.  What they throw     *)
(* inside the try block of execute() aborts the goal; outside of it        *)
(* (onGoalReceived, registerNodesIntoFactory and onTreeExecutionCompleted  *)
(* of a tree that ended) it ends the process.                              *)
(***************************************************************************)
EXTENDS Naturals

CONSTANTS
  MaxTreeGoals,        \* bound on the goal requests
  MaxParamChanges      \* bound on the changes of the parameters

ASSUME GoalsAssumption == MaxTreeGoals \in Nat \ {0} /\ MaxParamChanges \in Nat

TreeGoals == 1 .. MaxTreeGoals

VARIABLES
  executor,        \* what the executor is doing
  requested,       \* goal requests handled so far
  actionThread,    \* goal whose thread is in action_thread, 0 if none was started
  cancels,         \* goals with a cancel request not handled yet
  goal,            \* state of each goal handle
  at,              \* where the execute() of each goal stands
  execStatus,      \* its local status: what the last tick returned
  treeOf,          \* goal that p_->tree was created for, 0 if none
  treeRunning,     \* has p_->tree a RUNNING node
  initialized,     \* factory_initialized_
  valid,           \* versions of the parameters that name only existing directories
  paramChanges,    \* version of the parameters
  params,          \* version of p_->params
  ok,              \* rclcpp::ok()
  crashed,         \* the process died of an exception or of a data race
  ticked,          \* history: the trees that the thread of each goal ticked
  since            \* history: version of the parameters when the last thread started

goalVars == <<requested, cancels, goal>>
execVars == <<execStatus, treeOf, treeRunning, ticked>>
threadVars == <<at, execVars>>
paramVars == <<valid, paramChanges, params, since>>
serverVars == <<executor, actionThread, goalVars, threadVars, initialized, paramVars, ok, crashed>>

Active == {"executing", "canceling"}
Over == {"succeeded", "aborted", "canceled"}

ServerInit ==
  /\ executor = "spinning" /\ actionThread = 0
  /\ requested = 0 /\ cancels = {} /\ goal = [g \in TreeGoals |-> "none"]
  /\ at = [g \in TreeGoals |-> "none"] /\ execStatus = [g \in TreeGoals |-> "RUNNING"]
  /\ treeOf = 0 /\ treeRunning = FALSE /\ ticked = [g \in TreeGoals |-> {}]
  /\ initialized = FALSE /\ valid \in SUBSET (0 .. MaxParamChanges)
  /\ paramChanges = 0 /\ params = 0 /\ since = 0
  /\ ok = TRUE /\ crashed = FALSE

Spinning == executor = "spinning" /\ ok /\ ~crashed
InThread(g, place) == at[g] = place /\ ~crashed

-----------------------------------------------------------------------------
(* The factory has no lock: a thread that creates a tree while the executor *)
(* registers may find it broken.                                           *)
MayCrash == IF executor = "registering" THEN crashed' \in BOOLEAN ELSE crashed' = FALSE

(* The timer, once: executeRegistration takes the parameters.              *)
Register ==
  /\ Spinning /\ ~initialized
  /\ params' = paramChanges
  /\ executor' = "registering"
  /\ UNCHANGED <<actionThread, goalVars, threadVars, initialized, valid, paramChanges, since,
                 ok, crashed>>

(* The end of executeRegistration, here or in a thread.  It throws for a   *)
(* directory that does not exist, and wherever registerNodesIntoFactory    *)
(* throws, as it does for nodes that it has registered before: the factory *)
(* forgets trees, never nodes.  Nothing catches that.                      *)
Registered == crashed' = FALSE /\ params \in valid /\ initialized' = TRUE

RegistrationThrows == crashed' = TRUE /\ UNCHANGED initialized

EndRegister ==
  /\ executor = "registering" /\ ~crashed
  /\ Registered \/ RegistrationThrows
  /\ executor' = "spinning"
  /\ UNCHANGED <<actionThread, goalVars, threadVars, paramVars, ok>>

-----------------------------------------------------------------------------
(* Goal and cancel requests.                                               *)

HandleGoal ==
  /\ Spinning /\ requested < MaxTreeGoals
  /\ \/ /\ requested' = requested + 1
        /\ goal' = [goal EXCEPT ![requested'] = "rejected"] /\ UNCHANGED <<executor, crashed>>
     \/ /\ requested' = requested + 1
        /\ goal' = [goal EXCEPT ![requested'] = "executing"]
        /\ executor' = "joining" /\ UNCHANGED crashed
     \/ crashed' = TRUE /\ UNCHANGED <<requested, goal, executor>>
  /\ UNCHANGED <<actionThread, cancels, threadVars, initialized, paramVars, ok>>

(* Mutant: the previous thread is replaced without joining it.             *)
StartWithoutJoin ==
  /\ executor = "joining" /\ ~crashed
  /\ actionThread' = requested
  /\ at' = [at EXCEPT ![requested] = "starting"]
  /\ executor' = "spinning"
  /\ UNCHANGED <<goalVars, execVars, initialized, paramVars, ok, crashed>>

(* The rest of handle_accepted, in the same callback: join the thread of   *)
(* the previous goal, however long it runs, and start the new one.         *)
HandleAccepted ==
  /\ executor = "joining" /\ ~crashed
  /\ actionThread # 0 => at[actionThread] = "ended"
  /\ actionThread' = requested
  /\ at' = [at EXCEPT ![requested] = "starting"]
  /\ executor' = "spinning"
  /\ UNCHANGED <<goalVars, execVars, initialized, paramVars, ok, crashed>>

AskCancel(g) ==
  /\ goal[g] \in Active \cup Over /\ g \notin cancels /\ ok /\ ~crashed
  /\ cancels' = cancels \cup {g}
  /\ UNCHANGED <<executor, actionThread, requested, goal, threadVars, initialized, paramVars,
                 ok, crashed>>

(* Mutant: is_active is not asked.                                         *)
HandleCancelAlways(g) ==
  /\ Spinning /\ g \in cancels
  /\ cancels' = cancels \ {g}
  /\ goal' = [goal EXCEPT ![g] = "canceling"]
  /\ UNCHANGED <<executor, actionThread, requested, threadVars, initialized, paramVars, ok,
                 crashed>>

(* rclcpp_action moves the goal to canceling if handle_cancel accepts.     *)
HandleCancel(g) ==
  /\ Spinning /\ g \in cancels
  /\ cancels' = cancels \ {g}
  /\ goal' = IF goal[g] \in Active THEN [goal EXCEPT ![g] = "canceling"] ELSE goal
  /\ UNCHANGED <<executor, actionThread, requested, threadVars, initialized, paramVars, ok,
                 crashed>>

-----------------------------------------------------------------------------
(* execute(), in the thread of goal g.                                     *)

executorVars == <<executor, actionThread, requested, cancels, ok>>

(* Mutant: only a factory that was never filled is filled.                *)
StartThreadOnce(g) ==
  /\ InThread(g, "starting")
  /\ at' = [at EXCEPT ![g] = IF params # paramChanges /\ ~initialized
                                THEN "reloading" ELSE "creating"]
  /\ since' = paramChanges
  /\ UNCHANGED <<executorVars, goal, execVars, initialized, valid, paramChanges, params, crashed>>

(* What is_old answers decides whether the thread registers first.         *)
StartThread(g) ==
  /\ InThread(g, "starting")
  /\ at' = [at EXCEPT ![g] = IF params # paramChanges THEN "reloading" ELSE "creating"]
  /\ since' = paramChanges
  /\ UNCHANGED <<executorVars, goal, execVars, initialized, valid, paramChanges, params, crashed>>

(* The parameters may have changed once more.                              *)
Reload(g) ==
  /\ InThread(g, "reloading")
  /\ at' = [at EXCEPT ![g] = "registering"]
  /\ params' = paramChanges
  /\ UNCHANGED <<executorVars, goal, execVars, initialized, valid, paramChanges, since, crashed>>

(* A factory that the executor fills as well may be found broken.          *)
ThreadRegistered(g) ==
  /\ InThread(g, "registering")
  /\ Registered \/ RegistrationThrows
  /\ at' = [at EXCEPT ![g] = "creating"]
  /\ UNCHANGED <<executorVars, goal, execVars, paramVars>>

(* Mutant: the handler of an exception forgets the goal.                   *)
ForgetGoal(g) == at' = [at EXCEPT ![g] = "ended"] /\ UNCHANGED goal

(* The handler of an exception: the tree is left as it is.                 *)
AbortGoal(g) ==
  /\ goal' = [goal EXCEPT ![g] = "aborted"]
  /\ at' = [at EXCEPT ![g] = "ended"]

(* Create the tree, which replaces and destroys the previous one.  Before  *)
(* the first registration no tree has a name.                              *)
CreateTree(g) ==
  /\ InThread(g, "creating")
  /\ MayCrash
  /\ \/ /\ initialized \/ executor = "registering"
        /\ treeOf' = g /\ treeRunning' = FALSE
        /\ \/ at' = [at EXCEPT ![g] = "looping"] /\ UNCHANGED goal
           \/ AbortGoal(g)
     \/ AbortGoal(g) /\ UNCHANGED <<treeOf, treeRunning>>
  /\ UNCHANGED <<executorVars, execStatus, ticked, initialized, paramVars>>

MayTick(g) == InThread(g, "looping") /\ ok /\ execStatus[g] = "RUNNING"

(* Mutant: the tree is left as it is.                                      *)
CancelWithoutHalt(g) ==
  /\ MayTick(g) /\ goal[g] = "canceling"
  /\ goal' = [goal EXCEPT ![g] = "canceled"]
  /\ at' = [at EXCEPT ![g] = "ended"]
  /\ UNCHANGED <<executorVars, execVars, initialized, paramVars, crashed>>

(* stop_action for a canceling goal; halting the tree may throw.           *)
StopCanceled(g) ==
  /\ MayTick(g) /\ goal[g] = "canceling"
  /\ \/ /\ treeRunning' = FALSE
        /\ goal' = [goal EXCEPT ![g] = "canceled"]
        /\ at' = [at EXCEPT ![g] = "ended"]
     \/ AbortGoal(g) /\ treeRunning' \in BOOLEAN
  /\ UNCHANGED <<executorVars, execStatus, treeOf, ticked, initialized, paramVars, crashed>>

(* Mutant: is_canceling is not asked before the tick.                      *)
TickDeaf(g) ==
  /\ MayTick(g)
  /\ ticked' = [ticked EXCEPT ![g] = @ \cup {treeOf}]
  /\ execStatus' = [execStatus EXCEPT ![g] = "RUNNING"] /\ treeRunning' = TRUE
  /\ at' = [at EXCEPT ![g] = "ticked"]
  /\ UNCHANGED <<executorVars, goal, treeOf, initialized, paramVars, crashed>>

(* tickExactlyOnce; a leaf may throw.                                      *)
TickTree(g) ==
  /\ MayTick(g) /\ goal[g] # "canceling"
  /\ ticked' = [ticked EXCEPT ![g] = @ \cup {treeOf}]
  /\ \/ /\ \E result \in {"RUNNING", "SUCCESS", "FAILURE"} :
             /\ execStatus' = [execStatus EXCEPT ![g] = result]
             /\ treeRunning' = (result = "RUNNING")
        /\ at' = [at EXCEPT ![g] = "ticked"] /\ UNCHANGED goal
     \/ AbortGoal(g) /\ treeRunning' \in BOOLEAN /\ UNCHANGED execStatus
  /\ UNCHANGED <<executorVars, treeOf, initialized, paramVars, crashed>>

(* onLoopAfterTick lets the loop go on, or stops the tree with a status of *)
(* its own; either may throw.                                              *)
AfterTick(g) ==
  /\ InThread(g, "ticked")
  /\ \/ at' = [at EXCEPT ![g] = "looping"] /\ UNCHANGED <<goal, treeRunning>>
     \/ AbortGoal(g) /\ treeRunning' = FALSE
     \/ AbortGoal(g) /\ UNCHANGED treeRunning
  /\ UNCHANGED <<executorVars, execStatus, treeOf, ticked, initialized, paramVars, crashed>>

(* Mutants: an interrupted tree succeeds; the result carries the status.   *)
FinishNotFailed(g) ==
  /\ InThread(g, "looping") /\ (ok => execStatus[g] # "RUNNING")
  /\ goal' = [goal EXCEPT ![g] = IF execStatus[g] = "FAILURE" THEN "aborted" ELSE "succeeded"]
  /\ at' = [at EXCEPT ![g] = "ended"]
  /\ UNCHANGED <<executorVars, execVars, initialized, paramVars, crashed>>

FinishWithStatus(g) ==
  /\ InThread(g, "looping") /\ (ok => execStatus[g] # "RUNNING")
  /\ goal' = [goal EXCEPT ![g] = execStatus[g]]
  /\ at' = [at EXCEPT ![g] = "ended"]
  /\ UNCHANGED <<executorVars, execVars, initialized, paramVars, crashed>>

(* The tree completed, or rclcpp was shut down while it was RUNNING.  The *)
(* goal stays unanswered if onTreeExecutionCompleted throws.               *)
Finish(g) ==
  /\ InThread(g, "looping") /\ (ok => execStatus[g] # "RUNNING")
  /\ \/ /\ goal' = [goal EXCEPT ![g] = IF execStatus[g] = "SUCCESS" THEN "succeeded" ELSE "aborted"]
        /\ at' = [at EXCEPT ![g] = "ended"] /\ UNCHANGED crashed
     \/ crashed' = TRUE /\ UNCHANGED <<goal, at>>
  /\ UNCHANGED <<executorVars, execVars, initialized, paramVars>>

-----------------------------------------------------------------------------
(* The parameter callback of the node.                                     *)
SetParameters ==
  /\ Spinning /\ paramChanges < MaxParamChanges
  /\ paramChanges' = paramChanges + 1
  /\ UNCHANGED <<executor, actionThread, goalVars, threadVars, initialized, valid, params,
                 since, ok, crashed>>

(* rclcpp::shutdown: spin returns after the callback under way.            *)
Shutdown ==
  /\ ok /\ ~crashed /\ ok' = FALSE
  /\ UNCHANGED <<executor, actionThread, goalVars, threadVars, initialized, paramVars, crashed>>

(* The destructor joins nothing, and a std::thread that was started and    *)
(* not joined, even if it has ended, terminates the process.               *)
DestroyServer ==
  /\ ~ok /\ ~crashed /\ executor = "spinning" /\ actionThread # 0
  /\ crashed' = TRUE
  /\ UNCHANGED <<executor, actionThread, goalVars, threadVars, initialized, paramVars, ok>>

ExecutorStep ==
  \/ Register \/ EndRegister \/ HandleAccepted
  \/ \E g \in TreeGoals : HandleCancel(g)

ThreadStep(g) ==
  \/ StartThread(g) \/ Reload(g) \/ ThreadRegistered(g) \/ CreateTree(g)
  \/ StopCanceled(g) \/ TickTree(g) \/ AfterTick(g) \/ Finish(g)

ServerNext ==
  \/ ExecutorStep \/ HandleGoal \/ SetParameters \/ Shutdown \/ DestroyServer
  \/ \E g \in TreeGoals : AskCancel(g) \/ ThreadStep(g)

ServerSpec == ServerInit /\ [][ServerNext]_serverVars

(* The executor spins and the threads run; a tree may stay RUNNING.        *)
ServerFairSpec ==
  /\ ServerSpec
  /\ WF_serverVars(Register) /\ WF_serverVars(EndRegister) /\ WF_serverVars(HandleAccepted)
  /\ \A g \in TreeGoals : WF_serverVars(HandleCancel(g)) /\ WF_serverVars(ThreadStep(g))

-----------------------------------------------------------------------------
ServerTypeOK ==
  /\ executor \in {"spinning", "registering", "joining"}
  /\ requested \in 0 .. MaxTreeGoals /\ actionThread \in 0 .. requested
  /\ cancels \subseteq TreeGoals
  /\ goal \in [TreeGoals -> {"none", "rejected"} \cup Active \cup Over]
  /\ at \in [TreeGoals -> {"none", "starting", "reloading", "registering", "creating", "looping",
                    "ticked", "ended"}]
  /\ execStatus \in [TreeGoals -> {"RUNNING", "SUCCESS", "FAILURE"}]
  /\ treeOf \in 0 .. actionThread /\ treeRunning \in BOOLEAN
  /\ valid \subseteq 0 .. MaxParamChanges
  /\ {paramChanges, params, since} \subseteq 0 .. MaxParamChanges
  /\ {initialized, ok, crashed} \subseteq BOOLEAN
  /\ ticked \in [TreeGoals -> SUBSET TreeGoals]

(* The server keeps the promise of an action server that executes one goal *)
(* after the other, through cancellations, exceptions and a shutdown.      *)
Abstract == INSTANCE ActionServer WITH Goals <- TreeGoals
ServesGoals == Abstract!Spec

(* A thread ticks no tree but the one of its goal, although all share      *)
(* p_->tree, and a goal succeeds only if that tree returned SUCCESS.       *)
OwnTree ==
  \A g \in TreeGoals :
    /\ ticked[g] \subseteq {g}
    /\ goal[g] = "succeeded" => execStatus[g] = "SUCCESS" /\ g \in ticked[g]

(* When a goal is reported as canceled or succeeded, none of its leaves is *)
(* still RUNNING.  (After an exception some may be.)                       *)
AnsweredAtRest ==
  \A g \in TreeGoals : treeOf = g /\ goal[g] \in {"canceled", "succeeded"} => ~treeRunning

(* The tree of a goal is made from parameters no older than those that     *)
(* were set when its thread started, although they change while threads    *)
(* start and register, and only one of executor and thread takes them.     *)
NewestTrees ==
  \A g \in TreeGoals : at[g] \in {"creating", "looping", "ticked"} => since <= params

(* An accepted cancellation ends the goal, even if its tree never ends,    *)
(* unless the process crashes.                                             *)
CancelEnds == \A g \in TreeGoals : goal[g] = "canceling" ~> goal[g] \in Over \/ crashed

(* If every tree ends, every accepted goal is answered, also one that      *)
(* waits for another, or the process has crashed.                          *)
TreesEnd == \A g \in TreeGoals : at[g] = "looping" ~> execStatus[g] # "RUNNING" \/ at[g] = "ended"
GoalsEnd == TreesEnd => \A g \in TreeGoals : goal[g] = "executing" ~> goal[g] \in Over \/ crashed

(* The executor is never blocked by the execution of a goal: a request to  *)
(* cancel is handled.                                                      *)
CancelHandled == \A g \in TreeGoals : g \in cancels ~> g \notin cancels \/ crashed \/ ~ok
=============================================================================
