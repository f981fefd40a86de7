-------------------------- MODULE TreeServerProofs --------------------------
(***************************************************************************)
(* The tree execution server for any number of goals and of changes of the *)
(* parameters: its safety properties, and that it implements ActionServer. *)
(***************************************************************************)
EXTENDS TreeExecutionServer, TLAPS

InLoop == {"looping", "ticked"}
Running == {"starting", "reloading", "registering", "creating"} \cup InLoop

(* Goals and threads: goals are decided in order, only action_thread runs, *)
(* its goal is active until it ends, and the only other active goal is one *)
(* for which the executor waits in join.                                   *)
ThreadsInv ==
  /\ \A g \in TreeGoals : goal[g] = "none" <=> g > requested
  /\ \A g \in TreeGoals : at[g] \in Running => g = actionThread /\ goal[g] \in Active
  /\ \A g \in TreeGoals : at[g] \in InLoop => treeOf = g
  /\ \A g \in TreeGoals : g > actionThread => at[g] = "none"
  /\ \A g \in TreeGoals : goal[g] \in Over <=> at[g] = "ended"
  /\ \A g \in TreeGoals :
       goal[g] \in Active => at[g] \in Running \/ (executor = "joining" /\ g = requested)
  /\ executor = "joining" => actionThread < requested /\ goal[requested] = "executing"

(* The tree of the thread in the loop is p_->tree, only a tick changes a   *)
(* status, and a tree whose tick has completed it has no RUNNING node.     *)
TreeMadeInv ==
  /\ \A g \in TreeGoals : ticked[g] \subseteq {g}
  /\ \A g \in TreeGoals : execStatus[g] # "RUNNING" => g \in ticked[g]
  /\ \A g \in TreeGoals : goal[g] = "succeeded" => execStatus[g] = "SUCCESS"
  /\ \A g \in TreeGoals : at[g] \in InLoop /\ execStatus[g] # "RUNNING" => ~treeRunning
  /\ AnsweredAtRest

(* A thread that registers takes the parameters of now, and the one that   *)
(* does not found that p_->params were those of now.                       *)
VersionsInv ==
  /\ params <= paramChanges /\ since <= paramChanges
  /\ NewestTrees
  /\ \A g \in TreeGoals : at[g] = "registering" => since <= params

ServerInv == ServerTypeOK /\ ThreadsInv /\ TreeMadeInv /\ VersionsInv

(* A thread that runs on keeps goals and threads in order.                 *)
LEMMA ThreadRuns ==
  ASSUME ServerTypeOK, ThreadsInv, UNCHANGED <<executor, requested, actionThread, goal>>,
         NEW g \in TreeGoals, at[g] \in Running,
         NEW place \in Running, at' = [at EXCEPT ![g] = place],
         place \in InLoop => treeOf' = g
  PROVE  ThreadsInv'
BY GoalsAssumption DEF ServerTypeOK, ThreadsInv, TreeGoals, Active, Over, Running, InLoop

(* So does one that ends with its goal.                                    *)
LEMMA ThreadEnds ==
  ASSUME ServerTypeOK, ThreadsInv, UNCHANGED <<executor, requested, actionThread>>,
         NEW g \in TreeGoals, at[g] \in Running, at' = [at EXCEPT ![g] = "ended"],
         treeOf' \in {g, treeOf}, NEW result \in Over, goal' = [goal EXCEPT ![g] = result]
  PROVE  ThreadsInv'
BY GoalsAssumption DEF ServerTypeOK, ThreadsInv, TreeGoals, Active, Over, Running, InLoop

(* What becomes of a goal request.                                         *)
GoalDecided(state) ==
  requested' = requested + 1 /\ goal' = [goal EXCEPT ![requested'] = state]

HandleOutcome ==
  \/ GoalDecided("rejected") /\ UNCHANGED <<executor, crashed>>
  \/ GoalDecided("executing") /\ executor' = "joining" /\ UNCHANGED crashed
  \/ crashed' = TRUE /\ UNCHANGED <<requested, goal, executor>>

LEMMA OutcomeOfHandle == HandleGoal => HandleOutcome
BY DEF HandleGoal, HandleOutcome, GoalDecided

LEMMA ThreadsStep ==
  ASSUME ServerTypeOK, ThreadsInv, [ServerNext]_serverVars
  PROVE  ServerTypeOK' /\ ThreadsInv'
<1> USE GoalsAssumption DEF ServerTypeOK, ThreadsInv, TreeGoals, Active, Over, Running, InLoop
<1>1. CASE Register
  BY <1>1 DEF Register, Spinning, goalVars, threadVars, execVars
<1>2. CASE EndRegister
  BY <1>2 DEF EndRegister, Registered, RegistrationThrows, goalVars, threadVars, execVars,
              paramVars
<1>3. CASE HandleGoal
  <2>0. HandleOutcome
    BY <1>3, OutcomeOfHandle
  <2> USE <1>3 DEF HandleGoal, Spinning, threadVars, execVars, paramVars
  <2>1. CASE GoalDecided("rejected") /\ UNCHANGED <<executor, crashed>>
    BY <2>1 DEF GoalDecided
  <2>2. CASE GoalDecided("executing") /\ executor' = "joining" /\ UNCHANGED crashed
    BY <2>2 DEF GoalDecided
  <2>3. CASE crashed' = TRUE /\ UNCHANGED <<requested, goal, executor>>
    BY <2>3
  <2> QED BY ONLY <2>0, <2>1, <2>2, <2>3 DEF HandleOutcome
<1>4. CASE HandleAccepted
  BY <1>4 DEF HandleAccepted, goalVars, execVars, paramVars
<1>5. ASSUME NEW g \in TreeGoals, HandleCancel(g)
      PROVE  ServerTypeOK' /\ ThreadsInv'
  BY <1>5 DEF HandleCancel, Spinning, threadVars, execVars, paramVars
<1>6. ASSUME NEW g \in TreeGoals, AskCancel(g)
      PROVE  ServerTypeOK' /\ ThreadsInv'
  BY <1>6 DEF AskCancel, threadVars, execVars, paramVars
<1>7. ASSUME NEW g \in TreeGoals, StartThread(g)
      PROVE  ServerTypeOK' /\ ThreadsInv'
  <2> USE <1>7 DEF StartThread, InThread, executorVars, execVars
  <2>1. ThreadsInv'
    BY ThreadRuns
  <2>2. ServerTypeOK'
    OBVIOUS
  <2> QED BY <2>1, <2>2
<1>8. ASSUME NEW g \in TreeGoals, ThreadRegistered(g)
      PROVE  ServerTypeOK' /\ ThreadsInv'
  <2> USE <1>8 DEF ThreadRegistered, InThread, Registered, RegistrationThrows, paramVars, executorVars, execVars
  <2>1. ThreadsInv'
    BY ThreadRuns
  <2>2. ServerTypeOK'
    OBVIOUS
  <2> QED BY <2>1, <2>2
<1>9. ASSUME NEW g \in TreeGoals, CreateTree(g)
      PROVE  ServerTypeOK' /\ ThreadsInv'
  <2> USE <1>9 DEF CreateTree, InThread, MayCrash, AbortGoal, paramVars, executorVars, execVars
  <2>0. g \in 0 .. actionThread' /\ crashed' \in BOOLEAN
    <3>1. g = actionThread /\ actionThread' = actionThread
      OBVIOUS
    <3>2. crashed' \in BOOLEAN
      OBVIOUS
    <3> QED BY <3>1, <3>2
  <2>1. CASE AbortGoal(g) /\ treeOf' = g /\ treeRunning' = FALSE
    <3>1. ThreadsInv'
      BY <2>1, ThreadEnds
    <3>2. ServerTypeOK'
      BY <2>0, <2>1
    <3> QED BY <3>1, <3>2
  <2>2. CASE AbortGoal(g) /\ UNCHANGED <<treeOf, treeRunning>>
    <3>1. ThreadsInv'
      BY <2>2, ThreadEnds
    <3>2. ServerTypeOK'
      BY <2>2
    <3> QED BY <3>1, <3>2
  <2>3. CASE /\ at' = [at EXCEPT ![g] = "looping"] /\ UNCHANGED goal
            /\ treeOf' = g /\ treeRunning' = FALSE
    <3>1. ThreadsInv'
      BY <2>3, ThreadRuns
    <3>2. ServerTypeOK'
      BY <2>0, <2>3
    <3> QED BY <3>1, <3>2
  <2> QED BY <2>1, <2>2, <2>3
<1>10. ASSUME NEW g \in TreeGoals, StopCanceled(g)
      PROVE  ServerTypeOK' /\ ThreadsInv'
  <2> USE <1>10 DEF StopCanceled, MayTick, InThread, AbortGoal, paramVars, executorVars, execVars
  <2>1. CASE /\ treeRunning' = FALSE
            /\ goal' = [goal EXCEPT ![g] = "canceled"] /\ at' = [at EXCEPT ![g] = "ended"]
    <3>1. ThreadsInv'
      BY <2>1, ThreadEnds
    <3>2. ServerTypeOK'
      BY <2>1
    <3> QED BY <3>1, <3>2
  <2>2. CASE AbortGoal(g) /\ treeRunning' \in BOOLEAN
    <3>1. ThreadsInv'
      BY <2>2, ThreadEnds
    <3>2. ServerTypeOK'
      BY <2>2
    <3> QED BY <3>1, <3>2
  <2> QED BY <2>1, <2>2
<1>11. ASSUME NEW g \in TreeGoals, TickTree(g)
      PROVE  ServerTypeOK' /\ ThreadsInv'
  <2> USE <1>11 DEF TickTree, MayTick, InThread, AbortGoal, paramVars, executorVars, execVars
  <2>1. CASE AbortGoal(g) /\ treeRunning' \in BOOLEAN /\ UNCHANGED execStatus
    <3>1. ThreadsInv'
      BY <2>1, ThreadEnds
    <3>2. ServerTypeOK'
      BY <2>1
    <3> QED BY <3>1, <3>2
  <2>2. CASE /\ at' = [at EXCEPT ![g] = "ticked"] /\ UNCHANGED goal
            /\ \E result \in {"RUNNING", "SUCCESS", "FAILURE"} :
                 /\ execStatus' = [execStatus EXCEPT ![g] = result]
                 /\ treeRunning' = (result = "RUNNING")
    <3>1. ThreadsInv'
      BY <2>2, ThreadRuns
    <3>2. ServerTypeOK'
      BY <2>2
    <3> QED BY <3>1, <3>2
  <2> QED BY <2>1, <2>2
<1>12. ASSUME NEW g \in TreeGoals, AfterTick(g)
      PROVE  ServerTypeOK' /\ ThreadsInv'
  <2> USE <1>12 DEF AfterTick, InThread, AbortGoal, paramVars, executorVars, execVars
  <2>1. CASE AbortGoal(g) /\ treeRunning' \in {FALSE, treeRunning}
    <3>1. ThreadsInv'
      BY <2>1, ThreadEnds
    <3>2. ServerTypeOK'
      BY <2>1
    <3> QED BY <3>1, <3>2
  <2>2. CASE at' = [at EXCEPT ![g] = "looping"] /\ UNCHANGED <<goal, treeRunning>>
    <3>1. ThreadsInv'
      BY <2>2, ThreadRuns
    <3>2. ServerTypeOK'
      BY <2>2
    <3> QED BY <3>1, <3>2
  <2> QED BY <2>1, <2>2
<1>13. ASSUME NEW g \in TreeGoals, Finish(g)
      PROVE  ServerTypeOK' /\ ThreadsInv'
  <2> USE <1>13 DEF Finish, InThread, paramVars, executorVars, execVars
  <2>1. CASE /\ goal' = [goal EXCEPT ![g] = IF execStatus[g] = "SUCCESS" THEN "succeeded"
                                            ELSE "aborted"]
            /\ at' = [at EXCEPT ![g] = "ended"] /\ UNCHANGED crashed
    BY <2>1
  <2>2. CASE crashed' = TRUE /\ UNCHANGED <<goal, at>>
    BY <2>2
  <2> QED BY <2>1, <2>2
<1>14. CASE SetParameters
  BY <1>14 DEF SetParameters, Spinning, goalVars, threadVars, execVars
<1>15. CASE Shutdown
  BY <1>15 DEF Shutdown, goalVars, threadVars, execVars, paramVars
<1>16. CASE DestroyServer
  BY <1>16 DEF DestroyServer, goalVars, threadVars, execVars, paramVars
<1>17. CASE UNCHANGED serverVars
  BY <1>17 DEF serverVars, goalVars, threadVars, execVars, paramVars
<1>18. ASSUME NEW g \in TreeGoals, Reload(g)
      PROVE  ServerTypeOK' /\ ThreadsInv'
  <2> USE <1>18 DEF Reload, InThread, executorVars, execVars
  <2>1. ThreadsInv'
    BY ThreadRuns
  <2>2. ServerTypeOK'
    OBVIOUS
  <2> QED BY <2>1, <2>2
<1> QED
  BY <1>1, <1>2, <1>3, <1>4, <1>5, <1>6, <1>7, <1>8, <1>9, <1>10, <1>11, <1>12,
         <1>13, <1>14, <1>15, <1>16, <1>17, <1>18
     DEF ServerNext, ExecutorStep, ThreadStep

LEMMA ServerTreeStep ==
  ASSUME ServerTypeOK, ThreadsInv, TreeMadeInv, [ServerNext]_serverVars
  PROVE  TreeMadeInv'
<1> USE GoalsAssumption DEF ServerTypeOK, ThreadsInv, TreeMadeInv, AnsweredAtRest, TreeGoals, Active, Over,
                            Running, InLoop
<1>1. CASE Register
  BY <1>1 DEF Register, Spinning, goalVars, threadVars, execVars
<1>2. CASE EndRegister
  BY <1>2 DEF EndRegister, Registered, RegistrationThrows, goalVars, threadVars, execVars,
              paramVars
<1>3. CASE HandleGoal
  <2>0. HandleOutcome
    BY <1>3, OutcomeOfHandle
  <2> USE <1>3 DEF HandleGoal, Spinning, threadVars, execVars, paramVars
  <2>1. CASE GoalDecided("rejected")
    BY <2>1 DEF GoalDecided
  <2>2. CASE GoalDecided("executing")
    BY <2>2 DEF GoalDecided
  <2>3. CASE UNCHANGED <<requested, goal, executor>>
    BY <2>3
  <2> QED BY ONLY <2>0, <2>1, <2>2, <2>3 DEF HandleOutcome
<1>4. CASE HandleAccepted
  BY <1>4 DEF HandleAccepted, goalVars, execVars, paramVars
<1>5. ASSUME NEW g \in TreeGoals, HandleCancel(g)
      PROVE  TreeMadeInv'
  BY <1>5 DEF HandleCancel, Spinning, threadVars, execVars, paramVars
<1>6. ASSUME NEW g \in TreeGoals, AskCancel(g)
      PROVE  TreeMadeInv'
  BY <1>6 DEF AskCancel, threadVars, execVars, paramVars
<1>7. ASSUME NEW g \in TreeGoals, StartThread(g)
      PROVE  TreeMadeInv'
  BY <1>7 DEF StartThread, InThread, executorVars, execVars
<1>8. ASSUME NEW g \in TreeGoals, ThreadRegistered(g)
      PROVE  TreeMadeInv'
  BY <1>8 DEF ThreadRegistered, InThread, Registered, RegistrationThrows, paramVars,
              executorVars, execVars
<1>9. ASSUME NEW g \in TreeGoals, CreateTree(g)
      PROVE  TreeMadeInv'
  BY <1>9 DEF CreateTree, InThread, MayCrash, AbortGoal, paramVars, executorVars, execVars
<1>10. ASSUME NEW g \in TreeGoals, StopCanceled(g)
      PROVE  TreeMadeInv'
  BY <1>10 DEF StopCanceled, MayTick, AbortGoal, paramVars, executorVars, execVars, InThread
<1>11. ASSUME NEW g \in TreeGoals, TickTree(g)
      PROVE  TreeMadeInv'
  <2> USE <1>11 DEF TickTree, MayTick, InThread, AbortGoal, paramVars, executorVars, execVars
  <2>1. CASE AbortGoal(g) /\ UNCHANGED execStatus
    BY <2>1
  <2>2. ASSUME NEW result \in {"RUNNING", "SUCCESS", "FAILURE"},
               execStatus' = [execStatus EXCEPT ![g] = result],
               treeRunning' = (result = "RUNNING"),
               at' = [at EXCEPT ![g] = "ticked"], UNCHANGED goal
        PROVE  TreeMadeInv'
    BY <2>2
  <2> QED BY <2>1, <2>2
<1>12. ASSUME NEW g \in TreeGoals, AfterTick(g)
      PROVE  TreeMadeInv'
  BY <1>12 DEF AfterTick, InThread, AbortGoal, paramVars, executorVars, execVars
<1>13. ASSUME NEW g \in TreeGoals, Finish(g)
      PROVE  TreeMadeInv'
  BY <1>13 DEF Finish, InThread, paramVars, executorVars, execVars
<1>14. CASE SetParameters
  BY <1>14 DEF SetParameters, Spinning, goalVars, threadVars, execVars
<1>15. CASE Shutdown
  BY <1>15 DEF Shutdown, goalVars, threadVars, execVars, paramVars
<1>16. CASE DestroyServer
  BY <1>16 DEF DestroyServer, goalVars, threadVars, execVars, paramVars
<1>17. CASE UNCHANGED serverVars
  BY <1>17 DEF serverVars, goalVars, threadVars, execVars, paramVars
<1>18. ASSUME NEW g \in TreeGoals, Reload(g)
      PROVE  TreeMadeInv'
  BY <1>18 DEF Reload, InThread, executorVars, execVars
<1> QED
  BY <1>1, <1>2, <1>3, <1>4, <1>5, <1>6, <1>7, <1>8, <1>9, <1>10, <1>11, <1>12,
         <1>13, <1>14, <1>15, <1>16, <1>17, <1>18
     DEF ServerNext, ExecutorStep, ThreadStep

LEMMA VersionsStep ==
  ASSUME ServerTypeOK, ThreadsInv, VersionsInv, [ServerNext]_serverVars
  PROVE  VersionsInv'
<1> USE GoalsAssumption DEF ServerTypeOK, VersionsInv, NewestTrees
<1>1. CASE Register \/ SetParameters
  BY <1>1 DEF Register, SetParameters, threadVars
<1>2. ASSUME NEW g \in TreeGoals, StartThread(g) \/ Reload(g) \/ ThreadRegistered(g)
      PROVE  VersionsInv'
  <2>1. CASE StartThread(g)
    <3>1. at[g] \in Running /\ \A h \in TreeGoals : at[h] \in Running => h = g
      BY <2>1 DEF StartThread, InThread, ThreadsInv, Running
    <3> QED BY <2>1, <3>1 DEF StartThread, Running, InLoop
  <2>2. CASE Reload(g)
    BY <2>2 DEF Reload, InThread
  <2>3. CASE ThreadRegistered(g)
    BY <2>3 DEF ThreadRegistered, InThread, paramVars
  <2> QED BY <1>2, <2>1, <2>2, <2>3
<1>3. ASSUME NEW g \in TreeGoals,
             CreateTree(g) \/ StopCanceled(g) \/ TickTree(g) \/ AfterTick(g) \/ Finish(g)
      PROVE  VersionsInv'
  <2>1. at[g] \in {"creating", "looping", "ticked"} /\ UNCHANGED paramVars
    BY <1>3 DEF CreateTree, StopCanceled, TickTree, AfterTick, Finish, MayTick, InThread
  <2>2. \/ UNCHANGED at
        \/ \E place \in {"looping", "ticked", "ended"} : at' = [at EXCEPT ![g] = place]
    BY <1>3 DEF CreateTree, StopCanceled, TickTree, AfterTick, Finish, AbortGoal
  <2> QED BY <2>1, <2>2 DEF paramVars
<1>4. CASE HandleAccepted
  BY <1>4 DEF HandleAccepted, paramVars
<1>5. CASE \/ EndRegister \/ HandleGoal \/ Shutdown \/ DestroyServer \/ UNCHANGED serverVars
           \/ \E g \in TreeGoals : HandleCancel(g) \/ AskCancel(g)
  BY <1>5 DEF EndRegister, HandleGoal, Shutdown, DestroyServer, serverVars, HandleCancel, AskCancel,
              threadVars, paramVars
<1> QED BY <1>1, <1>2, <1>3, <1>4, <1>5 DEF ServerNext, ExecutorStep, ThreadStep

(* The inductive invariant: it holds in every state of the server.         *)
THEOREM ServerInvariant == ServerSpec => []ServerInv
<1>1. ASSUME ServerInit PROVE ServerInv
  <2> USE <1>1, GoalsAssumption DEF ServerInit, TreeGoals
  <2>1. ServerTypeOK
    <3>1. requested = 0 /\ 0 \in 0 .. MaxTreeGoals /\ actionThread = 0 /\ treeOf = 0 /\ 0 \in 0 .. 0
      OBVIOUS
    <3>2. {paramChanges, params, since} \subseteq 0 .. MaxParamChanges
      OBVIOUS
    <3>3. {initialized, ok, crashed} \subseteq BOOLEAN
      OBVIOUS
    <3>4. ticked \in [TreeGoals -> SUBSET TreeGoals] /\ cancels \subseteq TreeGoals
      OBVIOUS
    <3> QED BY <3>1, <3>2, <3>3, <3>4 DEF ServerTypeOK, Active, Over
  <2>2. ThreadsInv
    BY DEF ThreadsInv, Active, Over, Running, InLoop
  <2>3. TreeMadeInv
    BY DEF TreeMadeInv, AnsweredAtRest, InLoop
  <2>4. VersionsInv
    BY DEF VersionsInv, NewestTrees
  <2> QED BY <2>1, <2>2, <2>3, <2>4 DEF ServerInv
<1>2. ServerInv /\ [ServerNext]_serverVars => ServerInv'
  BY ThreadsStep, ServerTreeStep, VersionsStep DEF ServerInv
<1> QED BY <1>1, <1>2, PTL DEF ServerSpec

(* A thread ticks no tree but the one of its goal, although all threads    *)
(* share p_->tree, and a goal succeeds only if that tree returned SUCCESS. *)
THEOREM OwnTreeTicked == ServerSpec => []OwnTree
<1>1. ServerInv => OwnTree
  BY DEF ServerInv, TreeMadeInv, OwnTree
<1> QED BY <1>1, ServerInvariant, PTL

(* Whatever the order of threads, executor and parameter changes: the      *)
(* server holds a tree of a goal whose action thread was started, and      *)
(* never more threads than goals were requested.                           *)
THEOREM ServerTypesHold == ServerSpec => []ServerTypeOK
<1>1. ServerInv => ServerTypeOK
  BY DEF ServerInv
<1> QED BY <1>1, ServerInvariant, PTL

(* A goal reported as canceled or succeeded leaves no RUNNING leaf.        *)
THEOREM AnsweredGoalsRest == ServerSpec => []AnsweredAtRest
<1>1. ServerInv => AnsweredAtRest
  BY DEF ServerInv, TreeMadeInv
<1> QED BY <1>1, ServerInvariant, PTL

(* Whenever the parameters change, a goal executes a tree made from        *)
(* parameters no older than those set when its thread started.             *)
THEOREM TreesAreNewest == ServerSpec => []NewestTrees
<1>1. ServerInv => NewestTrees
  BY DEF ServerInv, VersionsInv
<1> QED BY <1>1, ServerInvariant, PTL

-----------------------------------------------------------------------------
(* Every step of the server is a step of ActionServer or changes no goal.  *)

(* Two goals are active only if the executor waits for the first to end.   *)
LEMMA OneActive ==
  ASSUME ServerInv, NEW g \in TreeGoals, NEW h \in TreeGoals, goal[g] \in Active, goal[h] \in Active
  PROVE  g = h \/ (executor = "joining" /\ requested \in {g, h})
BY DEF ServerInv, ThreadsInv

LEMMA ServerDecideStep ==
  ASSUME ServerInv, HandleGoal
  PROVE  goal' = goal \/ \E g \in TreeGoals : Abstract!Decide(g)
<1>1. CASE UNCHANGED goal
  BY <1>1
<1>2. ASSUME NEW state \in {"rejected", "executing"}, GoalDecided(state)
      PROVE  \E g \in TreeGoals : Abstract!Decide(g)
  <2> USE <1>2, GoalsAssumption
      DEF ServerInv, ServerTypeOK, ThreadsInv, TreeGoals, HandleGoal, Spinning, GoalDecided
  <2>1. requested' \in TreeGoals /\ requested' = requested + 1
    OBVIOUS
  <2>2. goal[requested'] = "none" /\ \A h \in TreeGoals : h < requested' => goal[h] # "none"
    BY <2>1
  <2>3. \A h, i \in TreeGoals : goal[h] \in Active /\ goal[i] \in Active => h = i
    BY OneActive
  <2> QED BY <2>1, <2>2, <2>3 DEF Abstract!Decide, Abstract!Active, Active
<1> QED BY <1>1, <1>2, OutcomeOfHandle DEF HandleOutcome

LEMMA EndStep ==
  ASSUME ServerInv, NEW g \in TreeGoals, at[g] \in Running, NEW result \in Over,
         result = "canceled" => goal[g] = "canceling",
         goal' = [goal EXCEPT ![g] = result]
  PROVE  Abstract!End(g)
<1> USE GoalsAssumption DEF ServerInv, ServerTypeOK, ThreadsInv, TreeGoals
<1>1. goal[g] \in Active
  OBVIOUS
<1>2. ASSUME NEW h \in TreeGoals, h < g PROVE goal[h] \notin Active
  BY <1>1, <1>2, OneActive
<1> QED BY <1>1, <1>2 DEF Abstract!End, Abstract!Active, Abstract!Over, Active, Over

LEMMA ServerStepRefines ==
  ASSUME ServerInv, [ServerNext]_serverVars
  PROVE  [Abstract!Next]_goal
<1> SUFFICES goal' = goal
               \/ \E g \in TreeGoals : Abstract!Decide(g) \/ Abstract!Cancel(g) \/ Abstract!End(g)
  BY DEF Abstract!Next
<1>1. CASE HandleGoal
  BY <1>1, ServerDecideStep
<1>2. ASSUME NEW g \in TreeGoals, HandleCancel(g)
      PROVE  goal' = goal \/ Abstract!Cancel(g)
  <2>1. CASE goal[g] = "executing"
    BY <1>2, <2>1 DEF HandleCancel, Abstract!Cancel, Active
  <2>2. CASE goal[g] # "executing"
    BY <1>2, <2>2 DEF HandleCancel, Active, ServerInv, ServerTypeOK
  <2> QED BY <2>1, <2>2
<1>3. ASSUME NEW g \in TreeGoals,
             CreateTree(g) \/ StopCanceled(g) \/ TickTree(g) \/ AfterTick(g) \/ Finish(g)
      PROVE  goal' = goal \/ Abstract!End(g)
  <2>1. at[g] \in Running
    BY <1>3 DEF CreateTree, StopCanceled, TickTree, AfterTick, Finish, MayTick, InThread,
                Running, InLoop
  <2>2. \/ goal' = goal
        \/ \E result \in Over : /\ result = "canceled" => goal[g] = "canceling"
                               /\ goal' = [goal EXCEPT ![g] = result]
    BY <1>3 DEF CreateTree, StopCanceled, TickTree, AfterTick, Finish, AbortGoal, Over
  <2> QED BY <2>1, <2>2, EndStep
<1>4. CASE \/ Register \/ EndRegister \/ HandleAccepted \/ SetParameters \/ Shutdown \/ DestroyServer
           \/ UNCHANGED serverVars
           \/ \E g \in TreeGoals : AskCancel(g) \/ StartThread(g) \/ Reload(g) \/ ThreadRegistered(g)
  BY <1>4 DEF Register, EndRegister, HandleAccepted, SetParameters, Shutdown, DestroyServer, serverVars,
              goalVars, AskCancel, StartThread, Reload, ThreadRegistered
<1> QED BY <1>1, <1>2, <1>3, <1>4 DEF ServerNext, ExecutorStep, ThreadStep

(* The server keeps the promises of ActionServer: goals are decided and    *)
(* ended in order, each with one result, canceled only if that was asked.  *)
THEOREM ServerServesGoals == ServerSpec => ServesGoals
<1>1. ServerInit => Abstract!Init
  BY DEF ServerInit, Abstract!Init
<1>2. ServerInv /\ [ServerNext]_serverVars => [Abstract!Next]_goal
  BY ServerStepRefines
<1> QED BY <1>1, <1>2, ServerInvariant, PTL DEF ServerSpec, ServesGoals, Abstract!Spec

=============================================================================
