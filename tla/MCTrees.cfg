SPECIFICATION ParentsSpec
CONSTANTS
  MaxGoals = 3
  Clients = {TRUE}
  MayReject = TRUE
  MayTimeout = FALSE
  FeedbackVerdicts = {"RUNNING"}
  SharedClient = FALSE
  WithInstruction = TRUE
INVARIANTS
  TypeOK
  SafeOnceAccepted
  OwnResult
  OneGoalPerProcess
  FinishedTree
PROPERTIES
  LeafSpec
  RunningEnds
  StartSendsGoal
  TreeEnds
CHECK_DEADLOCK FALSE
