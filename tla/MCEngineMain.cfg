SPECIFICATION EngineFairSpec
CONSTANTS
  MaxGoals = 2
  Clients = {FALSE}
  MayReject = TRUE
  MayTimeout = FALSE
  FeedbackVerdicts = {"RUNNING"}
  SharedClient = FALSE
  WithInstruction = FALSE
PROPERTY StartSendsGoal
CHECK_DEADLOCK FALSE
