SPECIFICATION Spec
CONSTANTS
  MaxGoals = 2
  Clients = {TRUE}
  MayReject = FALSE
  MayTimeout = FALSE
  FeedbackVerdicts = {"RUNNING"}
  SharedClient = FALSE
INVARIANT CancelsCurrentGoal
CHECK_DEADLOCK FALSE
