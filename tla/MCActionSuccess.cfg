SPECIFICATION Spec
CONSTANTS
  MaxGoals = 2
  Clients = {TRUE}
  MayReject = FALSE
  MayTimeout = TRUE
  FeedbackVerdicts = {"RUNNING"}
  SharedClient = FALSE
INVARIANT SuccessMeansArrived
CHECK_DEADLOCK FALSE
