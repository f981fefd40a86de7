SPECIFICATION LeavesSpec
CONSTANTS
  MaxGoals = 2
  Clients = {TRUE, FALSE}
  MayReject = TRUE
  MayTimeout = TRUE
  FeedbackVerdicts = {"RUNNING", "FAILURE"}
  SharedClient = TRUE
  Service = {s1, s2}
  NoService = NoService
  MaxRequests = 3
  SharedService = TRUE
  l1 = l1
  l2 = l2
  l3 = l3
  Reader = {l1, l2, l3}
  Ports <- MCPorts
  OnBoard = {l3}
  Latching = {l3}
  Topic = {t1, t2}
  NoTopic = NoTopic
  NoReader = NoReader
  MaxMessages = 3
  MaxChanges = 4
  MaxTreeGoals = 2
  MaxParamChanges = 1
INVARIANTS
  LeavesTypeOK
  SomeGoalSucceeded
  HandsEachOnce
  OwnTree
  AnsweredAtRest
  NewestTrees
PROPERTIES
  HaltReturns
  AnswersOwnRequest
  CallEnds
  ServesGoals
  CancelEnds
  GoalsEnd
CHECK_DEADLOCK FALSE
