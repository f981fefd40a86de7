SPECIFICATION ServerFairSpec
CONSTANTS
  MaxTreeGoals = 2
  MaxParamChanges = 0
PROPERTY CancelHandled
CHECK_DEADLOCK FALSE
