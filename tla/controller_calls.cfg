SPECIFICATION FairSpec
CHECK_DEADLOCK FALSE
CONSTANTS
  w1 = w1
  w2 = w2
  Windows <- OneWindow
  Cap = 2
  MaxCalls = 2
  MaxRequests = 3
INVARIANTS OpenCallCanEnd EndedIsClean
PROPERTIES CallReturns ControllerDisposeReturns
