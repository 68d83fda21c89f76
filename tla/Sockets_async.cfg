CONSTANTS
  ConnMax = 3
  BacklogMax = 1
  SendRoom = 2
  EventMax = 4
  GNUCSS_MAX_CLIENT = 2
  AsyncMax = 2
  Clients = {"alive", "once"}
  KeepAlive = {"alive"}
  RequestMax = 3
SPECIFICATION Spec
INVARIANTS
  NeverBlocks
  AsyncReachesAll
  AnswersAreToRequests
CHECK_DEADLOCK FALSE

  
