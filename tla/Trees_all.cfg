CONSTANTS
  NodeMax = 4
  Names = {0, 1, 2, 3}
  Ids = {0, 3}
  IdMax = 5
  Settings <- MCSettings
  NodeAmount = 4
  NodeNames = {1, 2, 3}
  TreeSettings = {TRUE, FALSE}
  TagNames = {"a", "b"}
  LengthMax = 6
  PrintsMax = 2
SPECIFICATION MCSpec
INVARIANTS
  WalksVisitAll
  FoundByKey
  LevelsHoldNodes
  ElementsSurvive
CHECK_DEADLOCK FALSE
