CONSTANTS
  Processes = {"p1", "p2", "p3"}
  FileMax = 3
  StartMax = 5
SPECIFICATION PidSpec
INVARIANTS
  OneDaemon
CHECK_DEADLOCK FALSE
