CONSTANTS
  udp = udp
  Flows <- MCFlows
  Suites <- MCSuites
  Calls = 2
  Pieces = 2
  Hold = 2
SPECIFICATION Spec
INVARIANT FalseIsTheBoards
CHECK_DEADLOCK FALSE
