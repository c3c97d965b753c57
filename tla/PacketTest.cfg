CONSTANTS
  udp = udp
  Flows <- MCFlows
  Suites <- MCSuites
  Calls = 2
  Pieces = 2
  Hold = 2
SPECIFICATION FairSpec
INVARIANTS TrueMeansForwarded FalseHasACause
PROPERTY EveryRoundEnds
CHECK_DEADLOCK FALSE
