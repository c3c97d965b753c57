CONSTANTS
    p1 = p1
    p2 = p2
    Procs <- MCProcs
    Boards64 <- MCBoards64
    MaxCalls = 2
    MaxOutages = 1
SPECIFICATION Spec
INVARIANT NeverUnLogic
CHECK_DEADLOCK FALSE
