CONSTANTS
    p1 = p1
    p2 = p2
    Procs <- MCProcs
    Boards64 <- MCBoards64
    MaxCalls = 3
    MaxOutages = 1
SPECIFICATION Spec
INVARIANTS
    OwnAnswerWhileSettled
    EventHasEntryWhileSettled
PROPERTY ImplementsService
CHECK_DEADLOCK FALSE
