CONSTANTS
    b4 = b4
    b6 = b6
    Boards <- MCBoards
    V6 <- MCV6
    Listens <- MCListens
    Pids <- MCPids
    Slots = {0}
    ProcIds = {0}
    CONNECTTCPSERVER_RETRY_NUMBER = 10
    MaxCalls = 1
    MaxToggles = 1
SPECIFICATION Spec
INVARIANTS
    RetriesUntilRoundsOver
CHECK_DEADLOCK FALSE
