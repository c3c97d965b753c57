CONSTANTS
    b4 = b4
    b6 = b6
    Boards <- MCBoards
    V6 <- MCV6
    Listens <- MCListens
    Pids <- MCPids
    Slots = {0, 1}
    ProcIds = {0}
    CONNECTTCPSERVER_RETRY_NUMBER = 3
    MaxCalls = 3
    MaxToggles = 1
SPECIFICATION Spec
INVARIANTS
    RefusedOnlyByOwnPort
    ConnectedFromItsPort
    PortFreeAfterClose
CHECK_DEADLOCK FALSE
