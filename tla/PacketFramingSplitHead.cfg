CONSTANTS
    HeadLen = 3
    BufferLen = 6
    MsgLens <- MCMsgLens
    Cuts <- AllCuts
    MaxMsgs = 2
SPECIFICATION Spec
INVARIANT NothingLeftBehind
CHECK_DEADLOCK FALSE
