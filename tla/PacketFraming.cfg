CONSTANTS
    HeadLen = 3
    BufferLen = 6
    MsgLens <- MCMsgLens
    Cuts <- AllCuts
    MaxMsgs = 3
SPECIFICATION Spec
INVARIANTS
    NothingLeftBehindWhole
    BufferIsEnough
PROPERTY
    ImplementsStream
CHECK_DEADLOCK FALSE
