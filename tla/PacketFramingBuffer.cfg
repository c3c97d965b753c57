CONSTANTS
    HeadLen = 8
    BufferLen = 11264
    MsgLens <- RealLens
    Cuts <- RealCuts
    MaxMsgs = 2
SPECIFICATION Spec
INVARIANT BufferIsNeverExceeded
CHECK_DEADLOCK FALSE
