CONSTANTS
    p1 = p1
    p2 = p2
    Procs <- MCProcs
    IdBits = 2
    MaxCalls = 3
    MaxOutages = 1
SPECIFICATION Spec
SYMMETRY Symmetry
INVARIANTS
    SuccessOnOwnAnswer
    OwnFileWhileNoTimeout
    TempFileDeleted
CHECK_DEADLOCK FALSE
