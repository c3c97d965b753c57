CONSTANTS
    p1 = p1
    p2 = p2
    Procs <- MCProcs
    IdBits = 2
    MaxCalls = 3
    MaxOutages = 0
SPECIFICATION Spec
SYMMETRY Symmetry
INVARIANTS
    SuccessAlwaysOnOwnAnswer
CHECK_DEADLOCK FALSE
