CONSTANTS
    p1 = p1
    p2 = p2
    Procs <- MCProcs
    IdBits = 4
    MaxCalls = 2
    MaxOutages = 0
SPECIFICATION Spec
SYMMETRY Symmetry
INVARIANTS
    DownloadedIsTheFile
CHECK_DEADLOCK FALSE
