SPECIFICATION TpfSpec
CONSTANTS
    MaxCalls = 3
    MaxFaults = 1
CHECK_DEADLOCK FALSE
INVARIANT CommandGoesToTheLastBegun
