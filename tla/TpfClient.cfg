SPECIFICATION TpfFairSpec
CONSTANTS
    MaxCalls = 3
    MaxFaults = 1
CHECK_DEADLOCK FALSE
INVARIANTS CommandGoesToTheSession StopLeavesNothing NoUseAfterClose
PROPERTIES StopReturns
