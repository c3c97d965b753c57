CONSTANTS
    n1 = n1
    n2 = n2
    a1 = a1
    a2 = a2
    s1 = s1
    s2 = s2
    Names <- MCNames
    Addrs <- MCAddrs
    Echoing <- MCEchoing
    Socks <- MCSocks
    Reuse = TRUE
    MaxCalls = 3
    MaxOutages = 1
SPECIFICATION Spec
INVARIANT
    RecvNeverBlocks
CHECK_DEADLOCK FALSE
