CONSTANTS
    n1 = n1
    n2 = n2
    a1 = a1
    a2 = a2
    s1 = s1
    s2 = s2
    Names <- MCNames
    Addrs <- OneAddr
    Echoing <- MCEchoing
    Socks <- OneSock
    Reuse = FALSE
    MaxCalls = 3
    MaxOutages = 1
SPECIFICATION FairSpec
PROPERTIES
    EveryCallReturns
    DataReceivedUnlessPhantom
CHECK_DEADLOCK FALSE
