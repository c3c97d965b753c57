SPECIFICATION Spec
CONSTANTS
    sctf = sctf
    hbpod = hbpod
    sctfBlank = sctfBlank
    Names = {sctf, hbpod, sctfBlank}
    IPs = {ip1, ip2}
    Pids <- MCPids
    Trim <- MCTrim
    None = None
    MaxKeywords = 4
CHECK_DEADLOCK FALSE
INVARIANTS FailedConnectIsNotConnected
