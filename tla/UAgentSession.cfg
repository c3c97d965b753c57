SPECIFICATION Spec
CONSTANTS
    sctf = sctf
    hbpod = hbpod
    sctfBlank = sctfBlank
    Names = {sctf, hbpod, sctfBlank}
    IPs = {ip1, ip2}
    Pids <- MCPids
    Trim <- MCTrim
    None = None
    MaxKeywords = 5
CHECK_DEADLOCK FALSE
INVARIANTS TidySuitesAreNotRefused CommandGoesToItsSession
PROPERTIES EndedSessionIsReleased
