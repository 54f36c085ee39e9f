SPECIFICATION FairSpec
CONSTANTS
    WsConns = {c1, c2}
    WsTalkers = {c1}
    WsBlacklisted = {}
    WsMaxConns = 1
    WsReadTimeout = 1
    WsHeartbeatTimeout = 0
    WsChanCap = 1
    WsMaxMsgs = 2
    UdpAddrs = {a1, a2}
    NoAddr = NoAddr
    UdpMaxConns = 1
    UdpTimeout = 1
    UdpMaxOpens = 2
    Requests = {q1}
    Notice = Notice
    MaxDials = 2
    WriteCap = 1
    MaxAttempts = 2
INVARIANTS
    OnClosePaired
CHECK_DEADLOCK FALSE
PROPERTIES
    StopReturns
    RequestsReturn
