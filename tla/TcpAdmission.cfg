SPECIFICATION Spec
CONSTANTS
    Conns = {c1, c2}
    Blacklistable = {c2}
    MaxConns = 1
    ReadTimeout = 1
    HeartbeatTimeout = 0
    ChanCap = 1
    Kinds = {"request"}
    MaxMsgs = 0
PROPERTY
    RefusedOnlyWhenFull
CHECK_DEADLOCK FALSE
