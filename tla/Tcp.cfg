SPECIFICATION FairSpec
CONSTANTS
    Conns = {c1, c2}
    Blacklistable = {c2}
    MaxConns = 1
    ReadTimeout = 1
    HeartbeatTimeout = 0
    ChanCap = 1
    Kinds = {"request", "garbled", "huge"}
    MaxMsgs = 2
INVARIANTS
    AdmissionBounded
    QuietAfterStop
    RepliesInOrder
CHECK_DEADLOCK FALSE
PROPERTIES
    StopReturns
