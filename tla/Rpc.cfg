SPECIFICATION FairSpec
CONSTANTS
    Borrowers = {c1, c2, p1}
    Proxies = {p1}
    Conns = {k1, k2, k3}
    NoConn = NoConn
    MinConns = 1
    MaxConns = 2
    Calls = {1, 2}
    NilReply = {2}
    MaxErrors = 2
    Callers = {a, b}
    Nobody = Nobody
    MaxSeq = 4
    MaxTimeouts = 2
    MaxNotifies = 2
    BreakerCalls = {b1, b2, b3}
    MaxFailures = 2
    HalfOpenMax = 2
    BreakerTimeout = 2
    MaxCount = 5
    Peers = {e1, e2, e3}
    Slots = 1
    Forwards = {f1, f2, f3}
    NoForward = NoForward
    MaxCleanups = 1
    Askers = {g1, g2, g3}
    Servers = {"s1", "s2", "s3"}
    Choosers = {h1, h2}
    MaxLists = 3
    Replicas = 2
    Hashes = {1, 2, 3, 4, 5, 6, 7}
    HashOf <- MCHashOf
CHECK_DEADLOCK FALSE
INVARIANTS
    NoSharing
    NoLeakAfterClose
    CompletedOnce
    NoStaleEntry
    OnePool
    ChoosesRight
PROPERTIES
    ImplementsLease
    WaiterServed
    CallsReturn
    CleanReplies
    TripJustified
    Recovers
    RpcStopReturns
