SPECIFICATION PoolFairSpec
CONSTANTS
    Borrowers = {p1, p2}
    Proxies = {p1, p2}
    Conns = {k1, k2}
    NoConn = NoConn
    MinConns = 1
    MaxConns = 1
PROPERTY
    WaiterReturns
