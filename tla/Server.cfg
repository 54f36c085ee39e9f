SPECIFICATION FairSpec
CONSTANTS
    Routes = {r1, r2}
    Callers = {c1, c2}
    EmptyRoute = r2
    NoEntry = NoEntry
    MaxHandlers = 2
    MaxMiddlewares = 2
    Sids = {s1, s2, s3}
    Uids = {u1, u2}
    NoUid = NoUid
    NoSid = NoSid
    Tasks = {t1, t2, t3}
    Listed = {t1, t2}
    Workers = {w1, w2}
    PendingCap = 2
    BatchSize = 2
    Sessions = {s1, s2, s3}
    Detached = {s3}
    Users = {u1, u2}
    MaxAdds = 4
    Comps = {k1, k2}
    Plugins = {p1}
    MaxStarts = 1
    Hooks <- MCHooks
    Cleanups = {f1, f2}
    Pushes = {t1, t2, t3}
    SchedWorkers = {w1, w2}
    QueueCap = 2
    Idle = Idle
    Urgent = {t1}
    CronIds = {1, 2, 3}
    Mine = {1, 2}
    Usable = {1, 2}
    MaxEntries = 4
    Takers = {g1, g2, g3}
    PoolMax = 2
    PoolMin = 1
    Slack = 0
    MaxWarm = 2
    PoolJobs = {j1, j2, j3}
    PoolWorkers = {w1, w2}
    JobCap = 1
    NoJob = NoJob
    Burst = 2
    TokenParts = 2
    RefillParts = 1
    MaxTicks = 2
    Acquirers = {g1, g2, g3}
    ConnLimit = 1
    LimitKeys = {q1, q2}
    Filters = {g1, g2}
    Gate = 2
    BucketMax = 1
    BucketKeep = 1
    MaxBuckets = 3
    MaxWrites = 4
    Savers = {g1, g2}
    ServerIds = {i1, i2}
    ServerTypes = {y1, y2}
    Editions = {e1, e2}
    NoServer = NoServer
    IdSpace = 3
    DictRoutes = {d1, d2, d3, d4}
    TableRoutes = {d1, d2}
    TableTypes = {y1, y2}
    LoadTypes <- MCLoadTypes
    Funcs <- MCFuncs
    Reloaders = {g1, g2}
    MaxReloads = 2
    Conns = {k1, k2, k3}
    Anonymous = {k3}
    Joiners = {s1, s2}
    MaxChans = 2
    Pushers = {g1}
CHECK_DEADLOCK FALSE
INVARIANTS
    CacheFresh
    LookupHonest
    SoleOwnerFound
    DeliveredOnce
    Settled
    TasksHandled
    CronControlled
    PoolAccounts
    RatesKept
    LoadsWhole
    TablesAgree
PROPERTIES
    AllReturn
    
    ChangesLoaded
