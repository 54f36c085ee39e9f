SPECIFICATION FairSpec
CONSTANTS
    Ids = {i1}
    Timeout = 3
    MaxListed = 3
    KeepBeating = TRUE
    Admin = TRUE
    AutoIds = {a1, a2}
    ManualIds = {m1}
    NoId = NoId
    EventCap = 2
    MaxProcs = 3
CHECK_DEADLOCK FALSE
INVARIANTS
    EveryServerTimed
    EveryServerOffered
    OneProcess
    RunningFound
PROPERTIES
    DeadForgotten
    CrashAnswered
