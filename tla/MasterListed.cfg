SPECIFICATION MasterFairSpec
CONSTANTS
    Ids = {i1}
    Timeout = 3
    MaxListed = 2
    KeepBeating = TRUE
    Admin = FALSE
PROPERTY
    RunningListed
