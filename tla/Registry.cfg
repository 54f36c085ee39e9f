SPECIFICATION RegistryFairSpec
CONSTANTS
    RegIds = {i1, i2}
    ServerTypes = {t1, t2}
    RegCallers = {c1, c2}
    NoCaller = NoCaller
CHECK_DEADLOCK FALSE
PROPERTY
    RegisterReturns
