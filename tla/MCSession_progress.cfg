SPECIFICATION FairSpec
CONSTANTS
    Threads = {t1, t2}
    MaxSessions = 3
    Devs = {d1}
    ProfileCounts = {1, 2}
    Pipes = {0, 1}
    ApiOps <- MCBalancedApiOps
    ExclOps <- MCRunningOps
    MaxCalls = 3
CHECK_DEADLOCK FALSE
INVARIANTS
    ReturnedHoldsNoLock
PROPERTY CallsReturn
