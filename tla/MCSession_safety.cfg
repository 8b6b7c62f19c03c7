SPECIFICATION Spec
CONSTANTS
    Threads = {t1, t2, t3}
    MaxSessions = 3
    Devs = {d1}
    ProfileCounts = {1}
    Pipes = {0, 1}
    ApiOps <- MCAllApiOps
    ExclOps <- MCAllExclOps
    MaxCalls = 2
SYMMETRY MCSymmetry
CHECK_DEADLOCK FALSE
INVARIANTS
    TypeOK
    ExclusiveAccess
    SessionSerialized
    InFlightValid
    NothingBehindDestroyedLock
PROPERTY ObjectsChangeWhenQuiet
