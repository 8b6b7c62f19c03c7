SPECIFICATION Spec
CONSTANTS
    Threads = {t1, t2}
    MaxSessions = 2
    Devs = {d1}
    ProfileCounts = {1}
    Pipes = {0}
    ApiOps <- MCTableOps
    ExclOps <- MCDeviceOps
    MaxCalls = 3
CHECK_DEADLOCK FALSE
INVARIANT DeviceReadProtected
