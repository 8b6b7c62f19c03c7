SPECIFICATION MCSpec
CONSTANTS
    DefKey = kdef
    NoData = NoData
    Delete = Delete
    NoEntry = NoEntry
    NoHandle = NoHandle
    Threads = {t1, t2}
    Keys = {k1, kdef}
    Data = {a}
    Handles = {h1, h2, h3}
    Entries = {e1, e2, e3}
    KeysOf <- MCSharedKeys
    StoreEntries = TRUE
    Failures <- MCAllFailures
CHECK_DEADLOCK FALSE
INVARIANTS
    HandlesConsistent
    ScheduledWorkOwned
