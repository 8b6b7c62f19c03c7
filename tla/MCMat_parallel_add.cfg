SPECIFICATION Spec
CONSTANTS
    t1 = t1
    t2 = t2
    k1 = k1
    k2 = k2
    DefKey = kdef
    NoData = NoData
    Delete = Delete
    NoEntry = NoEntry
    NoHandle = NoHandle
    Threads = {t1, t2}
    Keys = {k1, kdef}
    Data = {a}
    Handles = {h1, h2}
    Entries = {e1, e2}
    KeysOf <- MCSharedKeys
    StoreEntries = TRUE
    Failures <- MCNoFailures
CHECK_DEADLOCK FALSE
INVARIANT UniqueKeys
