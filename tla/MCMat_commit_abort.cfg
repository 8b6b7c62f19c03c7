SPECIFICATION Spec
CONSTANTS
    t1 = t1
    t2 = t2
    k1 = k1
    k2 = k2
    DefKey = kdef
    NoData = NoData
    Delete = Delete
    NoEntry = NoEntry
    NoHandle = NoHandle
    Threads = {t1, t2}
    Keys = {k1, k2, kdef}
    Data = {a}
    Handles = {h1, h2, h3}
    Entries = {e1, e2, e3}
    KeysOf <- MCOwnKeys
    StoreEntries = TRUE
    Failures <- MCCommitFailures
CHECK_DEADLOCK FALSE
INVARIANT SwMatchesHw
