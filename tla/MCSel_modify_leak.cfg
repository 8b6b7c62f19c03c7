CONSTANTS
    t1 = t1
    t2 = t2
    m1 = m1
    m2 = m2
    h1 = h1
    h2 = h2
    g1 = g1
    g2 = g2
    Sessions = {t1}
    MemberIds = {m1, m2}
    Handles = {h1, h2}
    GroupIds = {id0, id1}
    GroupHandles = {g1, g2}
    ZeroId = id0
    MaxMbrs = 2
    MaxRefs = 4
    RefWrap = 16
    MayCall <- MCOneOwner
    Failures <- MCNoFailures
    NoMember = NoMember
    NoGroup = NoGroup
    NoHandle = NoHandle
    NoId = NoId
    NullMbrs = NullMbrs
    FreedEntry = FreedEntry
SPECIFICATION Spec
SYMMETRY MCSymmetry
INVARIANTS
    ReferencedByGroup
