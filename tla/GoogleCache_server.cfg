SPECIFICATION Spec
CONSTANTS
    t1 = t1
    t2 = t2
    m1 = m1
    m2 = m2
    m3 = m3
    x = x
    Threads <- TwoThreads
    Midashi <- ThreeMidashi
    Candidates <- OneList
    CacheEntries = {1, 2}
    ExpireSeconds = 2
    StartTime = 2
    MaxTime = 4
    TimeModulus = 64
    IoErrors = TRUE
    Crashes = TRUE
    Broken = Broken
    Nothing = Nothing
SYMMETRY CacheSymmetry
INVARIANTS
    SerializedCallsNeverPanic
    WithinLimit
    WrittenIsKept
    NothingExpired
    FileFollowsMap
PROPERTIES
    PoisonStopsTheCache
    EvictsExpiredOrOldest
