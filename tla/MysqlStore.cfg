SPECIFICATION Spec
CONSTANTS
    v1 = v1
    v2 = v2
    t1 = t1
    t2 = t2
    t3 = t3
    Namespaces <- OneNamespace
    Keys <- OneKey
    Values = {v1, v2}
    NoValue = NoValue
    Threads = {t1, t2, t3}
    PoolSize = 2
    MaxLog = 2
    MaxReleases = 1
    MaxFaults = 1
SYMMETRY Symmetry
INVARIANTS HeadInHistory ServedIsCommitted ReleasesNumbered
