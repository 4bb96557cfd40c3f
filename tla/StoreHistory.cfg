SPECIFICATION FairSpec
CONSTANTS
    v1 = v1
    v2 = v2
    t1 = t1
    t2 = t2
    Namespaces <- OneNamespace
    Keys <- OneKey
    Values = {v1, v2}
    NoValue = NoValue
    Threads = {t1, t2}
    NoThread = NoThread
    DraftFlags = {TRUE, FALSE}
    MaxLog = 4
    MaxReleases = 2
    MaxFaults = 0
INVARIANTS HeadRecorded  AuditMatchesHistory
PROPERTIES RollbackRestores AtomicSpec EveryRequestReturns
