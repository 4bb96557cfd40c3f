SPECIFICATION Spec
CONSTANTS
    v1 = v1
    v2 = v2
    t1 = t1
    t2 = t2
    Namespaces <- TwoNamespaces
    Keys <- OneKey
    Values = {v1}
    NoValue = NoValue
    Threads = {t1, t2}
    NoThread = NoThread
    DraftFlags = {TRUE}
    MaxLog = 2
    MaxReleases = 2
    MaxFaults = 1
SYMMETRY Symmetry
INVARIANTS ServedIsReleased ReleaseNumbers
