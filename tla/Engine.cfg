SPECIFICATION Spec
CONSTANTS
    n1 = n1
    n2 = n2
    t1 = t1
    t2 = t2
    Namespaces = {n1, n2}
    Threads = {t1, t2}
    NoThread = NoThread
    MaxVersion = 1
    MaxReleases = 3
    MaxApprovals = 1
    MaxGrayscales = 1
    MaxFailures = 1
SYMMETRY Symmetry
INVARIANTS TypeOK OneOwner PublishNumbers  
