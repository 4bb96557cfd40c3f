SPECIFICATION FairSpec
CONSTANTS
    t1 = t1
    t2 = t2
    Scopes <- TwoApps
    Public <- Shared
    Threads = {t1, t2}
    NoParent = NoParent
INVARIANTS OneWinner 
PROPERTIES LookupReturns
