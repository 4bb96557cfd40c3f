SPECIFICATION MonitorsSpec
CONSTANTS
    c1 = c1
    c2 = c2
    n1 = n1
    n2 = n2
    cb1 = cb1
    Namespaces = {n1, n2}
    Clients = {c1, c2}
    Callbacks = {cb1}
    MaxReleaseId = 2
    t1 = t1
    t2 = t2
    t3 = t3
    t4 = t4
    Callers = {t1, t2, t3, t4}
    PoolSize = 2
    MaxCalls = 2
INVARIANTS  NoLostWakeup CallbacksHearAll  ConnectionsApart SleepersServed
PROPERTIES EveryWaitReturns EveryCallReturns
