SPECIFICATION PartsSpec
CONSTANTS
    Clients <- FourClients
    Names <- FiveNames
    Percentages <- Boundaries
    hash <- Hashes
    r1 = r1
    Readers = {r1}
    PageSize = 2
    MaxReleases = 6
    MaxTime = 3
    Logged <- ThreeLogged
    Queries <- SixQueries
    MaxDelay = 1
    MaxChanges = 4
    MaxSeconds = 3
    a1 = a1
    a2 = a2
    k1 = k1
    k2 = k2
    c1 = c1
    c2 = c2
    c3 = c3
    Apps = {a1, a2}
    Keys = {k1, k2}
    Processes = {c1, c2, c3}
    NoApp = NoApp
    Shipped <- BothShipped
    Mistyped = {a1}
    MaxCrashes = 1
    Usernames = {u1}
    Passwords = {p1, p2}
    Secrets = {s1, s2}
    Roles = {"admin", "operator", "viewer"}
    NoAccount = NoAccount
    NoToken = NoToken
    TicksPerSecond = 2
    ExpirySeconds = 2
    MaxClock = 7
SYMMETRY Symmetry
INVARIANTS PartsTypeOK    FilesKept FirstRegistrationStays TokenServes
PROPERTIES WideningKeepsClients CacheKept
