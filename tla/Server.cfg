SPECIFICATION FairSpec
CONSTANTS
    c1 = c1
    c2 = c2
    s1 = s1
    Connections = {c1, c2}
    Streams = {s1}
    NoRequest = NoRequest
    Wanted <- WantedBy
    Begins <- RouteWords
    Files <- SomeFiles
    Cores = {0, 1}
    MaxFaults = 1
    MaxRestarts = 1
INVARIANTS TypeOK RoutedAsDocumented
PROPERTIES StopCompletes RequestsAnswered
