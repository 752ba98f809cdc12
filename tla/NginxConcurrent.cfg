CONSTANTS
    Handler = {h1, h2}
    RouteBody <- MCClashRoutes
    Cert = {c1}
    c1 = c1
    d1 = d1
    NoCert = NoCert
    Absent = Absent
    Down = Down
    MaxSecond = 1
    ManualSeconds = {1}
    Faults = {"copy", "reload", "crash"}
    DistinctSeconds = FALSE
    HeldPort = {80}
SPECIFICATION ConcurrentSpec
VIEW DecidingBoth
SYMMETRY HandlerSymmetry
INVARIANTS
    SavedRoutesDoNotClash
CHECK_DEADLOCK FALSE
