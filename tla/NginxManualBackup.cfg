CONSTANTS
    Handler = {h1}
    RouteBody <- MCCrashRoutes
    Cert = {c1}
    c1 = c1
    d1 = d1
    NoCert = NoCert
    Absent = Absent
    Down = Down
    MaxSecond = 2
    ManualSeconds = {1}
    Faults = {}
    DistinctSeconds = TRUE
    HeldPort = {80}
SPECIFICATION Spec
INVARIANTS
    ListedBackupsRollBack
CHECK_DEADLOCK FALSE
