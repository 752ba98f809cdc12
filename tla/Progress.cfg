CONSTANTS
    Key = {k1, k2}
    Handler = {h1, h2}
    MaxAttempts = 3
    Window = 2
    Lockout = 4
    Job = {j1, j2}
    MaxFinished = 1
    MaxServers = 1
    HistorySize = 1
    Run = {r1, r2}
    Confirmer = {c1}
    MaxDomains = 2
    Nothing = Nothing
SPECIFICATION ProgressSpec
INVARIANTS
    WindowBounded
PROPERTIES
    LockoutEnds
    TestsEnd
    StopFreesSlot
    ConfirmedFirst
    ChallengeSettles
CHECK_DEADLOCK FALSE
