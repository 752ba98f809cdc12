CONSTANTS
    Handler = {h1}
    RouteBody <- MCSerialRoutes
    Cert = {c1}
    c1 = c1
    d1 = d1
    NoCert = NoCert
    Absent = Absent
    Down = Down
    MaxSecond = 2
    ManualSeconds = {}
    Faults = {"write", "test", "reload", "crash"}
    DistinctSeconds = TRUE
    HeldPort = {80}
    Caller = {r1, r2}
    Id = {i1, i2}
    Name = {n1, n2}
    Value = {v1, v2}
    Key = {"k1", "odd", "junk"}
    ReadBack <- MCReadBack
    None = None
    CertId = {"cert"}
    MaxVersion = 2
    TunnelUser = {"tun-a"}
    Host = {"a", "b"}
    Port = {1, 2, 3}
    Low = 2
    RandomLo = 3
    RandomHi = 4
    Top = 6
    MaxLength = 3
SPECIFICATION GatewaySpec
SYMMETRY Symmetry
PROPERTIES
    DeletedIsDisabled
CHECK_DEADLOCK FALSE
