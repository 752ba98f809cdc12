CONSTANTS
    admin = admin
    bob = bob
    super = super
    custom = custom
    access = access
    other = other
    k1 = k1
    User = {admin, bob}
    Admin = admin
    RoleId = {super, custom}
    SuperRole = super
    NoRole = NoRole
    Module = {access, other}
    AccessModule = access
    Key = {k1}
    NoKey = NoKey
    Request <- MCRequests
    Handler = {h1}
    Restarts = TRUE
    c1 = c1
    c2 = c2
    c3 = c3
    d1 = d1
    d2 = d2
    a1 = a1
    a2 = a2
    p1 = p1
    p2 = p2
    v = v
    mask = mask
    None = None
    Viewer = {c1, c2, c3}
    MaxFrame = 3
    Session = {"session"}
    PeerKey = {"peer"}
    MaxTime = 2
    Retention = 1
    FileRoot <- Mount
    FileTree <- MCTree
    FileOperation <- MCOperation
    FileText = {"", "zip", "lnxadmin-up", "m", "mnt", "a", "etc", "f", "in", "out"}
    MaxCopies = 2
    MaxDepth = 3
    OsUser = {"root", "daemon", "eve"}
    OsGroup = {"adm", "root"}
    OsShell = {"bash", "nologin"}
    OsText <- MCText
    OsAsked <- MCAsked
    MaxStray = 1
    JailParams = 2
    JailValue = {"1h"}
    JailAddr = {"shipped", "ours", "localhost"}
    JailCidr = {"shipped", "ours"}
    JailShipped <- MCShipped
    SettingValue = {v}
    SettingSecret = {p1}
    SaveRequest <- MCSaveRequest
    Client = {c1, c2}
    Database = {d1, d2}
    AdminName = {a1, a2}
    Password = {p1, p2}
    SetupRequest <- MCTwoWizards
    Prepared <- MCPrepared
SYMMETRY Symmetry
SPECIFICATION PanelSpec
PROPERTIES
    OkMeansSignIn
CHECK_DEADLOCK FALSE
