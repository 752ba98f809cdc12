CONSTANTS
    admin = admin
    bob = bob
    super = super
    custom = custom
    access = access
    other = other
    k1 = k1
    User = {admin, bob}
    Admin = admin
    RoleId = {super, custom}
    SuperRole = super
    NoRole = NoRole
    Module = {access, other}
    AccessModule = access
    Key = {k1}
    NoKey = NoKey
    Request <- MCLockoutRequests
    Handler = {h1, h2}
    Restarts = FALSE
SPECIFICATION Spec
INVARIANTS
    SuperAdminRemains
CHECK_DEADLOCK FALSE
