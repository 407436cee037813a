SPECIFICATION Spec
CONSTANTS
    Procs = {p1, p2}
    Registered <- MCRegistered
    Endpoints <- MCEndpoints
    TenantModel <- MCTenantModel
    Sections = {"section"}
    TenantMenu = "tenants"
    Permissions = {"GET /tenants", "schema"}
    Default = "default"
    Legacy = "legacy"
    MaxBoots = 3
    MaxEdits = 1
    Workers = {w1, w2}
    Names = {"adm", "usr", "new"}
    Admin = "adm"
    Member = "usr"
    RoleKeys = {"admin", "staff"}
    AdminKey = "admin"
    StaffKey = "staff"
    MaxUsers = 3
    MaxOps = 3
    Editors = {e1, e2}
    Tenants = {"t1", "t2"}
    Keys = {"k1", "k2"}
    Items = {i1, i2}
    SuperRole <- MCSuperRole
    MaxEditorOps = 3
    MenuNames = {"m1", "m2", "m3", "m4"}
    Chars = {"/", "a"}
    MaxPattern = 4
    MaxPath = 5
INVARIANTS
    BootConverges
    SuperCovers
    LoginUnambiguous
    RolesBacked
    GrantsBacked
    MenusPlaced
    ValidatorsAgree
    GateExact
PROPERTIES
    DeletedStaysDeleted
    TenantsApart
SYMMETRY Symmetry
CHECK_DEADLOCK FALSE
