\* A refresh token without a jti, named in a Logout and exchanged afterwards.
SPECIFICATION Spec
CONSTANTS
    Jti = {1, 2, 3, 4, 5}
    Capacity = 2
    u1 = u1
    adm = adm
    ops = ops
    Users <- MCUsers
    Roles <- MCRoles
    Requests = {r1, r2}
    AccessTTL = 1
    RefreshTTL = 2
    LegacyTokens <- MCFirst
    Horizon = 1
    MaxEvents = 0
    MaxCalls = 3
    Nil = Nil
INVARIANTS LegacyTokensAreDead
SYMMETRY Sym
CHECK_DEADLOCK FALSE
