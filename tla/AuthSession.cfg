\* The token life cycle: two concurrent requests, room for a login and a
\* rotation, a refresh token without a jti already issued, a denylist of two
\* entries, expiry, and one edit by an administrator or one restart.
SPECIFICATION Spec
CONSTANTS
    Jti = {1, 2, 3, 4, 5}
    Capacity = 2
    u1 = u1
    adm = adm
    ops = ops
    Users <- MCUsers
    Roles <- MCRoles
    Requests = {r1, r2}
    AccessTTL = 1
    RefreshTTL = 2
    LegacyTokens <- MCFirst
    Horizon = 2
    MaxEvents = 1
    MaxCalls = 3
    Nil = Nil
INVARIANTS TypeOK RotatedAtMostOnce LogoutIsFinal DenylistBounded MintFromCurrentRow
PROPERTIES ImplementsOneTimeToken
SYMMETRY Sym
CHECK_DEADLOCK FALSE
