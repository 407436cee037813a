SPECIFICATION Spec
CONSTANTS
    SeqLimit = 3
    ChanCap = 1
    MaxRequests = 4
    RoutePaths <- MCRoutePaths
    RouteParams = {":x", ":y"}
    Words = {"a", "b", "app", "z", "help"}
    StartsWith <- MCStartsWith
    MaxRoutes = 4
    Instances = {i1, i2}
    Members = {m1, m2}
    Endpoints <- MCEndpoints
    MaxRev = 3
    Topics = {t1, t2}
    MaxConns = 2
    MaxMiddlewares = 2
INVARIANTS
    AnswerBelongs
    CompletionLag
    RoutesAnswer
    DestroyReleases
    OneAnswer
    AddressesFresh
PROPERTIES
    WaitEnds
    AddressesConverge
    LoopEnds
CHECK_DEADLOCK FALSE
