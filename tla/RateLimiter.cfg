\* Burst 2 at two thirds of a token per tick; the janitor's period refills a
\* bucket, and the clock reaches its second sweep.
SPECIFICATION Spec
CONSTANTS
    ip = ip
    usr = usr
    Keys = {ip, usr}
    KeyLists <- MixedLists
    Requests = {r1, r2}
    Capacity = 2
    Unit = 3
    Refill = 2
    Idle = 3
    MaxTime = 6
INVARIANTS TypeOK BurstBound RetryAfterTight DroppedBucketsAreFull
PROPERTIES ImplementsIdealLimiter
SYMMETRY Sym
CHECK_DEADLOCK FALSE
