\* Two grants replaced by one.
SPECIFICATION Spec
CONSTANTS
    r1 = r1
    r2 = r2
    r3 = r3
    d1 = d1
    d2 = d2
    ops = ops
    dev = dev
    Nil = Nil
    Roles = {ops}
    Wanted = {ops}
    Data = {d1, d2}
    Readers = {r1}
    ProcOf <- MCProcOf
    Grace = 1
    TTL = 2
    Lag = 1
    MaxTime = 1
    MaxReads = 1
    MaxWrites = 2
PROPERTIES MarkerMovesOnEveryChange
CHECK_DEADLOCK FALSE
