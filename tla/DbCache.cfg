\* Two readers of one process and one of another on one cached role; a second
\* role makes renames, and an emptied table, repeat a marker.
SPECIFICATION Spec
CONSTANTS
    r1 = r1
    r2 = r2
    r3 = r3
    d1 = d1
    d2 = d2
    ops = ops
    dev = dev
    Nil = Nil
    Roles = {ops, dev}
    Wanted = {ops}
    Data = {d1}
    Readers = {r1, r2, r3}
    ProcOf <- MCProcOf
    Grace = 0
    TTL = 1
    Lag = 1
    MaxTime = 3
    MaxReads = 3
    MaxWrites = 2
INVARIANTS RevalidatedIsCurrent PropagatesAfterGrace TTLBoundsStaleness
SYMMETRY Sym
CHECK_DEADLOCK FALSE
