\* A rule slower than the janitor: a full refill takes longer than Idle.
SPECIFICATION Spec
CONSTANTS
    ip = ip
    usr = usr
    Keys = {ip}
    KeyLists <- OneKey
    Requests = {r1}
    Capacity = 2
    Unit = 4
    Refill = 1
    Idle = 3
    MaxTime = 9
INVARIANTS DroppedBucketsAreFull
CHECK_DEADLOCK FALSE
