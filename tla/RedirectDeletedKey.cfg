CONSTANTS
    Instances = {i1}
    Requests = {r1}
    Never = 100
    Expiries = {100}
    L1Ttl = 1
    RequestTime = 0
    FillDelay = 0
    MaxTime = 2
SPECIFICATION Spec
INVARIANTS
    DeletedKeyStaysGone
CHECK_DEADLOCK FALSE
