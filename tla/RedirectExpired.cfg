CONSTANTS
    Instances = {i1}
    Requests = {r1}
    Never = 100
    Expiries = {2}
    L1Ttl = 3
    RequestTime = 0
    FillDelay = 0
    MaxTime = 5
SPECIFICATION Spec
PROPERTIES
    ExpiredIsGone
CHECK_DEADLOCK FALSE
