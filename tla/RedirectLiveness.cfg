CONSTANTS
    Instances = {i1}
    Requests = {r1, r2, r3}
    Never = 100
    Expiries = {1}
    L1Ttl = 1
    RequestTime = 1
    FillDelay = 0
    MaxTime = 2
SPECIFICATION FairSpec
PROPERTIES
    RequestsAnswered
CHECK_DEADLOCK FALSE
