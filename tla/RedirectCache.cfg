CONSTANTS
    Instances = {i1, i2}
    Requests = {r1, r2}
    Never = 100
    Expiries = {2, 100}
    L1Ttl = 2
    RequestTime = 1
    FillDelay = 1
    MaxTime = 7
SPECIFICATION Spec
SYMMETRY Symmetry
INVARIANTS
    TypeOK
    SingleFlight
    RedisOutlivesRowBriefly
PROPERTIES
    ExpiredStopsRedirecting
    DeletedStopsRedirecting
    NotFoundIsTrue
CHECK_DEADLOCK FALSE
