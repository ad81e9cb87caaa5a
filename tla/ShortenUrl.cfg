CONSTANTS
    Keys = {k1, k2}
    Requests = {r1, r2}
    MaxId = 2
SPECIFICATION UrlSpec
INVARIANT UrlTypeOK
PROPERTY ImplementsLiveStore
CHECK_DEADLOCK FALSE
