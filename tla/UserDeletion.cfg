\* One user with one code, two DELETE requests, any four faults.
CONSTANTS
    Users = {alice}
    Codes = {a1}
    OwnerOf <- OwnerOfMC
    MaxRequests = 2
    FaultKinds = {"publishError", "dbError", "lateDbError", "redisError", "crash", "disconnect", "brokerRestart"}
    MaxFaults = 4
SPECIFICATION FairSpec
INVARIANTS
    TypeOK
    EventNotLost
    RetriesAreEarned
    NoDuplicateEvents
PROPERTIES
    EventuallyResolved
    CascadeEvicts
CHECK_DEADLOCK FALSE
