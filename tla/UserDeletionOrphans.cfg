\* No fault at all.
CONSTANTS
    Users = {alice}
    Codes = {a1, a2}
    OwnerOf <- OwnerOfMC
    MaxRequests = 1
    FaultKinds = {}
    MaxFaults = 1
SPECIFICATION Spec
INVARIANTS
    NoOrphans
CHECK_DEADLOCK FALSE
