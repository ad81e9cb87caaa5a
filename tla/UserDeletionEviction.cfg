\* The crash the redelivery is for, once.
CONSTANTS
    Users = {alice}
    Codes = {a1, a2}
    OwnerOf <- OwnerOfMC
    MaxRequests = 1
    FaultKinds = {"crash"}
    MaxFaults = 1
SPECIFICATION Spec
INVARIANTS
    AckedMeansEvicted
CHECK_DEADLOCK FALSE
