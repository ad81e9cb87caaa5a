\* Any two faults, and a flush by size as well as by timer.
CONSTANTS
    c1 = c1
    c2 = c2
    c3 = c3
    u1 = u1
    u2 = u2
    Clicks <- ClicksMC
    Codes <- CodesMC
    CodeOf <- CodeOfMC
    BatchSize = 2
    FaultKinds = {"dbError", "lateDbError", "crash", "disconnect", "brokerRestart"}
    MaxFaults = 2
SPECIFICATION FairSpec
INVARIANTS
    TypeOK
    NoClickLost
    ExactlyOnceWithoutFaults
    BatchMirrorsUnacked
PROPERTIES
    EventuallyCounted
CHECK_DEADLOCK FALSE
