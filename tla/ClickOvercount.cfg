\* Only the failure the retry is written for: one UPDATE that has no effect.
CONSTANTS
    c1 = c1
    c2 = c2
    c3 = c3
    u1 = u1
    u2 = u2
    Clicks <- ClicksMC
    Codes <- CodesMC
    CodeOf <- CodeOfMC
    BatchSize = 2
    FaultKinds = {"dbError"}
    MaxFaults = 1
SPECIFICATION Spec
INVARIANTS
    ClickCountedOnce
CHECK_DEADLOCK FALSE
