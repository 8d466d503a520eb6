SPECIFICATION FairSpec
CONSTANTS
    Runs = {r1, r2}
    Clients = {k1, k2}
    NoRun = norun
    MaxProgress = 1
    MaxCrashes = 1
    MaxFaults = 1
INVARIANTS
    StreamAgreesWithRecord
    CompletedIsFinal
PROPERTIES
    StreamEnds
    RunSettles
CHECK_DEADLOCK FALSE
