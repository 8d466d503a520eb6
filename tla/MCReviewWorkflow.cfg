SPECIFICATION FairSpec
CONSTANT MaxRevisions = 2
INVARIANTS
    BranchesJoined
    ReportIsOfOnePass
PROPERTIES
    GraphEnds
CHECK_DEADLOCK FALSE
