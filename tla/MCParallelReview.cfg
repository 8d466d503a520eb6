SPECIFICATION ParallelSpec
CONSTANTS
    Documents <- MCDocuments
    MaxItems = 1
    MaxRevisions = 2
INVARIANTS
    FailuresShow
    UntestableNeverSlips
    HighIsReal
PROPERTY
    ReviewEnds
CHECK_DEADLOCK FALSE
