SPECIFICATION FairSpec
CONSTANTS
    Commands = {c1, c2}
    Kinds = {"start_review", "prepare_delivery"}
    Users = {u1, u2}
    NoUser = nouser
    Handlers = {h1, h2}
    NoHandler = nohandler
    NoCommand = nocommand
    MaxRuns = 2
    MaxCrashes = 1
INVARIANTS
    NoEffectWithoutApproval
    SingleFlight
PROPERTIES
    NoRunAfterSuccess
    ApprovedIsSettled
    ImplementsLifecycle
CHECK_DEADLOCK FALSE
