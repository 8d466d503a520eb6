SPECIFICATION Spec
CONSTANTS
    NotificationIds = {n1, n2}
    MaxRecords = 4
    Packs = {"execution_pack", "test_pack"}
    Prompts = {"codex_prompt"}
    MaxGenerations = 2
    Jobs = {j1, j2}
    MaxAttempts = 2
    MaxRestarts = 2
    MemoryProcesses = {p1, p2}
    Reviews = {v1, v2}
    Seeds = {seed}
    MaxKills = 1
    Learners = {r1, r2, r3}
    Submissions <- MCSubmissions
    Results <- MCResults
    Modes = {"assist", "strict", "off"}
    MaxKept = 2
INVARIANTS
    LossIsRetriable
    OkIsWhole
    ReuseIsUnaffected
    JobsRunOnce
    AloneKeepsCases
    OneMemoryOfAKind
    RecallHasGround
CHECK_DEADLOCK FALSE
