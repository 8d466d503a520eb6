SPECIFICATION Spec
CONSTANTS
  Procs = {p1, p2}
  Modes = {"agent_auto", "human_only"}
  Selections = {"all", "codex"}
  HighRisk = TRUE
  Nothing = Nothing
  MaxCalls = 4
  MaxCrashes = 1
INVARIANTS HandoffOfApproved NothingInvented AuditComplete
PROPERTY AloneTells
SYMMETRY Swap
CHECK_DEADLOCK FALSE
