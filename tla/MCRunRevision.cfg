SPECIFICATION Spec
CONSTANTS
  Callers = {c1, c2}
  Patches <- TwoPatches
  FirstBlocks <- TwoBlocks
  Missing = Missing  Torn = Torn  Failed = Failed
  Order <- QuestionsAsked
  Findings = {"f"}
  Lists <- BothAbout
  Answers = {"long", "short"}  LongAnswers = {"long"}
  Submissions <- SentAnswers  Demands <- Mixes
  MaxVersions = 6  MaxCalls = 5  MaxFaults = 1  MaxCrashes = 1
INVARIANTS PointersResolve AnswersKept AloneAgrees
SYMMETRY Swap
CHECK_DEADLOCK FALSE
