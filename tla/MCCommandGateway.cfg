SPECIFICATION GSpec
CONSTANTS
  c1 = c1  c2 = c2  doc = doc
  Evidence = {doc}
  Loop = Loop
  Commands = {c1, c2}
  NoCommand = NoCommand
  Assessors = {a1}
  Reviews <- RiskyOrClean
  MaxInsights = 2  MaxOpps = 2  MaxPrds = 2  MaxSources = 3
  MaxFaults = 1
  Kinds = {"generate", "generate_prd", "prepare_delivery", "connect_feishu", "start_review"}
  EvidenceBy <- Connected
INVARIANTS DeliveredIsDecided ApprovedPassed PrdHasApprovedOpp
  CommandMakesOne
CONSTRAINT Mixes
CHECK_DEADLOCK FALSE
