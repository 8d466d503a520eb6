SPECIFICATION GSpec
CONSTANTS
  c1 = c1  c2 = c2  doc = doc
  Evidence = {doc}
  Loop = Loop
  Commands = {c1, c2}
  NoCommand = NoCommand
  Assessors = {a1}
  Reviews <- AnyReview
  MaxInsights = 2  MaxOpps = 1  MaxPrds = 1  MaxSources = 2
  MaxFaults = 1
  Kinds = {}
  EvidenceBy <- Connected
INVARIANT ApprovedHasNoFindings
CHECK_DEADLOCK FALSE
