SPECIFICATION FairSpec
CONSTANTS
  p = p  q = q  e = e
  Pages = {p, q}  AllPages = AllPages
  Events = {e}  Manual = Manual
  Touches <- Push
  Scopes = {AllPages}
  Configs <- Both
  Stamps = TRUE
  BatchSize = 2
  MaxAttempts = 2
  MaxEdits = 2  MaxRequests = 1  MaxFaults = 1
INVARIANTS EventsNotLost CompletedCarriesTheEdit
PROPERTIES EventSettles
CHECK_DEADLOCK FALSE
