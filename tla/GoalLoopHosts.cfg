SPECIFICATION Spec
CONSTANTS
  Call = {c1, c2}
  Host = {c1, c2}
  host <- OwnHost
  Finding = {f1}
  NeedsReview = {f1}
  MaxGoals = 1
  MaxPadded = 9999
  MaxTime = 1
  MaxScans = 2
  MaxEdits = 1
  MaxCompares = 0
  MaxReviews = 1
  MaxCrashes = 1
  NamesComparison = TRUE
SYMMETRY Symmetric
CHECK_DEADLOCK FALSE
INVARIANT BaselineReportsFinding
INVARIANT AttestedWhenRequired
