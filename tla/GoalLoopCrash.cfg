SPECIFICATION Spec
CONSTANTS
  Call = {c1, c2}
  Host = {h1}
  host <- SharedHost
  Finding = {f1}
  NeedsReview = {}
  MaxGoals = 1
  MaxPadded = 9999
  MaxTime = 1
  MaxScans = 2
  MaxEdits = 2
  MaxCompares = 0
  MaxReviews = 0
  MaxCrashes = 1
  NamesComparison = FALSE
SYMMETRY Symmetric
CHECK_DEADLOCK FALSE
INVARIANT ValidatedHasRescan
