SPECIFICATION Spec
CONSTANTS
  Call = {c1, c2}
  Host = {h1}
  host <- SharedHost
  Finding = {f1}
  NeedsReview = {f1}
  MaxGoals = 2
  MaxPadded = 9999
  MaxTime = 1
  MaxScans = 2
  MaxEdits = 2
  MaxCompares = 2
  MaxReviews = 1
  MaxCrashes = 0
  NamesComparison = FALSE
SYMMETRY Symmetric
CHECK_DEADLOCK FALSE
INVARIANT TypeOK
INVARIANT CreationIsIdempotent
INVARIANT ValidatedHasRescan
PROPERTY GoalHistoryKept
