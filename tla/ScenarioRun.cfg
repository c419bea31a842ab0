SPECIFICATION Spec
CONSTANTS
  Total = 3
  Costs = {2}
  MaxCostUsd = 4
  Unknown = Unknown
CHECK_DEADLOCK FALSE
INVARIANT CeilingIsForAll
INVARIANT StoredResultHasRuns
INVARIANT OnlyTheTaskDivides
PROPERTY NoTargetAfterDeadline
PROPERTY ScenarioEndsUnlessHeld
