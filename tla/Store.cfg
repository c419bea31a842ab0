SPECIFICATION Spec
CONSTANTS
  Process = {p1, p2}
  Run = {r1, r2}
  Digest = {d1, d2, d3}
  Effectful = {d1}
  Repeating = {d3}
  Latest = 2
  MaxSaves = 2
  Nothing = Nothing
CHECK_DEADLOCK FALSE
INVARIANT SchemaIsWhole
INVARIANT ReferencedIsWhole
INVARIANT FailedSaveLeavesNothing
PROPERTY NewerIsUntouched
PROPERTY CallsEnd
