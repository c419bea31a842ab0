SPECIFICATION Spec
CONSTANTS
  Spans = 4
  Effectful = {1, 3}
  Malformed = {2}
  Large = {3}
  BatchLimit = 2
  ExporterSpans = 3
  MaxSpansPerRun = 1
  MaxRequestSize = 2
  MaxRetries = 1
CHECK_DEADLOCK FALSE
INVARIANT CountedOnce
INVARIANT OnlyLimitsLose
INVARIANT TriedIsCleaned
PROPERTY SessionEndsUnlessHeld
PROPERTY TakesWhatIsHeld
