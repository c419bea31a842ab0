SPECIFICATION MCSpec
CONSTANT AttemptedEffects <- MCEffects
CONSTANT MaxAttempts = 3
CONSTANT RunKinds <- MCRunKinds
CONSTANT Scans <- MCScans
CONSTANT ScansWithRuns <- MCScansWithRuns
CONSTANT MinimumSamples = 2
CONSTANT QuantileSamples = 3
CONSTANT MaxRuns = 3
CHECK_DEADLOCK FALSE
INVARIANT NeverOvercounts
INVARIANT CompleteAccountIsExact
INVARIANT VerdictIsOriented
 
INVARIANT ObservedOnce
INVARIANT RelationsAddUp
INVARIANT ArrivalOrderIsIrrelevant
INVARIANT WatchedTwiceReadOnce
INVARIANT ClaimsSurviveMerging
INVARIANT JudgedByItsOwnSource
