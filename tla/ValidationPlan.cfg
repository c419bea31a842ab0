SPECIFICATION Spec
CONSTANTS
  plain = plain
  faulty = faulty
  unscripted = unscripted
  Scenario = {plain, faulty}
  Unscripted = unscripted
  Declared <- MCDeclared
  SingleFault <- MCSingleFault
  RunKinds <- MCRunKinds
  Batches <- MCBatches
  MinimumSamples = 2
  QuantileSamples = 2
  ResultsRead = 1
  ResultsListed = 2
  MaxScenarios = 2
  MaxRepetitions = 2
  MaxRecorded = 3
  MaxResults = 5
CHECK_DEADLOCK FALSE
CONSTRAINT OnPlan
INVARIANT PlanDecides
