SPECIFICATION Spec
CONSTANTS
  plain = plain
  faulty = faulty
  unscripted = unscripted
  Scenario = {plain, faulty}
  Unscripted = unscripted
  Declared <- MCDeclared
  SingleFault <- MCSingleFault
  RunKinds <- MCRunKinds
  Batches <- MCBatchesDisordered
  MinimumSamples = 2
  QuantileSamples = 2
  ResultsRead = 1
  ResultsListed = 2
  MaxScenarios = 2
  MaxRepetitions = 2
  MaxRecorded = 1
  MaxResults = 2
CHECK_DEADLOCK FALSE
INVARIANT OutOfOrderIsUndecided
