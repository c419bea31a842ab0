SPECIFICATION Spec
CONSTANTS
  MaxOutputBytes = 3
  ChunkSizes = {1, 2}
  MaxProduced = 5
CHECK_DEADLOCK FALSE
PROPERTY TargetCannotHoldRunOpen
