SPECIFICATION Spec
CONSTANTS
  MaxOutputBytes = 3
  ChunkSizes = {1, 2}
  MaxProduced = 5
CHECK_DEADLOCK FALSE
INVARIANT TruncationIsReported
INVARIANT NothingLeftBehind
PROPERTY NoKillAfterExit
PROPERTY RunEndsUnlessHeld
