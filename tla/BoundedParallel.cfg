SPECIFICATION BatchSpec
CONSTANTS
  TimeoutMs = 1
  MaxTime = 2
  Items = 4
  Concurrency = 3
CHECK_DEADLOCK FALSE
INVARIANT NoItemTwiceOrLost
PROPERTY KeepsPoolPromise
PROPERTY Answered
