CONSTANTS
  Workers = {v1}
  Callers = {c1}
  MaxMessages = 2
  MaxCandidate = 2
  MaxAttempts = 2
  MaxLost = 1
  MaxUnmarked = 0
  MaxReplays = 0
  CanClose = TRUE
SPECIFICATION BatchFairSpec
INVARIANTS Covered NoStranded
PROPERTY EveryMessageSettled
CONSTANT v1 = v1
CONSTANT c1 = c1
CHECK_DEADLOCK FALSE
