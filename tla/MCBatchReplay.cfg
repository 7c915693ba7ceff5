CONSTANTS
  Workers = {v1}
  Callers = {c1}
  MaxMessages = 3
  MaxCandidate = 1
  MaxAttempts = 1
  MaxLost = 0
  MaxUnmarked = 0
  MaxReplays = 1
  CanClose = FALSE
SPECIFICATION BatchFairSpec
PROPERTY ReplaySchedulesRest
CONSTANT v1 = v1
CONSTANT c1 = c1
