CONSTANTS
  Workers = {v1, v2}
  Callers = {c1}
  MaxMessages = 2
  MaxCandidate = 1
  MaxAttempts = 2
  MaxLost = 0
  MaxUnmarked = 1
  MaxReplays = 1
  CanClose = FALSE
SPECIFICATION BatchSpec
INVARIANTS BatchTypeOK OneWorker
PROPERTY CursorsForward
SYMMETRY BatchSymmetry
CONSTANT v1 = v1
CONSTANT v2 = v2
CONSTANT c1 = c1
