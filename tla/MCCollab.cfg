CONSTANTS
  Pages = {p1, p2}
  MaxEdits = 1
  MaxRooms = 3
  MaxFaults = 1
  Scenarios <- AllScenarios
  MaxRequests = 2
  MaxFreezes = 1
  MaxReturns = 1
CONSTANT p1 = p1
CONSTANT p2 = p2
SPECIFICATION SubSpec
SYMMETRY PageSymmetry
INVARIANTS CollabTypeOK CleanMeansSaved SubmittedHasRecord
PROPERTY StoreKept
CHECK_DEADLOCK FALSE
