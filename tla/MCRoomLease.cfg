CONSTANTS
  Pipes = {1, 2}
  Helps = {1, 3}
  Runs = {5}
  HelpTriggered = {}
  LegacyOwners = {1}
  Covers <- MCCovers
  WrittenRows <- MCWrittenRows
  LockSeconds = 1
  InitialTtl = 2
  MaxTotal = 3
  MaxTokens = 2
  Judged = {1, 2, 3}
  Failing = {2}
  MaxTalk = 5
  MaxWindow = 2
  MaxRounds = 2
  MinResponses = 2
SPECIFICATION PartSpec
INVARIANTS LeaseTypeOK OneHolder HardCap NoOrphanHelp
INVARIANTS ObservationTypeOK StartIsFirstResponse CreditedAfter WatchAtLatest
PROPERTIES ExpiredStaysExpired TransferByNumber LeaseEnds
ACTION_CONSTRAINTS Cast Talks
CHECK_DEADLOCK FALSE
