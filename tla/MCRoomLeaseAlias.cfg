CONSTANTS
  Pipes = {1, 2}
  Helps = {1}
  Runs = {}
  HelpTriggered = {}
  LegacyOwners = {}
  Covers <- MCCovers
  WrittenRows <- MCWrittenRows
  LockSeconds = 2
  InitialTtl = 2
  MaxTotal = 3
  MaxTokens = 3
SPECIFICATION LeaseSpec
PROPERTIES TransferOnlyLegacyLease
CHECK_DEADLOCK FALSE
