CONSTANTS
  Pipes = {1}
  Helps = {2}
  Runs = {}
  HelpTriggered = {}
  LegacyOwners = {}
  Covers = {}
  WrittenRows <- AllRows
  LockSeconds = 1
  InitialTtl = 1
  MaxTotal = 2
  MaxTokens = 4
  MaxAttempts = 1
  MaxPosts = 1
  CanCrash = {}
SPECIFICATION PipelineSpec
PROPERTIES PreemptedNeverPublished
CHECK_DEADLOCK FALSE
