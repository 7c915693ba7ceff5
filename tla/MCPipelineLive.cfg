CONSTANTS
  Pipes = {1}
  Helps = {1}
  Runs = {}
  HelpTriggered = {}
  LegacyOwners = {}
  Covers = {}
  WrittenRows <- BatchRows
  LockSeconds = 1
  InitialTtl = 2
  MaxTotal = 3
  MaxTokens = 4
  MaxAttempts = 2
  MaxPosts = 0
  CanCrash = {}
SPECIFICATION FairPipelineSpec
PROPERTIES LeaseSpec PipelineEnds
ACTION_CONSTRAINT Calm
CHECK_DEADLOCK FALSE
