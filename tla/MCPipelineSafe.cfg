CONSTANTS
  Pipes = {1, 2}
  Helps = {3}
  Runs = {}
  HelpTriggered = {}
  LegacyOwners = {}
  Covers = {}
  WrittenRows <- BatchRows
  LockSeconds = 1
  InitialTtl = 1
  MaxTotal = 2
  MaxTokens = 4
  MaxAttempts = 2
  MaxPosts = 2
  CanCrash = {1}
SPECIFICATION PipelineSpec
INVARIANTS PipelineTypeOK FreshAnswer StudentsAnswer NoForgottenLease SaidIsRecorded
PROPERTIES PreemptionHolds
ACTION_CONSTRAINT Cast
CHECK_DEADLOCK FALSE
