SPECIFICATION FairSpec
CONSTANTS
  None = None
  Kinds = {"epoch", "human", "lenient", "plain"}
  Names = {n1}
  Warmup = 2
  Idle = 2
  BufLen = 2
  TailLen = 1
  Minute = 1
  FiveMinutes = 2
  Day = 3
  MaxAttempts = 1
  MaxLives = 2
  MaxCrashes = 1
  MaxMoves = 2
  Toggles = TRUE
  MaxLines = 2
  MaxRestarts = 2
  MaxRows = 2
INVARIANTS
  RowFollowsFiles
PROPERTIES
  LifeCounted
  NeverInterruptsWork
  NudgedRunSuspends
  StuckEnds
CHECK_DEADLOCK FALSE
