SPECIFICATION FairSpec
CONSTANTS
  None = None
  Containers = {c1}
  Lives = {l1, l2}
  NumRuns = 1
  MaxAttempts = 1
  MaxCrashes = 1
  AutoResume = TRUE
  ListLimit = 2
  Scans = {TRUE}
  Faults = TRUE
  Deletions = FALSE
INVARIANTS
  LiveRowHasDriver
  AwaitingHasWakeup
PROPERTIES
  AwaitingIsServed
  ExitIsRecorded
  CancelEndsRun
CHECK_DEADLOCK FALSE
