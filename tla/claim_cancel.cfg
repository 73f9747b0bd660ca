SPECIFICATION FairSpec
CONSTANTS
  None = None
  Containers = {c1}
  Lives = {l1}
  NumRuns = 1
  MaxAttempts = 1
  MaxCrashes = 0
  AutoResume = FALSE
  ListLimit = 2
  Scans = {TRUE}
  Faults = FALSE
  Deletions = FALSE
PROPERTIES
  CancelClassifies
CHECK_DEADLOCK FALSE
