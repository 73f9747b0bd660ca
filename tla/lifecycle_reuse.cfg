SPECIFICATION Spec
CONSTANTS
  None = None
  Containers = {c1, c2}
  Lives = {l1, l2}
  NumRuns = 1
  MaxAttempts = 1
  MaxCrashes = 0
  AutoResume = TRUE
  ListLimit = 2
  Scans = {TRUE}
  Faults = FALSE
  Deletions = TRUE
SYMMETRY Symmetry
INVARIANTS
  TypeOK
  ActiveIsTended
PROPERTIES
  OnlyContinueRevives
  ImplementsRunSpec
CHECK_DEADLOCK FALSE
