SPECIFICATION Spec
CONSTANTS
  None = None
  Gone = Gone
  NumTokens = 2
  NumRuns = 2
  MaxUploads = 2
  Quota = 1
  MaxEvents = 2
  OneSubmit = TRUE
  Launches = {l1, l2}
  Sweeps = {s1}
  Overrides = {o1, o2}
  MaxMonths = 1
  Values = {"a", "b"}
  Plugins = {"p"}
  MaxLives = 2
  OldRuns = {r1, r2}
  NarrowCheck = FALSE
  MaxCrashes = 3
  MaxEdits = 2
  ServerNames = {n1, n2, n3}
  MaxId = 2
  Secrets = {k1, k2}
  Requests = {q1, q2}
  MaxClicks = 2
INVARIANTS
  TypeOK
  LaunchHasImage
  OnlyMissedRowsAreWrong
  Upgraded
PROPERTIES
  UploadsLand
  LaunchedIsComplete
  EditsReach
CHECK_DEADLOCK FALSE
