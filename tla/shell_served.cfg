SPECIFICATION FairSpec
CONSTANTS
  None = None
  Channels = {c1, c2}
  Screens = {x1, x2, x3}
  Sockets = {s1}
  Writers = {w1}
  MaxChunks = 1
  Overlap = FALSE
  Crashes = TRUE
  Faults = TRUE
PROPERTIES
  TerminalsAreServed
CHECK_DEADLOCK FALSE
