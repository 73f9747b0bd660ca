SPECIFICATION TerminalSpec
CONSTANTS
  None = None
  Channels = {c1, c2}
  Screens = {x1, x2, x3}
  Sockets = {s1, s2}
  Writers = {w1}
  MaxChunks = 2
  Overlap = FALSE
  Crashes = TRUE
  Faults = FALSE
  Heights = {1, 3}
  Numbers <- RowNumbers
  Sequences <- Spoken
  MaxSequences = 2
  MaxRestarts = 1
VIEW CanonicalTerminal
SYMMETRY Symmetry
INVARIANTS
  TerminalTypeOK
  HeardIsShown
  ListensToRun
  ModesReachClient
CHECK_DEADLOCK FALSE
