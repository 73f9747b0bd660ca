SPECIFICATION FairSpec
CONSTANTS
  None = None
  Views = {v1}
  Fetches = {f1, f2}
  MaxLog = 2
  OldBytes = 1
  MaxDrops = 1
  MaxMoves = 5
INVARIANTS
  ViewIsWired
  NoHole
PROPERTIES
  PausedViewHolds
  BannerClears
CHECK_DEADLOCK FALSE
