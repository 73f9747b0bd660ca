SPECIFICATION FairSpec
CONSTANTS
  None = None
  Runs = {r1, r2}
  Polls = {p1, p2}
  Watched = {r1}
  MaxMoves = 2
  MaxFrames = 1
  MaxFaults = 1
  MaxEnds = 2
  MaxWire = 2
  MaxPending = 2
  Texts = {"a"}
  MaxAttempts = 2
  MaxTyped = 2
  MaxSaves = 2
  Gets = {g1}
  Ops = {o1}
  MaxTip = 2
INVARIANTS
  TypeOK
  TabsMatchState
  OnceAnnounced
  ReportIsTrue
PROPERTIES
  ShowsRequested
  PageCatchesUp
  ShipSettles
CHECK_DEADLOCK FALSE
