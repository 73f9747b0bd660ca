SPECIFICATION Spec
CONSTANTS
  None = None
  Gets = {g1}
  Ops = {o1}
  MaxTip = 2
  MaxFaults = 1
INVARIANTS
  MergedOnlyIfAsked
CHECK_DEADLOCK FALSE
