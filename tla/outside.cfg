SPECIFICATION Spec
CONSTANTS
  None = None
  OpKinds = {"merge", "rebase", "squash-local"}
  MaxCommits = 4
  MaxStarts = 2
  MaxOps = 1
  Polls = {p1, p2}
  NumWindows = 2
INVARIANTS
  ThresholdOnce
PROPERTIES
  SafeguardOnlyGrows
  ForeignWorkSurvives
CHECK_DEADLOCK FALSE
