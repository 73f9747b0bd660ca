SPECIFICATION Spec
CONSTANTS
  None = None
  OpKinds = {"merge", "rebase", "squash", "sync", "squash-local"}
  MaxCommits = 4
  MaxStarts = 2
  MaxOps = 1
PROPERTIES
  ResumeRestores
CHECK_DEADLOCK FALSE
