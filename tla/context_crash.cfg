CONSTANTS
  Kinds = {"nodejs"}
  Types = {"git", "local"}
  Modes = {"build"}
  Job = {j1, j2}
  MaxCommits = 3
  MaxUpdates = 2
  None = None
SPECIFICATION Spec
INVARIANT FileExistsIsRight
CHECK_DEADLOCK FALSE
