CONSTANTS
  Kinds = {"php", "nodejs"}
  Types = {"git", "local"}
  Modes = {"build", "debug"}
  Job = {j1, j2}
  MaxCommits = 3
  MaxUpdates = 2
  None = None
SPECIFICATION Spec
INVARIANTS TypeOK SameCommit ReqsOfSources
CHECK_DEADLOCK FALSE
