CONSTANTS
  None = None
  MaxEdits = 1
  Inputs <- Builds
  Word <- Words
SPECIFICATION Spec
INVARIANTS TypeOK SameSteps DepsReused OnlySources StateDirsEmpty AssetsFromStage
CHECK_DEADLOCK FALSE
