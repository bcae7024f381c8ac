CONSTANTS
  a = a
  b = b
  c = c
  f1 = f1
  f2 = f2
  f3 = f3
  ini = ini
  conf = conf
  Base = Base
  None = None
  Source = {f1, f2, f3}
  Dest = {ini, conf}
  Stage = {a, b, c}
  MaxResolves = 3
  Ancestry <- MCAncestry
  Definitions <- FixedDefinition
SPECIFICATION Spec
INVARIANTS TypeOK OwnFilesWin NearestFills OnlyAncestors
CHECK_DEADLOCK FALSE
