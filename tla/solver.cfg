CONSTANTS
  p1 = p1
  p2 = p2
  p3 = p3
  Path = {p1, p2, p3}
  None = None
  MaxCalls = 3
  MaxFaults = 1
  Trees <- AcyclicTrees
SPECIFICATION Spec
INVARIANTS TypeOK OutputIsWhole ReadIsRight LeavesNothing
PROPERTY CallReturns
CHECK_DEADLOCK FALSE
