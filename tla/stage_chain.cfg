CONSTANTS
  Name = {"dev", "prod", "a"}
  Nil = Nil
  Definitions <- MCDefinitions
SPECIFICATION Spec
INVARIANTS TypeOK AnswerIsRight ChainBounded NearestWins ListsInOrder
PROPERTY Terminates
CHECK_DEADLOCK FALSE
