SPECIFICATION Spec
CONSTANTS
  MaxPath = 3
  LnbPriority = {0, 1}
  PathPriority = {0, 1, 2}
  FePriority = {0, 1}
  DishMovePenalty = 1
INVARIANTS PathFound LnbThenConnection NotDominated
CHECK_DEADLOCK FALSE
