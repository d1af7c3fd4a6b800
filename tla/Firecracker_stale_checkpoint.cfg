CONSTANTS
  MaxWrites = 4
  Regimes = {{"exit"}}
SPECIFICATION Spec
CHECK_DEADLOCK FALSE
INVARIANT ContentsSurvive
