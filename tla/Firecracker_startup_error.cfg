CONSTANTS
  MaxWrites = 4
  Regimes = {{"error"}}
SPECIFICATION Spec
CHECK_DEADLOCK FALSE
INVARIANT NoVmmLeft
