CONSTANTS
  MaxExpansion = 4
  Spans = {0, 2, 3}
  MaxRows = 2
  MaxWidth = 3
SPECIFICATION Spec
CHECK_DEADLOCK FALSE
INVARIANTS TypeOK ExactlyOnce PendingIsAhead ExpansionIsBounded
PROPERTY ContentIsKept
