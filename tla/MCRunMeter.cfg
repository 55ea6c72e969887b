SPECIFICATION Spec
CONSTANTS
  Pairs = {e1, e2}
  NoPair = NoPair
  MaxScopes = 3
  MaxTime = 3
INVARIANTS
  RecordTimesItsScope
CHECK_DEADLOCK FALSE
