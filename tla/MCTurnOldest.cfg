CONSTANTS
  t1 = t1
  Turn = {t1}
  MaxTokens = 2
  MaxTime = 1
SPECIFICATION Spec
INVARIANTS
  OldestFirst
CHECK_DEADLOCK FALSE
