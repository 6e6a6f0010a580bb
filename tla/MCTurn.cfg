CONSTANTS
  t1 = t1
  t2 = t2
  Turn = {t1, t2}
  MaxTokens = 1
  MaxTime = 1
SPECIFICATION MCSpec
INVARIANTS
  DoneIsPersisted
  ShownIsKept
  TurnCompletesOnce
PROPERTIES
  GoldenRule
  TurnEnds
CHECK_DEADLOCK FALSE
