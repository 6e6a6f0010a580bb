CONSTANTS
  t1 = t1
  t2 = t2
  Turn = {t1, t2}
  MaxTokens = 2
  MaxTime = 1
INIT Init
NEXT MCNext
INVARIANTS
  TypeOK
  DoneIsPersisted
  ShownIsKept
  TurnCompletesOnce
PROPERTIES
  GoldenRule
CHECK_DEADLOCK FALSE
