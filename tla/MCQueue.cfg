CONSTANTS
  c1 = c1
  c2 = c2
  t1 = t1
  t2 = t2
  t3 = t3
  Chat = {c1, c2}
  Task = {t1, t2, t3}
SPECIFICATION FairSpec
INVARIANTS
  MarkedChatHasTask
  QuietWhenStopped
PROPERTIES
  NoNewWorkWhileStopping
  MarkerIsReleased
  StopEnds
