SPECIFICATION MCSpec
CONSTANTS
  t1 = t1
  t2 = t2
  c1 = c1
  c2 = c2
  Trace = {t1, t2}
  Background = {t2}
  Chat = {c1, c2}
  None = None
  ChatOf <- MCChatOf
  MaxSpans = 2
  MaxQueue = 1
  MaxViews = 2
  MaxAsks = 2
  MaxBlocks = 3
  Num = 1
  Den = 2
  Flat = 300
  EveryN = 3
  MaxTokens = 420
  MaxTurns = 7
  Contexts = {400, 600, 800}
INVARIANTS
  PanesAgree
  NothingRunsUnseen
  StreamIsReadWhole
  DueBarIsFull
PROPERTIES
  ReaderIsLeftAlone
CHECK_DEADLOCK FALSE
