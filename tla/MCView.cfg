SPECIFICATION Spec
CONSTANTS
  Turn = {t1, t2}
  Chat = {c1, c2, c3}
  Existing = {c1, c2}
  Page = {NoChat, c1, c2}
  NoChat = NoChat
  NoTurn = NoTurn
  MaxViews = 3
SYMMETRY Symmetry
INVARIANTS
  OneStreamAtATime
  ScreenShowsItsChat
  StopReachesTheStream
CHECK_DEADLOCK FALSE
