SPECIFICATION Spec
CONSTANTS
  Turn = {t1, t2}
  Chat = {c1}
  Existing = {c1}
  Page = {c1}
  NoChat = NoChat
  NoTurn = NoTurn
  MaxViews = 3
SYMMETRY Symmetry
INVARIANTS
  StreamingIsTracked
CHECK_DEADLOCK FALSE
