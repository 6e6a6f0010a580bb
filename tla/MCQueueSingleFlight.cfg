CONSTANTS
  c1 = c1
  t1 = t1
  t2 = t2
  t3 = t3
  Chat = {c1}
  Task = {t1, t2, t3}
SPECIFICATION Spec
INVARIANTS
  SingleFlight
