CONSTANTS
  m1 = m1
  m2 = m2
  m3 = m3
  j1 = j1
  j2 = j2
  t1 = t1
  t2 = t2
  Msg = {m1, m2}
  Blank = {}
  Job = {j1, j2}
  Turn = {t1}
  Stamp = {1, 2}
  Targets = 1
SPECIFICATION Spec
SYMMETRY Symmetry
INVARIANTS
  TrustedSummaryCoversPrefix
  PromptLosesNothing
PROPERTIES
  RecordedSummaryIsTrusted
