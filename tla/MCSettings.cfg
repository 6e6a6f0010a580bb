SPECIFICATION MCFairSpec
CONSTANTS
  v1 = v1
  NModels = 1
  Value = {v1, v2}
  Rules = {r1}
  Intent = {i1}
  Alias = {a1}
  NoAlias = NoAlias
  MaxPanels = 2
  MaxGpu = 3
  MaxTtl = 2
INVARIANTS
  CleanMeansStored
  FieldsKeepTheirValues
PROPERTIES
  OnlyClickedIsStored
  ButtonsComeBack
CHECK_DEADLOCK FALSE
