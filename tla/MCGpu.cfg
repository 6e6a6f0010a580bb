SPECIFICATION FairSpec
CONSTANTS
  Apply = {a1}
  Config = {c1, c2, c3}
  Enabled = {c1, c2}
  Resident = {c2, c3}
  NoFile = NoFile
  Torn = Torn
INVARIANTS
  SwapIsWhole
  BackupIsPrevious
PROPERTIES
  RollbackRestoresPrevious
  ApplyEnds
