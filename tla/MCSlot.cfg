SPECIFICATION MCFairSpec
CONSTANTS
  f1 = f1
  f2 = f2
  f3 = f3
  ModelFile = {f1, f2, f3}
  Gpu0 = gpu0
  Gpu1 = gpu1
  Cpu = cpu
  MaxModels = 3
  Models <- MCModels
  Default = 1
  Turn = {t1, t2}
  Threshold = 2
  None = None
INVARIANTS
  ServersAgree
  SwapIsRemembered
PROPERTIES
  PingComes
