SPECIFICATION FairSpec
CONSTANTS
  MaxSize = 1
  IdxMod = 2
  MaxBatch = 1
  DriverBatch = 1
  Completers = {t1, t2}
  t1 = t1
  t2 = t2
  AllowUndo = FALSE
  EventIdx = {TRUE, FALSE}
  DirtySave = FALSE
PROPERTY EveryChainReturns
