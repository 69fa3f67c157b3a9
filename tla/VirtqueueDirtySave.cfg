SPECIFICATION Spec
CONSTANTS
  MaxSize = 1
  IdxMod = 2
  MaxBatch = 1
  DriverBatch = 1
  Completers = {t1}
  t1 = t1
  AllowUndo = FALSE
  EventIdx = {TRUE}
  DirtySave = TRUE
INVARIANT NumAddedCounts
