SPECIFICATION Spec
CONSTANTS
  MaxSize = 2
  IdxMod = 4
  MaxBatch = 2
  DriverBatch = 2
  Completers = {t1}
  t1 = t1
  AllowUndo = TRUE
  EventIdx = {TRUE, FALSE}
  DirtySave = FALSE
VIEW View
INVARIANTS NoLostKick NoLostInterrupt IndexNeverRefused NumAddedCounts
PROPERTY ImplementsExchange
