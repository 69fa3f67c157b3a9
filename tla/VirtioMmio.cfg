CONSTANTS
  Page0 = {ev}
  Page1 = {f1}
  EventIdx = ev
  Offered = {ev}
  NumQueues = 1
  MaxSize = 2
  Mod16 = 4
  Lows = {0, 4}
  Highs = {0, 1}
  ConfigLen = 1
  Bytes = {0, 1}
  DropBits = TRUE
SPECIFICATION MmioSpec
INVARIANTS Negotiated ActivatedOnce
PROPERTIES QueuesFrozen FailedIsFinal
VIEW View
