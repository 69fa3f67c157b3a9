CONSTANTS
  Page0 = {ev, f0}
  Page1 = {f1}
  EventIdx = ev
  Offered = {ev, f1}
  NumQueues = 1
  MaxSize = 2
  Mod16 = 4
  Lows = {0, 4}
  Highs = {0}
  ConfigLen = 1
  Bytes = {0, 1}
  DropBits = TRUE
SPECIFICATION MmioSpec
PROPERTY FeaturesFrozen
