CONSTANTS
  MaxAddr = 9
  Base = 0
  End = 5
  Aligns = {1, 2}
  Policies = {"first", "last", "exact"}
  ExactInUse = FALSE
  FreeUnowned = FALSE
SPECIFICATION Spec
INVARIANT PolicyRespected
