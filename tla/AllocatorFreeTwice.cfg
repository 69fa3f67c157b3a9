CONSTANTS
  MaxAddr = 9
  Base = 2
  End = 5
  Aligns = {1, 2}
  Policies = {"first", "last", "exact"}
  ExactInUse = FALSE
  FreeUnowned = TRUE
SPECIFICATION Spec
PROPERTY FreeRefusesUnowned
