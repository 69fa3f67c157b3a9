CONSTANTS
  MaxAddr = 11
  Base = 2
  End = 8
  Aligns = {1, 2, 4}
  Policies = {"first", "last", "exact"}
  ExactInUse = FALSE
  FreeUnowned = TRUE
SPECIFICATION TreeSpec
INVARIANTS NodesExact NoAddressLost NoDoubleAllocation PolicyRespected Balanced
PROPERTY ImplementsNodes
