CONSTANTS
  MaxAddr = 9
  Base = 2
  End = 5
  Aligns = {1}
  Policies = {"first"}
  ExactInUse = FALSE
  FreeUnowned = FALSE
SPECIFICATION Spec
INVARIANT NeighboursMerged
