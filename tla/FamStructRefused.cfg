CONSTANTS
  MaxId = 6
  Devices = {d1, d2}
  MaxBusAddr = 2
  MaxRes = 2
  HalfBits = 2
  MaxJump = 15
  Args = {1, 2}
  MaxProgram = 100
  Filters <- MCFilters
  Calls <- MCCalls
  Layouts <- MCLayouts
  FamEntries = {0, 1, 2}
  MaxLen = 3
  Slack = 1
SPECIFICATION ServiceSpec
INVARIANT LengthInside
