SPECIFICATION FairSpec
CONSTANTS
  None = None
  Requests = {r1}
  Jobs = {j1, j2}
  Policies = {p1, p2}
  Starts <- MCStarts
  Steps = {1}
  Window = 2
  MaxPaid = 2
INVARIANTS OneRowPerPeriod WindowBounded
PROPERTIES WindowKept WindowRefilled
CHECK_DEADLOCK FALSE
