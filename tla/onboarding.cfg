SPECIFICATION Spec
CONSTANTS
  b1 = b1
  i1 = i1
  i2 = i2
  i3 = i3
  A = A
  B = B
  x = x
  y = y
  w1 = w1
  w2 = w2
  None = None
  Brokers = {b1}
  Insurers = {i1, i2, i3}
  Copies = {1, 2}
  Banks = {A, B}
  Numbers = {x, y}
  Confirmed <- MCConfirmed
  Workers = {w1, w2}
SYMMETRY Symmetry
CONSTRAINT Bound
INVARIANTS
  AssignedAreApproved
  OneRowPerPair
  DepthOne
  SettlementAccountIsConfirmed
  ApprovedWithKybHasAccount
